------------------------------- MODULE Watchdog -------------------------------
(***************************************************************************)
(* local/watchdog.sh: the health canary a timer runs every minute beside   *)
(* the serving pair, with the four state files it keeps between runs.  One *)
(* run is a sequence of steps (unit, container, /health, worker, /metrics, *)
(* verdict, heal), because each probe may take ten seconds and the         *)
(* operator, systemd and the engine act meanwhile; the run itself may be   *)
(* killed (TimeoutStartSec=600) between any two steps.                     *)
(*                                                                         *)
(* Time is kept as saturating ages, one unit per TimePasses step, so that  *)
(* no clock bounds a behaviour.  A token total is known by whether it      *)
(* equals the one in PROGRESS_FILE.  Totals of one engine only grow; the   *)
(* total an earlier engine left on file may equal the present one (both 0, *)
(* or both that of the same warm-up) or not.                               *)
(***************************************************************************)
EXTENDS Naturals

CONSTANTS
    FailThreshold,      \* FAIL_THRESHOLD
    StallThreshold,     \* STALL_THRESHOLD
    Grace,              \* GRACE_SECS, in time units
    LoadGrace,          \* LOAD_GRACE
    MinHealInterval,    \* MIN_HEAL_INTERVAL
    MaxRun,             \* TimeoutStartSec of the watchdog's own service
    MaxKills            \* bound on runs killed half-way or refused a restart

ASSUME ThresholdAssumption ==
    /\ FailThreshold \in Nat \ {0}
    /\ StallThreshold \in Nat \ {0}
ASSUME TimeAssumption ==
    /\ Grace \in Nat
    /\ LoadGrace \in Nat
    /\ MinHealInterval \in Nat
    /\ MaxRun \in Nat
    /\ MaxKills \in Nat

UnitState == {"inactive", "activating", "active", "failed"}
WatchdogPC == {"idle", "container", "health", "worker", "metrics", "verdict",
               "heal", "restart"}

VARIABLES
    \* the world
    unit,        \* systemctl is-active
    activeAge,   \* time since the unit entered "active"
    head,        \* head container: "absent", "running", "exited"
    headAge,     \* time since the head container was started
    workerUp,    \* the worker container runs
    health,      \* /health answers
    wedged,      \* the engine is stuck in a collective; /health still answers
    pending,     \* requests are running or waiting
    scrape,      \* /metrics can be read while /health answers
    \* the watchdog
    wpc,         \* next step of the current run
    runAge,      \* time since the run took its `now`
    bad,         \* the run's verdict so far
    fails,       \* FAIL_FILE
    stalls,      \* STALL_FILE
    prog,        \* PROGRESS_FILE: "none", "old" (an earlier engine's total),
                 \* "same" as this engine's total now or "diff"erent from it
    sinceHeal,   \* now - HEAL_FILE
    kills,       \* runs killed so far
    \* history
    frozen,      \* scrapes of this engine since its last token
    carried,     \* what an earlier engine left in the count of stalls: its stalls,
                 \* and one for its total; 0 once the count starts again
    sinceBounce, \* time since the watchdog last restarted the unit
    stopped      \* the operator removed the pair while no run was under way

world == <<unit, activeAge, head, headAge, workerUp, health, wedged, pending, scrape>>
files == <<fails, stalls, prog, sinceHeal>>
history == <<frozen, carried, sinceBounce, stopped>>
vars == <<unit, activeAge, head, headAge, workerUp, health, wedged, pending, scrape,
          wpc, runAge, bad, fails, stalls, prog, sinceHeal, kills,
          frozen, carried, sinceBounce, stopped>>

\* Saturating increment.
Inc(x, max) == IF x < max THEN x + 1 ELSE x

TypeOK ==
    /\ unit \in UnitState
    /\ activeAge \in 0..Grace
    /\ head \in {"absent", "running", "exited"}
    /\ headAge \in 0..(LoadGrace + MaxRun)
    /\ workerUp \in BOOLEAN
    /\ health \in BOOLEAN
    /\ wedged \in BOOLEAN
    /\ pending \in BOOLEAN
    /\ scrape \in BOOLEAN
    /\ wpc \in WatchdogPC
    /\ runAge \in 0..MaxRun
    /\ bad \in BOOLEAN
    /\ fails \in 0..FailThreshold
    /\ stalls \in 0..StallThreshold
    /\ prog \in {"none", "old", "same", "diff"}
    /\ sinceHeal \in 0..(MinHealInterval + MaxRun)
    /\ kills \in 0..MaxKills
    /\ frozen \in 0..(StallThreshold + 1)
    /\ carried \in 0..(StallThreshold + 1)
    /\ sinceBounce \in 0..MinHealInterval
    /\ stopped \in BOOLEAN

\* Nothing has been started yet; the state files do not exist.
Init ==
    /\ unit = "inactive"
    /\ activeAge = 0
    /\ head = "absent"
    /\ headAge = 0
    /\ workerUp = FALSE
    /\ health = FALSE
    /\ wedged = FALSE
    /\ pending = FALSE
    /\ scrape = TRUE
    /\ wpc = "idle"
    /\ runAge = 0
    /\ bad = FALSE
    /\ fails = 0
    /\ stalls = 0
    /\ prog = "none"
    /\ sinceHeal = MinHealInterval + MaxRun
    /\ kills = 0
    /\ frozen = 0
    /\ carried = 0
    /\ sinceBounce = MinHealInterval
    /\ stopped = FALSE

-----------------------------------------------------------------------------
(***************************************************************************)
(* One run of watchdog.sh                                                  *)
(***************************************************************************)

\* Unit activating, or active for less than the grace, or its start time
\* unreadable: `exit 0` without touching a state file.
TickNotYet ==
    /\ wpc = "idle"
    /\ unit \in {"activating", "active"}
    /\ UNCHANGED vars

\* Unit neither activating nor active: not ours to heal.
TickNotOurs ==
    /\ wpc = "idle"
    /\ unit \in {"inactive", "failed"}
    /\ fails' = 0
    /\ UNCHANGED <<world, wpc, runAge, bad, stalls, prog, sinceHeal, kills,
                   frozen, carried, sinceBounce, stopped>>

TickActive ==
    /\ wpc = "idle"
    /\ unit = "active"
    /\ activeAge >= Grace
    /\ wpc' = "container"
    /\ runAge' = 0
    /\ bad' = FALSE
    /\ UNCHANGED <<world, files, kills, history>>

\* A plausible slip: an absent container is taken for a dead one.
CheckContainerTwoWay ==
    /\ wpc = "container"
    /\ bad' = (head # "running")
    /\ wpc' = IF head = "running" THEN "health" ELSE "verdict"
    /\ UNCHANGED <<world, runAge, files, kills, history>>

\* docker inspect's three-way answer: absent is a deliberate teardown,
\* exited a crash, running goes on to /health.
CheckContainer ==
    /\ wpc = "container"
    /\ \/ /\ head = "absent"
          /\ wpc' = "idle"
          /\ fails' = 0 /\ stalls' = 0 /\ prog' = "none"
          /\ carried' = 0
          /\ UNCHANGED bad
       \/ /\ head = "exited"
          /\ wpc' = "verdict"
          /\ bad' = TRUE
          /\ UNCHANGED <<fails, stalls, prog, carried>>
       \/ /\ head = "running"
          /\ wpc' = "health"
          /\ UNCHANGED <<bad, fails, stalls, prog, carried>>
    /\ UNCHANGED <<world, runAge, sinceHeal, kills, frozen, sinceBounce, stopped>>

\* /health; when it is down, a container younger than LOAD_GRACE is loading.
\* The container may have gone since CheckContainer read it.  Then StartedAt
\* is empty, and `date -d ""` is midnight today: the age is the time of day,
\* which may be below LOAD_GRACE or above it.
CheckHealth ==
    /\ wpc = "health"
    /\ \/ /\ health
          /\ wpc' = "worker"
          /\ UNCHANGED <<bad, fails>>
       \/ /\ ~health
          /\ head = "absent" \/ headAge < LoadGrace + runAge
          /\ wpc' = "idle"
          /\ fails' = 0
          /\ UNCHANGED bad
       \/ /\ ~health
          /\ head = "absent" \/ headAge >= LoadGrace + runAge
          /\ wpc' = "verdict"
          /\ bad' = TRUE
          /\ UNCHANGED <<fails>>
    /\ UNCHANGED <<world, runAge, stalls, prog, sinceHeal, kills,
                   frozen, carried, sinceBounce, stopped>>

\* ssh + docker inspect on the worker; rc=255 (transport) proves nothing.
CheckWorker ==
    /\ wpc = "worker"
    /\ \/ wpc' = "metrics" /\ UNCHANGED bad
       \/ ~workerUp /\ wpc' = "verdict" /\ bad' = TRUE
    /\ UNCHANGED <<world, runAge, files, kills, history>>

\* What a scrape that got through leaves: the total is on file, and the count
\* of stalls is n.
Scraped(n) ==
    /\ prog' = "same"
    /\ frozen' = Inc(frozen, StallThreshold + 1)
    /\ stalls' = n
    /\ carried' = IF n = 0 THEN 0 ELSE carried
    /\ bad' = (n >= StallThreshold)

\* A plausible slip: pending requests alone count as a stall.
CheckProgressBusyIsWedged ==
    /\ wpc = "metrics"
    /\ wpc' = "verdict"
    /\ IF health /\ scrape
       THEN Scraped(IF pending THEN Inc(stalls, StallThreshold) ELSE 0)
       ELSE UNCHANGED <<bad, stalls, prog, frozen, carried>>
    /\ UNCHANGED <<world, runAge, fails, sinceHeal, kills, sinceBounce, stopped>>

\* A plausible slip: a frozen total is never written down as a stall.
CheckProgressNeverStalls ==
    /\ wpc = "metrics"
    /\ wpc' = "verdict"
    /\ IF health /\ scrape
       THEN Scraped(0)
       ELSE UNCHANGED <<bad, stalls, prog, frozen, carried>>
    /\ UNCHANGED <<world, runAge, fails, sinceHeal, kills, sinceBounce, stopped>>

\* Forward progress: the total is written every time it can be read; it
\* counts as a stall when it equals the previous one and work is pending.
CheckProgress ==
    /\ wpc = "metrics"
    /\ wpc' = "verdict"
    /\ \/ /\ ~(health /\ scrape)
          /\ UNCHANGED <<bad, stalls, prog, frozen, carried>>
       \/ /\ health /\ scrape
          /\ pending /\ prog \in {"same", "old"}
          /\ Scraped(Inc(stalls, StallThreshold))
       \/ /\ health /\ scrape
          /\ ~pending \/ prog # "same"
          /\ Scraped(0)
    /\ UNCHANGED <<world, runAge, fails, sinceHeal, kills, sinceBounce, stopped>>

\* A plausible slip: the count is not read back from FAIL_FILE.
VerdictForgetsCount ==
    /\ wpc = "verdict"
    /\ fails' = IF bad THEN 1 ELSE 0
    /\ wpc' = IF bad /\ fails' >= FailThreshold /\ sinceHeal >= MinHealInterval + runAge
              THEN "heal" ELSE "idle"
    /\ UNCHANGED <<world, runAge, bad, stalls, prog, sinceHeal, kills,
                   frozen, carried, sinceBounce, stopped>>

\* The run's verdict: a good one clears FAIL_FILE; a bad one counts, and the
\* threshold and the heal interval decide whether the run goes on to heal.
Verdict ==
    /\ wpc = "verdict"
    /\ fails' = IF bad THEN Inc(fails, FailThreshold) ELSE 0
    /\ wpc' = IF bad /\ fails' >= FailThreshold /\ sinceHeal >= MinHealInterval + runAge
              THEN "heal" ELSE "idle"
    /\ UNCHANGED <<world, runAge, bad, stalls, prog, sinceHeal, kills,
                   frozen, carried, sinceBounce, stopped>>

\* A plausible slip: the heal's time is not written down.
HealFilesNoEpoch ==
    /\ wpc = "heal"
    /\ wpc' = "restart"
    /\ fails' = 0
    /\ stalls' = 0
    /\ prog' = "none"
    /\ carried' = 0
    /\ UNCHANGED <<world, runAge, bad, sinceHeal, kills,
                   frozen, sinceBounce, stopped>>

\* The files are written before the restart is asked for.
HealFiles ==
    /\ wpc = "heal"
    /\ wpc' = "restart"
    /\ sinceHeal' = runAge
    /\ fails' = 0
    /\ stalls' = 0
    /\ prog' = "none"
    /\ carried' = 0
    /\ UNCHANGED <<world, runAge, bad, kills, frozen, sinceBounce, stopped>>

\* systemctl restart: the pair is torn down and the unit starts again, or
\* the start limit refuses it.  Also what the operator's restart does.
UnitRestarts ==
    /\ unit' \in {"activating", "failed"}
    /\ head' = "absent"
    /\ workerUp' = FALSE
    /\ health' = FALSE
    /\ wedged' = FALSE
    /\ pending' = FALSE
    /\ UNCHANGED <<activeAge, headAge, scrape>>

Restart ==
    /\ wpc = "restart"
    /\ wpc' = "idle"
    /\ UnitRestarts
    /\ sinceBounce' = 0
    /\ stopped' = FALSE
    /\ UNCHANGED <<runAge, bad, files, kills, frozen, carried>>

\* The run is killed between two of its steps (its service's time limit), or,
\* at its last one, systemctl refuses the restart ("RESTART FAILED").
Killed ==
    /\ wpc # "idle"
    /\ kills < MaxKills
    /\ kills' = kills + 1
    /\ wpc' = "idle"
    /\ UNCHANGED <<world, runAge, bad, files, history>>

WatchdogStep ==
    \/ TickNotYet \/ TickNotOurs \/ TickActive
    \/ CheckContainer \/ CheckHealth \/ CheckWorker \/ CheckProgress
    \/ Verdict \/ HealFiles \/ Restart

-----------------------------------------------------------------------------
(***************************************************************************)
(* systemd, the operator and the engine                                    *)
(***************************************************************************)

\* A plausible slip: the service has no TimeoutStartSec, and a run that
\* hangs in a probe goes on.
TimePassesNoLimit ==
    /\ runAge' = IF wpc = "idle" THEN runAge ELSE runAge + 1
    /\ activeAge' = Inc(activeAge, Grace)
    /\ headAge' = Inc(headAge, LoadGrace + MaxRun)
    /\ sinceHeal' = Inc(sinceHeal, MinHealInterval + MaxRun)
    /\ sinceBounce' = Inc(sinceBounce, MinHealInterval)
    /\ UNCHANGED <<unit, head, workerUp, health, wedged, pending, scrape, wpc, bad,
                   fails, stalls, prog, kills, frozen, carried, stopped>>

\* The service's time limit ends a run before its age exceeds MaxRun.
TimePasses ==
    /\ wpc # "idle" => runAge < MaxRun
    /\ runAge' = IF wpc = "idle" THEN runAge ELSE runAge + 1
    /\ activeAge' = Inc(activeAge, Grace)
    /\ headAge' = Inc(headAge, LoadGrace + MaxRun)
    /\ sinceHeal' = Inc(sinceHeal, MinHealInterval + MaxRun)
    /\ sinceBounce' = Inc(sinceBounce, MinHealInterval)
    /\ UNCHANGED <<unit, head, workerUp, health, wedged, pending, scrape,
                   wpc, bad, fails, stalls, prog, kills, frozen, carried, stopped>>

\* systemctl start or restart, by the operator.
OperatorRestarts ==
    /\ UnitRestarts
    /\ stopped' = FALSE
    /\ UNCHANGED <<wpc, runAge, bad, files, kills,
                   frozen, carried, sinceBounce>>

\* ./start.sh stop under an active unit: the containers go, the unit stays.
OperatorStops ==
    /\ unit = "active"
    /\ head' = "absent"
    /\ workerUp' = FALSE
    /\ health' = FALSE
    /\ wedged' = FALSE
    /\ pending' = FALSE
    /\ stopped' = (wpc = "idle")
    /\ UNCHANGED <<unit, activeAge, headAge, scrape, wpc, runAge, bad, files, kills,
                   frozen, carried, sinceBounce>>

\* launch_cluster, under the unit or by hand (./start.sh start, restart).
PairLaunches ==
    /\ unit \in {"activating", "active"}
    /\ head = "absent"
    /\ head' = "running"
    /\ headAge' = 0
    /\ workerUp' = TRUE
    /\ prog' = IF prog = "none" THEN "none" ELSE "old"
    /\ frozen' = 0
    /\ carried' = IF prog = "none" THEN 0 ELSE stalls + 1
    /\ stopped' = FALSE
    /\ UNCHANGED <<unit, activeAge, health, wedged, pending, scrape,
                   wpc, runAge, bad, fails, stalls, sinceHeal, kills, sinceBounce>>

LoadCompletes ==
    /\ head = "running"
    /\ workerUp
    /\ ~health
    /\ health' = TRUE
    /\ UNCHANGED <<unit, activeAge, head, headAge, workerUp, wedged, pending, scrape,
                   wpc, runAge, bad, files, kills, history>>

\* The unit becomes active only after start.sh saw /health.
UnitBecomesActive ==
    /\ unit = "activating"
    /\ health
    /\ unit' = "active"
    /\ activeAge' = 0
    /\ UNCHANGED <<head, headAge, workerUp, health, wedged, pending, scrape,
                   wpc, runAge, bad, files, kills, history>>

HeadCrashes ==
    /\ head = "running"
    /\ head' = "exited"
    /\ health' = FALSE
    /\ wedged' = FALSE
    /\ pending' = FALSE
    /\ UNCHANGED <<unit, activeAge, headAge, workerUp, scrape,
                   wpc, runAge, bad, files, kills, history>>

HealthFails ==
    /\ health
    /\ health' = FALSE
    /\ UNCHANGED <<unit, activeAge, head, headAge, workerUp, wedged, pending, scrape,
                   wpc, runAge, bad, files, kills, history>>

WorkerDies ==
    /\ workerUp
    /\ workerUp' = FALSE
    /\ UNCHANGED <<unit, activeAge, head, headAge, health, wedged, pending, scrape,
                   wpc, runAge, bad, files, kills, history>>

EngineWedges ==
    /\ health
    /\ ~wedged
    /\ wedged' = TRUE
    /\ UNCHANGED <<unit, activeAge, head, headAge, workerUp, health, pending, scrape,
                   wpc, runAge, bad, files, kills, history>>

LoadChanges ==
    /\ health
    /\ pending' = ~pending
    /\ UNCHANGED <<unit, activeAge, head, headAge, workerUp, health, wedged, scrape,
                   wpc, runAge, bad, files, kills, history>>

EngineProgresses ==
    /\ health /\ ~wedged /\ pending
    /\ prog' = IF prog = "same" THEN "diff" ELSE prog
    /\ frozen' = 0
    /\ UNCHANGED <<world, wpc, runAge, bad, fails, stalls, sinceHeal, kills,
                   carried, sinceBounce, stopped>>

ScrapeFlips ==
    /\ scrape' = ~scrape
    /\ UNCHANGED <<unit, activeAge, head, headAge, workerUp, health, wedged, pending,
                   wpc, runAge, bad, files, kills, history>>

World ==
    \/ OperatorRestarts \/ OperatorStops \/ PairLaunches \/ LoadCompletes
    \/ UnitBecomesActive \/ HeadCrashes \/ HealthFails \/ WorkerDies
    \/ EngineWedges \/ LoadChanges \/ EngineProgresses \/ ScrapeFlips

Next == WatchdogStep \/ Killed \/ TimePasses \/ World

Spec == Init /\ [][Next]_vars

\* The timer fires and its runs proceed; time passes.  Nothing is assumed of
\* systemd, the operator or the engine.
FairSpec == Spec /\ WF_vars(WatchdogStep) /\ WF_vars(TimePasses)

-----------------------------------------------------------------------------
(***************************************************************************)
(* Properties                                                              *)
(***************************************************************************)

\* Busy is mistaken for wedged only by what an earlier engine left behind:
\* when the total on file is the present one, the stalls on file are fewer
\* than the scrapes of THIS engine since it last produced a token and what it
\* was launched with (watchdog.sh:157-180), whatever restarts, stops and failed
\* scrapes happened in between.
StallsAreReal == prog = "same" => (stalls = 0 \/ stalls < carried + frozen)

\* The watchdog restarts the unit at most once per MIN_HEAL_INTERVAL less the
\* length of one run (HEAL_FILE holds the time the run began, the restart
\* comes at its end), also when runs are killed between writing the files and
\* restarting (watchdog.sh:34, 49, 195-207).
BouncesAreSpaced == wpc = "restart" => sinceBounce + MaxRun >= MinHealInterval

\* What an operator took down between two runs stays down: no later run goes
\* on to heal before something is launched again, whatever failures were on
\* file (watchdog.sh:82-103).
OperatorStopIsFinal == stopped => wpc \notin {"heal", "restart"}

\* A head that crashed, or that stopped answering /health for good, does not
\* stay down under an active unit: the watchdog restarts the unit
\* (watchdog.sh:105-128, 189-207).
DownIsHealed == []<>~(unit = "active" /\ head # "absent" /\ ~health)

\* A wedged engine with work pending does not stay wedged although /health
\* answers, as long as /metrics can be read (watchdog.sh:149-180).
WedgeIsHealed ==
    []<>~(/\ unit = "active" /\ head = "running" /\ workerUp
          /\ health /\ wedged /\ pending /\ scrape)

\* "without a container age we cannot tell loading from wedged": the run
\* stands down when the container it is asking about is gone
\* (watchdog.sh:116-120).
UnknownAgeStandsDown ==
    [][(wpc = "health" /\ head = "absent") => wpc' # "verdict"]_vars

=============================================================================
