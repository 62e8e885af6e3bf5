------------------------------- MODULE Window -------------------------------
(***************************************************************************)
(* The guarded measuring windows: the image qualification runner, the      *)
(* profile runner and the kernel-occupancy runner.  Each takes production  *)
(* down, measures, and has to bring production and its timers back on      *)
(* every way out.  A runner is a script of operations; its receipt on disk *)
(* survives it, and a later invocation resumes it from any phase or begins *)
(* a fresh one that knows nothing of the last.  Around it the watchdog     *)
(* timer may have a run in flight, that run may queue a restart of the     *)
(* pair, the pair may crash, signals arrive, and the runner itself may be  *)
(* killed outright.  One host is used for one kind of window at a time, so *)
(* the runner is fixed for a behaviour.                                    *)
(***************************************************************************)
EXTENDS Naturals, Sequences

CONSTANTS
    Arms,           \* arms of the qualification window, in order
    Tolerated       \* signals one invocation is sent at most, per runner

ASSUME ArmsAssumption == Arms \in Seq({"a", "b", "b2", "a2"})
ASSUME ToleratedAssumption == Tolerated \in [{"qualify", "profile", "occupancy"} -> Nat]

VARIABLES
    runner,      \* which window is run on this host
    mode,        \* "window", "recover", "atexit" or "exited"
    pc,          \* next operation of the script
    signals,     \* signals so far
    outcome,     \* how it went: "alert" asks for the operator, "kept" is --keep-armed,
                 \* "interrupted" ends in a traceback
    stopFailed,  \* a timer could not be stopped or started
    quiet,       \* the services were seen inactive
    receipt,     \* the receipt on disk, and so the state dict; clean is history:
                 \* it was begun with nothing left to undo
    env,         \* last-wins content of .env
    engine,      \* what the pair was booted with, or why it is down: a crash
                 \* ("down"), the runner ("stopped"), its failed start ("unbooted")
    timers,      \* active timers
    service,     \* a watchdog run is in flight
    job,         \* a restart of the pair is queued
    profiler,    \* the container the receipt names holds the GPU
    orphan       \* one does that no receipt at hand names

vars == <<runner, mode, pc, signals, outcome, stopFailed, quiet, receipt,
          env, engine, timers, service, job, profiler, orphan>>

outside == <<env, engine, timers, service, job, profiler, orphan>>
process == <<runner, mode, pc, signals, outcome, stopFailed, quiet>>
control == <<runner, signals>>

Runners == {"qualify", "profile", "occupancy"}
TIMERS == {"watchdog", "alert"}
Boots == {Arms[k] : k \in 1..Len(Arms)}
ArmNames == Boots \cup {"prof"}
Configs == ArmNames \cup {"prod"}

Down == {"down", "stopped", "unbooted"}
Up(c) == c \notin Down
(* The tag a boot serves: production runs the image of arm b.              *)
ImageOf(c) == IF c \in {"a", "a2"} THEN "A" ELSE "B"

-----------------------------------------------------------------------------
(* Scripts.  A step names its phase, so that --from and --to can cut there.*)
Do(phase, op, arg) == [phase |-> phase, op |-> op, arg |-> arg]

PreflightSteps == <<Do("preflight", "backup", ""), Do("preflight", "check", "")>>
DisarmSteps(strict) ==
    <<Do("disarm", "intend_disarm", ""), Do("disarm", "stop", "watchdog"),
      Do("disarm", "stop", "alert"), Do("disarm", "prove_stopped", "")>> \o
    IF strict THEN <<Do("disarm", "services", ""), Do("disarm", "jobs", "")>> ELSE <<>>
ArmSteps(x) ==
    <<Do("arm", "intend_arm", x), Do("arm", "set_env", x),
      Do("arm", "boot", ""), Do("arm", "verify_arm", x)>>
MeasureSteps(x) ==
    <<Do("measure", "verify_boot", x), Do("measure", "lanes", x)>>
ProfileSteps == <<Do("profile", "lanes", "prof")>>
RestoreSteps ==
    <<Do("restore", "copy_backup", ""), Do("restore", "boot", ""),
      Do("restore", "verify_restore", "")>>
GatesSteps == <<Do("gates", "gates", "")>>
RearmSteps ==
    <<Do("rearm", "start", "watchdog"), Do("rearm", "start", "alert"),
      Do("rearm", "prove_started", "")>>
JudgeSteps == <<Do("judge", "judge", "")>>
StopSteps == <<Do("stop", "take_down", "")>>
CaptureSteps ==
    <<Do("capture", "memory", ""), Do("capture", "register", ""), Do("capture", "ncu", ""),
      Do("capture", "ncu_end", "")>>
StartSteps == <<Do("start", "cleanup", ""), Do("start", "boot_if_down", "")>>

(* Each arm in turn is booted and measured.                                *)
ArmScript(x) == ArmSteps(x) \o MeasureSteps(x)
ArmsScript ==
    [k \in 1..(6 * Len(Arms)) |-> ArmScript(Arms[1 + ((k - 1) \div 6)])[1 + ((k - 1) % 6)]]

QualifyScript ==
    PreflightSteps \o DisarmSteps(TRUE) \o ArmsScript \o RestoreSteps \o GatesSteps
    \o RearmSteps \o JudgeSteps
ProfileScript ==
    PreflightSteps \o DisarmSteps(FALSE) \o ArmSteps("prof") \o ProfileSteps \o RestoreSteps
    \o GatesSteps \o RearmSteps
OccupancyScript ==
    PreflightSteps \o DisarmSteps(FALSE) \o StopSteps \o CaptureSteps \o JudgeSteps \o StartSteps
    \o GatesSteps \o RearmSteps

Script(r) ==
    CASE r = "qualify" -> QualifyScript
      [] r = "profile" -> ProfileScript
      [] r = "occupancy" -> OccupancyScript

(* What is undone after a failure: production first, then the timers.      *)
RecoverScript(r) ==
    (IF r = "occupancy" THEN StartSteps ELSE RestoreSteps) \o RearmSteps
FirstTimerStep(r) == Len(RecoverScript(r)) - Len(RearmSteps) + 1

Steps == IF mode = "window" THEN Script(runner) ELSE RecoverScript(runner)
AtEnd == pc > Len(Steps)
Now(op) == mode \in {"window", "recover", "atexit"} /\ ~AtEnd /\ Steps[pc].op = op
arg == Steps[pc].arg

NoReceipt == [backup |-> "none", touched |-> FALSE, disarmed |-> FALSE,
              boots |-> [x \in Boots |-> "none"], container |-> FALSE, clean |-> TRUE]

-----------------------------------------------------------------------------
Init ==
    /\ runner \in Runners /\ mode = "exited" /\ pc = 1
    /\ signals = 0 /\ outcome = "none" /\ stopFailed = FALSE /\ quiet = FALSE
    /\ receipt = NoReceipt
    /\ env = "prod" /\ engine = "prod" /\ timers = TIMERS
    /\ service = FALSE /\ job = FALSE /\ profiler = FALSE /\ orphan = FALSE

Quiescent == ~service /\ ~job
ArmPhase(p) == p \in {"arm", "measure"}

(* Where a script can be entered with --from and left with --to.           *)
PhaseStarts(s) == {k \in 1..Len(s) : k = 1 \/ s[k - 1].phase /= s[k].phase}

Production(config) ==
    CASE runner = "qualify" -> Up(config) /\ ImageOf(config) = "B"
      [] runner = "profile" -> Up(config) /\ config /= "prof"
      [] runner = "occupancy" -> Up(config)

(* .env names production, what runs is production, monitoring is on.       *)
AsProduction ==
    /\ timers = TIMERS
    /\ Production(env)
    /\ Up(engine) => Production(engine)

(* main(): handlers are installed and the phases begin.                    *)
Launch(first) ==
    /\ mode = "exited" /\ mode' = "window"
    /\ pc' = first /\ signals' = 0 /\ outcome' = "none"
    /\ stopFailed' = FALSE /\ quiet' = FALSE
    /\ UNCHANGED runner

(* The receipt comes to name another container, or none.                   *)
Rename == profiler' = FALSE /\ orphan' = (orphan \/ profiler)

(* A plain invocation, or one whose receipt does not parse: state = {}.    *)
Begin ==
    /\ Launch(1)
    /\ receipt' = [NoReceipt EXCEPT !.clean = AsProduction]
    /\ Rename
    /\ UNCHANGED <<env, engine, timers, service, job>>

(* Mutant: --from is not refused without a preflight on file.              *)
ResumeUnchecked(first) ==
    LET s == Script(runner)
    IN  /\ Launch(first)
        /\ runner = "qualify" /\ ArmPhase(s[first].phase) => timers = {} /\ Quiescent
        /\ UNCHANGED <<receipt, outside>>

(* --state and --from: the receipt is loaded, and the arguments checked.   *)
Resume(first) ==
    LET s == Script(runner)
    IN  /\ Launch(first)
        /\ first /= 1 => receipt.backup /= "none"
        /\ runner = "qualify" /\ ArmPhase(s[first].phase) => timers = {} /\ Quiescent
        /\ UNCHANGED <<receipt, outside>>

(* needs_env_restore; the occupancy runner always looks for its container. *)
NeedsRestore ==
    CASE runner = "qualify" -> receipt.backup /= "none" /\ (receipt.touched \/ ImageOf(env) /= "B")
      [] runner = "profile" -> receipt.backup /= "none" /\ (receipt.touched \/ env = "prof")
      [] runner = "occupancy" -> TRUE

NeedsTimers == receipt.disarmed

UndoStart ==
    IF NeedsRestore THEN 1
    ELSE IF NeedsTimers THEN FirstTimerStep(runner) ELSE Len(RecoverScript(runner)) + 1

Undo(m) == mode' = m /\ stopFailed' = FALSE /\ pc' = UndoStart

(* The process is gone; what it left behind is in the receipt and outside. *)
Exit(o) ==
    /\ mode' = "exited" /\ outcome' = o
    /\ pc' = 1 /\ signals' = 0
    /\ stopFailed' = FALSE /\ quiet' = FALSE
    /\ UNCHANGED runner

Goto(n) == pc' = n /\ UNCHANGED <<mode, outcome, control>>
Advance == Goto(pc + 1)

(* A phase handler raises, or a recovery step does: the recovery of the    *)
(* timers does not depend on that of production.                           *)
Raise ==
    /\ UNCHANGED <<control, quiet>>
    /\ IF mode = "window" THEN outcome' = "failed" /\ Undo("recover")
       ELSE /\ outcome' = "alert"
            /\ pc' = IF pc < FirstTimerStep(runner) /\ NeedsTimers
                     THEN FirstTimerStep(runner) ELSE Len(RecoverScript(runner)) + 1
            /\ stopFailed' = FALSE
            /\ UNCHANGED mode

RaiseOnly == Raise /\ UNCHANGED <<receipt, outside>>

(* Mutant: a failed recovery is retried as often as it fails.              *)
FinishRetries ==
    /\ mode \in {"window", "recover", "atexit"} /\ AtEnd
    /\ IF mode /= "window" /\ outcome = "alert"
       THEN Undo("atexit") /\ outcome' = "failed" /\ UNCHANGED <<control, quiet>>
       ELSE Exit(IF outcome = "none" THEN "ok" ELSE outcome)
    /\ UNCHANGED <<receipt, outside>>

(* The end of a script: a window that ran through exits; after a recovery  *)
(* the qualification runner leaves a failed one to atexit for another try. *)
Finish ==
    /\ mode \in {"window", "recover", "atexit"} /\ AtEnd
    /\ IF mode = "recover" /\ runner = "qualify" /\ outcome = "alert"
       THEN Undo("atexit") /\ outcome' = "failed" /\ UNCHANGED <<control, quiet>>
       ELSE Exit(IF outcome = "none" THEN "ok" ELSE outcome)
    /\ UNCHANGED <<receipt, outside>>

(* --to: the window is left after a phase, as it is.                       *)
StopAfterPhase ==
    /\ mode = "window" /\ pc \in PhaseStarts(Script(runner)) \ {1}
    /\ Exit("ok")
    /\ UNCHANGED <<receipt, outside>>

(* --keep-armed: after a failure nothing is undone.                        *)
KeepArmed ==
    /\ mode = "recover" /\ outcome = "failed" /\ pc = UndoStart /\ runner /= "occupancy"
    /\ Exit("kept")
    /\ UNCHANGED <<receipt, outside>>

(* SIGTERM or SIGHUP raises KeyboardInterrupt.  In a window it is a        *)
(* failure; the profile runner leaves main with it between two phases.     *)
SignalInWindow ==
    /\ mode = "window" /\ signals < Tolerated[runner]
    /\ \/ Undo("recover")
       \/ runner = "profile" /\ pc \in PhaseStarts(Script(runner)) /\ Undo("atexit")
    /\ signals' = signals + 1 /\ outcome' = "failed"
    /\ UNCHANGED <<runner, quiet, receipt, outside>>

(* In a recovery it leaves main, and atexit starts over.                   *)
SignalInRecovery ==
    /\ mode = "recover" /\ runner /= "occupancy" /\ signals < Tolerated[runner]
    /\ Undo("atexit")
    /\ signals' = signals + 1 /\ outcome' = "failed"
    /\ UNCHANGED <<runner, quiet, receipt, outside>>

(* The occupancy runner has no atexit handler, and a handler is not called *)
(* again: the process ends where it is.                                    *)
SignalEnds ==
    /\ mode = "atexit" \/ (mode = "recover" /\ runner = "occupancy")
    /\ signals < Tolerated[runner]
    /\ Exit("interrupted")
    /\ UNCHANGED <<receipt, outside>>

Signal == SignalInWindow \/ SignalInRecovery \/ SignalEnds

(* SIGKILL or a power cut: nothing runs, the receipt stays.                *)
Kill ==
    /\ mode /= "exited"
    /\ Exit("killed")
    /\ UNCHANGED <<receipt, outside>>

-----------------------------------------------------------------------------
(* preflight.  The recovery coordinates are saved before anything fails.   *)
Backup ==
    /\ Now("backup")
    /\ receipt' = [receipt EXCEPT !.backup = env]
    /\ Advance
    /\ UNCHANGED <<stopFailed, quiet, outside>>

CleanStart ==
    CASE runner = "qualify" -> ImageOf(env) = "B" /\ Up(engine)
      [] OTHER -> env /= "prof"

(* Config, health, drain and presence of the images.                       *)
Check ==
    /\ Now("check") /\ CleanStart
    /\ Advance
    /\ UNCHANGED <<stopFailed, quiet, receipt, outside>>
CheckFails == Now("check") /\ RaiseOnly

-----------------------------------------------------------------------------
(* disarm and rearm.                                                       *)
(* Mutant: the intent is not saved.                                        *)
IntendDisarmUnsaved ==
    /\ Now("intend_disarm")
    /\ stopFailed' = FALSE
    /\ Advance
    /\ UNCHANGED <<quiet, receipt, outside>>

IntendDisarm ==
    /\ Now("intend_disarm")
    /\ receipt' = [receipt EXCEPT !.disarmed = TRUE]
    /\ stopFailed' = FALSE
    /\ Advance
    /\ UNCHANGED <<quiet, outside>>

(* systemctl stop or start of one timer.                                   *)
Systemctl ==
    /\ Now("stop") \/ Now("start")
    /\ timers' = IF Steps[pc].op = "stop" THEN timers \ {arg} ELSE timers \cup {arg}
    /\ Advance
    /\ UNCHANGED <<stopFailed, quiet, receipt, env, engine, service, job, profiler, orphan>>

(* It fails: the qualification runner goes on to the other timer first.    *)
SystemctlFails ==
    /\ Now("stop") \/ Now("start")
    /\ IF runner = "qualify"
       THEN stopFailed' = TRUE /\ Advance /\ UNCHANGED <<quiet, receipt, outside>>
       ELSE RaiseOnly

ProveTimers ==
    /\ \/ Now("prove_stopped") /\ timers = {}
       \/ Now("prove_started") /\ timers = TIMERS
    /\ ~stopFailed
    /\ Advance
    /\ UNCHANGED <<stopFailed, quiet, receipt, outside>>
TimersUnproved ==
    /\ \/ Now("prove_stopped") /\ (timers /= {} \/ stopFailed)
       \/ Now("prove_started") /\ (timers /= TIMERS \/ stopFailed)
    /\ RaiseOnly

(* wait_quiescent: the services first, then the queue, until both are      *)
(* quiet or the wait is over.  A query that fails counts as busy.          *)
ReadServices ==
    /\ Now("services")
    /\ quiet' \in BOOLEAN /\ (quiet' => ~service)
    /\ Advance
    /\ UNCHANGED <<stopFailed, receipt, outside>>

(* Mutant: a run seen in flight is forgotten once the queue is empty.      *)
ReadJobsOnly ==
    /\ Now("jobs")
    /\ (~job /\ Advance) \/ Goto(pc - 1)
    /\ UNCHANGED <<stopFailed, quiet, receipt, outside>>

ReadJobs ==
    /\ Now("jobs")
    /\ (quiet /\ ~job /\ Advance) \/ Goto(pc - 1)
    /\ UNCHANGED <<stopFailed, quiet, receipt, outside>>
QuiescenceTimesOut == Now("jobs") /\ RaiseOnly

-----------------------------------------------------------------------------
(* arm_*, measure_* and profile.                                           *)
(* Mutant: the intent is not saved before .env is edited.                  *)
IntendArmUnsaved ==
    /\ Now("intend_arm")
    /\ Advance
    /\ UNCHANGED <<stopFailed, quiet, receipt, outside>>

IntendArm ==
    /\ Now("intend_arm")
    /\ receipt' = [receipt EXCEPT !.touched = TRUE]
    /\ Advance
    /\ UNCHANGED <<stopFailed, quiet, outside>>

SetEnv ==
    /\ Now("set_env")
    /\ env' = arg
    /\ Advance
    /\ UNCHANGED <<stopFailed, quiet, receipt, engine, timers, service, job, profiler, orphan>>

(* A boot gives every container a new start time.                          *)
Booted(config) ==
    /\ engine' = config
    /\ receipt' = [receipt EXCEPT !.boots =
                     [x \in Boots |-> IF @[x] = "none" THEN "none" ELSE "stale"]]

(* The occupancy runner restarts production if it is not healthy; after a  *)
(* failure only if it had begun to disarm.                                 *)
Restarts == Now("boot_if_down") /\ (mode = "window" \/ receipt.disarmed)

(* local/prod-start.sh and wait_health.                                    *)
GuardedStart ==
    /\ Now("boot") \/ (Restarts /\ ~Up(engine))
    /\ Booted(env)
    /\ Advance
    /\ UNCHANGED <<stopFailed, quiet, env, timers, service, job, profiler, orphan>>
GuardedStartFails ==
    /\ Now("boot") \/ (Restarts /\ ~Up(engine))
    /\ Booted("unbooted")
    /\ Raise
    /\ UNCHANGED <<env, timers, service, job, profiler, orphan>>

(* The pair runs what the arm names; the boot's identity is recorded.      *)
VerifyArm ==
    /\ Now("verify_arm")
    /\ Up(engine) /\ ImageOf(engine) = ImageOf(arg) /\ (arg = "prof" => engine = "prof")
    /\ receipt' = [receipt EXCEPT !.boots = [x \in Boots |-> IF x = arg THEN "current" ELSE @[x]]]
    /\ Advance
    /\ UNCHANGED <<stopFailed, quiet, outside>>
VerifyArmFails == Now("verify_arm") /\ RaiseOnly

(* Mutant: the image will do, whichever boot it is.                        *)
VerifyBootTrusts ==
    /\ Now("verify_boot") /\ Up(engine) /\ ImageOf(engine) = ImageOf(arg)
    /\ Advance
    /\ UNCHANGED <<stopFailed, quiet, receipt, outside>>

VerifyBoot ==
    /\ Now("verify_boot")
    /\ Up(engine) /\ ImageOf(engine) = ImageOf(arg) /\ receipt.boots[arg] = "current"
    /\ Advance
    /\ UNCHANGED <<stopFailed, quiet, receipt, outside>>
VerifyBootFails == Now("verify_boot") /\ RaiseOnly

(* The probes ran through, so the pair answered all the time, and had the  *)
(* profiler mounted where the probe starts it.                             *)
Lanes ==
    /\ Now("lanes") /\ Up(engine) /\ (arg = "prof" => engine = "prof")
    /\ Advance
    /\ UNCHANGED <<stopFailed, quiet, receipt, outside>>
LanesFail == Now("lanes") /\ RaiseOnly

-----------------------------------------------------------------------------
(* restore, gates and judge.                                               *)
CopyBackup ==
    /\ Now("copy_backup")
    /\ env' = receipt.backup
    /\ Advance
    /\ UNCHANGED <<stopFailed, quiet, receipt, engine, timers, service, job, profiler, orphan>>

(* The backup cannot be copied, or is not what its hash on file says.      *)
CopyBackupFails == Now("copy_backup") /\ RaiseOnly

(* The qualification runner forgets its intent only now; the profile       *)
(* runner never does.                                                      *)
VerifyRestore ==
    /\ Now("verify_restore") /\ Production(engine)
    /\ receipt' = [receipt EXCEPT !.touched = @ /\ runner /= "qualify"]
    /\ Advance
    /\ UNCHANGED <<stopFailed, quiet, outside>>
VerifyRestoreFails == Now("verify_restore") /\ RaiseOnly

Gates ==
    /\ (Now("gates") /\ Up(engine)) \/ Now("judge")
    /\ Advance
    /\ UNCHANGED <<stopFailed, quiet, receipt, outside>>
GatesFail == (Now("gates") \/ Now("judge")) /\ RaiseOnly

-----------------------------------------------------------------------------
(* The occupancy window.                                                   *)
TakeDown ==
    /\ Now("take_down")
    /\ engine' = "stopped"
    /\ Advance
    /\ UNCHANGED <<stopFailed, quiet, receipt, env, timers, service, job, profiler, orphan>>
TakeDownFails == Now("take_down") /\ RaiseOnly

(* MemFree on both nodes: not while production serves.  A profiler that    *)
(* was left behind is small enough to leave that much free.                *)
WaitMemory ==
    /\ Now("memory") /\ ~Up(engine)
    /\ Advance
    /\ UNCHANGED <<stopFailed, quiet, receipt, outside>>
WaitMemoryFails == Now("memory") /\ RaiseOnly

(* The container's name is saved before docker run; it is a new one each   *)
(* time, and the last is overwritten.                                      *)
Register ==
    /\ Now("register")
    /\ receipt' = [receipt EXCEPT !.container = TRUE]
    /\ Rename
    /\ Advance
    /\ UNCHANGED <<stopFailed, quiet, env, engine, timers, service, job>>

RunNcu ==
    /\ Now("ncu")
    /\ profiler' = TRUE
    /\ Advance
    /\ UNCHANGED <<stopFailed, quiet, receipt, env, engine, timers, service, job, orphan>>

NcuEnds ==
    /\ Now("ncu_end")
    /\ profiler' = FALSE
    /\ Advance
    /\ UNCHANGED <<stopFailed, quiet, receipt, env, engine, timers, service, job, orphan>>

(* A timeout or an error: the container is removed, if docker answers.     *)
NcuFails ==
    /\ Now("ncu_end")
    /\ profiler' \in {FALSE, profiler}
    /\ Raise
    /\ UNCHANGED <<receipt, env, engine, timers, service, job, orphan>>

(* cleanup_container, before production is started.                        *)
(* Mutant: docker rm is not awaited.                                       *)
CleanupUnchecked ==
    /\ Now("cleanup")
    /\ profiler' \in {FALSE, profiler}
    /\ Advance
    /\ UNCHANGED <<stopFailed, quiet, receipt, env, engine, timers, service, job, orphan>>

Cleanup ==
    /\ Now("cleanup")
    /\ profiler' = IF receipt.container THEN FALSE ELSE profiler
    /\ Advance
    /\ UNCHANGED <<stopFailed, quiet, receipt, env, engine, timers, service, job, orphan>>

(* Removal is not confirmed: no start on top of it, unless recovery finds  *)
(* production up anyway.                                                   *)
CleanupFails == Now("cleanup") /\ receipt.container /\ RaiseOnly

AlreadyUp ==
    /\ Restarts /\ Up(engine)
    /\ Advance
    /\ UNCHANGED <<stopFailed, quiet, receipt, outside>>

LeaveAsItIs ==
    /\ Now("boot_if_down") /\ ~Restarts
    /\ Goto(Len(Steps) + 1)
    /\ UNCHANGED <<stopFailed, quiet, receipt, outside>>

-----------------------------------------------------------------------------
(* The world around the runner.                                            *)
TimerFires ==
    /\ "watchdog" \in timers /\ ~service
    /\ service' = TRUE
    /\ UNCHANGED <<process, receipt, env, engine, timers, job, profiler, orphan>>

(* A watchdog run ends; it queues a restart if it judged the pair bad.     *)
ServiceEnds ==
    /\ service
    /\ service' = FALSE
    /\ job' \in {job, TRUE}
    /\ UNCHANGED <<process, receipt, env, engine, timers, profiler, orphan>>

(* The queued restart of the unit, with the .env it finds.                 *)
JobRuns ==
    /\ job /\ job' = FALSE
    /\ \/ Booted(env)
       \/ Booted("down")
    /\ UNCHANGED <<process, env, timers, service, profiler, orphan>>

Crash ==
    /\ Up(engine) /\ engine' = "down"
    /\ UNCHANGED <<process, receipt, env, timers, service, job, profiler, orphan>>

(* A profiling container's workload ends by itself, and --rm removes it.   *)
ContainerExits ==
    /\ profiler \/ orphan
    /\ profiler' \in {FALSE, profiler} /\ orphan' \in {FALSE, orphan}
    /\ UNCHANGED <<process, receipt, env, engine, timers, service, job>>

-----------------------------------------------------------------------------
Operation ==
    \/ Backup \/ Check \/ CheckFails
    \/ IntendDisarm \/ Systemctl \/ SystemctlFails \/ ProveTimers \/ TimersUnproved
    \/ ReadServices \/ ReadJobs \/ QuiescenceTimesOut
    \/ IntendArm \/ SetEnv \/ GuardedStart \/ GuardedStartFails \/ VerifyArm \/ VerifyArmFails
    \/ VerifyBoot \/ VerifyBootFails \/ Lanes \/ LanesFail
    \/ CopyBackup \/ CopyBackupFails \/ VerifyRestore \/ VerifyRestoreFails \/ Gates \/ GatesFail
    \/ TakeDown \/ TakeDownFails \/ WaitMemory \/ WaitMemoryFails \/ Register \/ RunNcu
    \/ NcuEnds \/ NcuFails \/ Cleanup \/ CleanupFails \/ AlreadyUp
    \/ LeaveAsItIs
    \/ Finish \/ StopAfterPhase \/ KeepArmed

World == TimerFires \/ ServiceEnds \/ JobRuns \/ Crash \/ ContainerExits

Next ==
    \/ Begin
    \/ \E first \in PhaseStarts(Script(runner)) : Resume(first)
    \/ Operation
    \/ Signal
    \/ Kill
    \/ World

Spec == Init /\ [][Next]_vars

(* The runner is a process of its own: while it is not over it takes step  *)
(* after step, which is WF_vars(Operation), since an operation is always   *)
(* enabled and changes the process, and signals are few.  The wait for     *)
(* quiet has a deadline, so it does not read the queue for ever: this is   *)
(* SF_vars(QuiescenceTimesOut).                                            *)
FairSpec ==
    /\ Spec
    /\ []<>(mode = "exited") \/ []<><<TRUE>>_process
    /\ <>[]~Now("jobs") \/ []<><<QuiescenceTimesOut>>_vars

-----------------------------------------------------------------------------
Typed ==
    /\ runner \in Runners
    /\ mode \in {"window", "recover", "atexit", "exited"}
    /\ pc \in Nat /\ signals \in 0..Tolerated[runner]
    /\ outcome \in {"none", "ok", "failed", "alert", "kept", "killed", "interrupted"}
    /\ stopFailed \in BOOLEAN /\ quiet \in BOOLEAN
    /\ receipt \in [backup : Configs \cup {"none"}, touched : BOOLEAN, disarmed : BOOLEAN,
                    boots : [Boots -> {"none", "current", "stale"}], container : BOOLEAN,
                    clean : BOOLEAN]
    /\ env \in Configs
    /\ engine \in Configs \cup Down
    /\ timers \subseteq TIMERS
    /\ service \in BOOLEAN /\ job \in BOOLEAN /\ profiler \in BOOLEAN /\ orphan \in BOOLEAN

(* The variables have their types, and every phase after the first finds   *)
(* the backup its recovery is to copy.                                     *)
TypeOK == Typed /\ (mode = "window" /\ pc > 1 => receipt.backup /= "none")

(* A runner that failed and reports no failed recovery has put things      *)
(* back: .env names production, what runs is production, the timers are    *)
(* active and will see a pair that is down, and the pair is not left down  *)
(* by the occupancy window's own stop.  A receipt that was begun over what *)
(* another one had left does not know of that and cannot undo it.          *)
FailureIsUndone ==
    mode = "exited" /\ outcome = "failed" /\ receipt.clean =>
        AsProduction /\ (engine = "stopped" => ~receipt.disarmed)

(* Wherever a runner is killed, or a second signal ends its recovery, what *)
(* it has changed is in its receipt, and the window that resumes it knows: *)
(* stopped timers, an .env or a pair that is not production's with a       *)
(* backup to copy, a container that may hold the GPU.                      *)
DebtsAreOnFile ==
    /\ receipt.clean /\ timers /= TIMERS => receipt.disarmed
    /\ receipt.clean /\ (~Production(env) \/ (Up(engine) /\ ~Production(engine))) =>
         receipt.touched /\ receipt.backup /= "none"
    /\ runner = "occupancy" /\ profiler => receipt.container

(* Every observation filed under an arm is taken from a pair that runs     *)
(* that arm, and of the boot the receipt names, whatever was resumed,      *)
(* recovered or killed in between.                                         *)
EvidenceIsOfItsArm ==
    [][Lanes => /\ ImageOf(engine) = ImageOf(arg)
                /\ IF arg = "prof" THEN engine = "prof" ELSE receipt.boots[arg] = "current"]_vars

(* While the qualification window boots and measures its arms, no watchdog *)
(* run is in flight and no restart is queued that could tear a boot down.  *)
ArmsAreUndisturbed ==
    runner = "qualify" /\ mode = "window" /\ ~AtEnd /\ ArmPhase(Steps[pc].phase) =>
        timers = {} /\ Quiescent

(* The occupancy runner never boots production while the container its     *)
(* receipt names may hold the GPU.                                         *)
NoStartOverProfiler ==
    [][runner = "occupancy" /\ GuardedStart => ~profiler]_vars

(* "A profiling container is named and removed before production is        *)
(* restarted" (run_e3_occupancy_window.py:31-34): any of them.             *)
NoStartOverOrphan ==
    [][runner = "occupancy" /\ GuardedStart => ~profiler /\ ~orphan]_vars

(* An invocation comes to an end, its recovery included.                   *)
RunnerEnds == (mode \in {"window", "recover", "atexit"}) ~> (mode = "exited")
=============================================================================
