--------------------------- MODULE ProdStart_proofs ---------------------------
(***************************************************************************)
(* The safety invariants of ProdStart, proved for every set of shapes and  *)
(* every bound.  The inductive invariant adds to the properties what the   *)
(* script knows at each of its lines: how many attempts are left, that the *)
(* head is down from StopHead to RunHead, which shape the worker of this   *)
(* attempt runs, and which caches the guard has emptied so far.            *)
(***************************************************************************)
EXTENDS ProdStart, TLAPS

\* Lines before the retry loop, and lines from its head on.
BeforeLoop == {"idle", "validate", "stop", "stopWorker", "settle", "guard",
               "wipeHead", "wipeWorker", "stamp"}
InLoop == {"attempt", "preflight", "prepare", "launch", "launchWorker",
           "requireGid", "runWorker", "runHead", "waitHealth", "warmup",
           "cleanup", "cleanupWorker", "decide", "recheck", "resettle"}

\* Lines at which the script has removed the head and not launched another.
HeadDown == {"stopWorker", "settle", "guard", "wipeHead", "wipeWorker", "stamp",
             "attempt", "preflight", "prepare", "launch", "launchWorker",
             "requireGid", "runWorker", "runHead",
             "cleanupWorker", "decide", "recheck", "resettle"}

AttemptsLeft ==
    /\ pc \in BeforeLoop => attempt = 0
    /\ pc \in {"attempt", "recheck", "resettle"} => attempt < MaxBootAttempts

HeadIsDown == pc \in HeadDown => container["head"] = "absent"

ResultIsLast == result # "none" => pc = "idle"

WorkerOfThisLaunch == pc = "runHead" => runs["worker"] = shape

StampIsCurrent == (pc \in InLoop /\ ~wipeOwed) => stamp = shape

PairMatchesStamp ==
    (BothRunning /\ ~wipeOwed) => \A n \in Node : runs[n] = stamp

WipedSoFar ==
    /\ (pc \in {"wipeWorker", "stamp"} /\ wipe_ok) => jit["head"] = {}
    /\ (pc = "stamp" /\ wipe_ok) => jit["worker"] = {}

\* The Boolean part of TypeOK.
Flags ==
    /\ wipe_ok \in BOOLEAN
    /\ wipeOwed \in BOOLEAN
    /\ health \in BOOLEAN
    /\ link \in BOOLEAN
    /\ fabric \in BOOLEAN

Ind ==
    /\ TypeOK
    /\ AttemptsLeft
    /\ HeadIsDown
    /\ ResultIsLast
    /\ FailureLeavesNoHead
    /\ WorkerOfThisLaunch
    /\ RanksAgree
    /\ StampIsCurrent
    /\ PairMatchesStamp
    /\ WipedSoFar
    /\ KernelsMatchStamp

-----------------------------------------------------------------------------

\* Every step keeps the types and counts down the attempts that are left.
LEMMA TypeStep ==
    ASSUME TypeOK, AttemptsLeft, [Next]_vars
    PROVE  TypeOK' /\ AttemptsLeft'
<1> USE BoundsAssumption, ShapesAssumption DEF script, caches, pair, env,
      TypeOK, AttemptsLeft, BeforeLoop, PC, Result, Node, ContainerState
<1>1. CASE Invoke
  BY <1>1 DEF Invoke, Goto
<1>2. CASE Validate
  <2>1. Flags'
    BY <1>2, Zenon DEF Flags, Validate, Exit
  <2> QED
    BY <1>2, <2>1 DEF Flags, Validate, Exit
<1>3. CASE StopHead
  BY <1>3 DEF StopHead, Goto, Remove
<1>4. CASE StopWorker
  BY <1>4 DEF StopWorker, Goto, RemoveWorkerIfReachable, Remove
<1>5. CASE Settle
  BY <1>5 DEF Settle, SettleWait
<1>6. CASE Guard
  <2>1. Flags'
    BY <1>6, Zenon DEF Flags, Guard
  <2> QED
    BY <1>6, <2>1 DEF Flags, Guard
<1>7. CASE WipeHead
  BY <1>7 DEF WipeHead, Goto
<1>8. CASE WipeWorker
  BY <1>8 DEF WipeWorker, Goto
<1>9. CASE Stamp
  <2>1. Flags'
    BY <1>9, Zenon DEF Flags, Stamp, Goto
  <2> QED
    BY <1>9, <2>1 DEF Flags, Stamp, Goto
<1>10. CASE BeginAttempt
  BY <1>10 DEF BeginAttempt, Goto
<1>11. CASE Preflight
  BY <1>11 DEF Preflight, Goto, PassesIn, DiesIn, PreflightOk
<1>12. CASE Prepare
  BY <1>12 DEF Prepare, Goto, PassesIn, DiesIn
<1>13. CASE LaunchRemoveHead
  BY <1>13 DEF LaunchRemoveHead, Goto, Remove
<1>14. CASE LaunchRemoveWorker
  BY <1>14 DEF LaunchRemoveWorker, Goto, RemoveWorkerIfReachable, Remove
<1>15. CASE RequireGid
  BY <1>15 DEF RequireGid, Goto, PassesIn, DiesIn, PreflightOk
<1>16. CASE RunWorker
  BY <1>16 DEF RunWorker, Goto, Run, DiesIn
<1>17. CASE RunHead
  BY <1>17 DEF RunHead, Goto, Run, DiesIn
<1>18. CASE PollHealthy
  BY <1>18 DEF PollHealthy, Goto
<1>19. CASE Warmup
  BY <1>19 DEF Warmup, Exit
<1>20. CASE PollGivesUp
  BY <1>20 DEF PollGivesUp, Goto, DiesIn
<1>21. CASE PollAgain
  BY <1>21 DEF PollAgain
<1>22. CASE Cleanup
  BY <1>22 DEF Cleanup, Goto, Remove
<1>23. CASE CleanupWorker
  BY <1>23 DEF CleanupWorker, Goto, RemoveWorkerIfReachable, Remove
<1>24. CASE Decide
  <2>1. Flags'
    BY <1>24, Zenon DEF Flags, Decide, Exit
  <2> QED
    BY <1>24, <2>1 DEF Flags, Decide, Exit
<1>25. CASE Recheck
  <2>1. Flags'
    BY <1>25, Zenon DEF Flags, Recheck, Exit, PreflightOk
  <2> QED
    BY <1>25, <2>1 DEF Flags, Recheck, Exit, PreflightOk
<1>26. CASE Resettle
  BY <1>26 DEF Resettle, SettleWait
<1>27. CASE EditConfig
  BY <1>27 DEF EditConfig
<1>28. CASE Kill
  BY <1>28 DEF Kill, Exit
<1>29. CASE \E n \in Node : Crash(n)
  BY <1>29 DEF Crash
<1>30. CASE \E n \in Node : Compile(n)
  BY <1>30 DEF Compile, BothRunning
<1>31. CASE BecomeHealthy
  BY <1>31 DEF BecomeHealthy
<1>32. CASE BecomeUnhealthy
  <2>1. Flags'
    BY <1>32, Zenon DEF Flags, BecomeUnhealthy
  <2> QED
    BY <1>32, <2>1 DEF Flags, BecomeUnhealthy
<1>33. CASE \E n \in Node : MemoryReturns(n)
  BY <1>33 DEF MemoryReturns
<1>34. CASE LinkFlips
  BY <1>34 DEF LinkFlips
<1>35. CASE FabricFlips
  BY <1>35 DEF FabricFlips
<1>36. CASE UNCHANGED vars
  BY <1>36 DEF vars
<1> QED
  BY <1>1, <1>2, <1>3, <1>4, <1>5, <1>6, <1>7, <1>8, <1>9, <1>10, <1>11,
     <1>12, <1>13, <1>14, <1>15, <1>16, <1>17, <1>18, <1>19, <1>20, <1>21,
     <1>22, <1>23, <1>24, <1>25, <1>26, <1>27, <1>28, <1>29, <1>30, <1>31,
     <1>32, <1>33, <1>34, <1>35, <1>36
  DEF Next, ScriptStep, World

\* From StopHead to RunHead no step brings a head back, and no failed
\* invocation ends elsewhere.
LEMMA HeadStep ==
    ASSUME TypeOK, HeadIsDown, ResultIsLast, FailureLeavesNoHead, [Next]_vars
    PROVE  HeadIsDown' /\ ResultIsLast' /\ FailureLeavesNoHead'
<1> USE DEF script, caches, pair, env,
      TypeOK, HeadIsDown, HeadDown, ResultIsLast, FailureLeavesNoHead, Node
<1>1. CASE Invoke
  BY <1>1 DEF Invoke, Goto
<1>2. CASE Validate
  BY <1>2 DEF Validate, Exit
<1>3. CASE StopHead
  BY <1>3 DEF StopHead, Goto, Remove
<1>4. CASE StopWorker
  BY <1>4 DEF StopWorker, Goto, RemoveWorkerIfReachable, Remove
<1>5. CASE Settle
  BY <1>5 DEF Settle, SettleWait
<1>6. CASE Guard
  BY <1>6 DEF Guard
<1>7. CASE WipeHead
  BY <1>7 DEF WipeHead, Goto
<1>8. CASE WipeWorker
  BY <1>8 DEF WipeWorker, Goto
<1>9. CASE Stamp
  BY <1>9 DEF Stamp, Goto
<1>10. CASE BeginAttempt
  BY <1>10 DEF BeginAttempt, Goto
<1>11. CASE Preflight
  BY <1>11 DEF Preflight, Goto, PassesIn, DiesIn, PreflightOk
<1>12. CASE Prepare
  BY <1>12 DEF Prepare, Goto, PassesIn, DiesIn
<1>13. CASE LaunchRemoveHead
  BY <1>13 DEF LaunchRemoveHead, Goto, Remove
<1>14. CASE LaunchRemoveWorker
  BY <1>14 DEF LaunchRemoveWorker, Goto, RemoveWorkerIfReachable, Remove
<1>15. CASE RequireGid
  BY <1>15 DEF RequireGid, Goto, PassesIn, DiesIn, PreflightOk
<1>16. CASE RunWorker
  BY <1>16 DEF RunWorker, Goto, Run, DiesIn
<1>17. CASE RunHead
  BY <1>17 DEF RunHead, Goto, Run, DiesIn
<1>18. CASE PollHealthy
  BY <1>18 DEF PollHealthy, Goto
<1>19. CASE Warmup
  BY <1>19 DEF Warmup, Exit
<1>20. CASE PollGivesUp
  BY <1>20 DEF PollGivesUp, Goto, DiesIn
<1>21. CASE PollAgain
  BY <1>21 DEF PollAgain
<1>22. CASE Cleanup
  BY <1>22 DEF Cleanup, Goto, Remove
<1>23. CASE CleanupWorker
  BY <1>23 DEF CleanupWorker, Goto, RemoveWorkerIfReachable, Remove
<1>24. CASE Decide
  BY <1>24 DEF Decide, Exit
<1>25. CASE Recheck
  BY <1>25 DEF Recheck, Exit, PreflightOk
<1>26. CASE Resettle
  BY <1>26 DEF Resettle, SettleWait
<1>27. CASE EditConfig
  BY <1>27 DEF EditConfig
<1>28. CASE Kill
  BY <1>28 DEF Kill, Exit
<1>29. CASE \E n \in Node : Crash(n)
  BY <1>29 DEF Crash
<1>30. CASE \E n \in Node : Compile(n)
  BY <1>30 DEF Compile, BothRunning
<1>31. CASE BecomeHealthy
  BY <1>31 DEF BecomeHealthy
<1>32. CASE BecomeUnhealthy
  BY <1>32 DEF BecomeUnhealthy
<1>33. CASE \E n \in Node : MemoryReturns(n)
  BY <1>33 DEF MemoryReturns
<1>34. CASE LinkFlips
  BY <1>34 DEF LinkFlips
<1>35. CASE FabricFlips
  BY <1>35 DEF FabricFlips
<1>36. CASE UNCHANGED vars
  BY <1>36 DEF vars
<1> QED
  BY <1>1, <1>2, <1>3, <1>4, <1>5, <1>6, <1>7, <1>8, <1>9, <1>10, <1>11,
     <1>12, <1>13, <1>14, <1>15, <1>16, <1>17, <1>18, <1>19, <1>20, <1>21,
     <1>22, <1>23, <1>24, <1>25, <1>26, <1>27, <1>28, <1>29, <1>30, <1>31,
     <1>32, <1>33, <1>34, <1>35, <1>36
  DEF Next, ScriptStep, World

\* The pair is launched with one shape, the stamped one unless a wipe is owed.
LEMMA LaunchStep ==
    ASSUME TypeOK, HeadIsDown, WorkerOfThisLaunch, RanksAgree,
           StampIsCurrent, PairMatchesStamp, [Next]_vars
    PROVE  /\ WorkerOfThisLaunch' /\ RanksAgree'
           /\ StampIsCurrent' /\ PairMatchesStamp'
<1> USE DEF script, caches, pair, env,
      TypeOK, HeadIsDown, HeadDown, InLoop, WorkerOfThisLaunch, RanksAgree,
      StampIsCurrent, PairMatchesStamp, BothRunning, Node
<1>1. CASE Invoke
  BY <1>1 DEF Invoke, Goto
<1>2. CASE Validate
  BY <1>2 DEF Validate, Exit
<1>3. CASE StopHead
  BY <1>3 DEF StopHead, Goto, Remove
<1>4. CASE StopWorker
  BY <1>4 DEF StopWorker, Goto, RemoveWorkerIfReachable, Remove
<1>5. CASE Settle
  BY <1>5 DEF Settle, SettleWait
<1>6. CASE Guard
  BY <1>6 DEF Guard
<1>7. CASE WipeHead
  BY <1>7 DEF WipeHead, Goto
<1>8. CASE WipeWorker
  BY <1>8 DEF WipeWorker, Goto
<1>9. CASE Stamp
  BY <1>9 DEF Stamp, Goto
<1>10. CASE BeginAttempt
  BY <1>10 DEF BeginAttempt, Goto
<1>11. CASE Preflight
  BY <1>11 DEF Preflight, Goto, PassesIn, DiesIn, PreflightOk
<1>12. CASE Prepare
  BY <1>12 DEF Prepare, Goto, PassesIn, DiesIn
<1>13. CASE LaunchRemoveHead
  BY <1>13 DEF LaunchRemoveHead, Goto, Remove
<1>14. CASE LaunchRemoveWorker
  BY <1>14 DEF LaunchRemoveWorker, Goto, RemoveWorkerIfReachable, Remove
<1>15. CASE RequireGid
  BY <1>15 DEF RequireGid, Goto, PassesIn, DiesIn, PreflightOk
<1>16. CASE RunWorker
  BY <1>16 DEF RunWorker, Goto, Run, DiesIn
<1>17. CASE RunHead
  BY <1>17 DEF RunHead, Goto, Run, DiesIn
<1>18. CASE PollHealthy
  BY <1>18 DEF PollHealthy, Goto
<1>19. CASE Warmup
  BY <1>19 DEF Warmup, Exit
<1>20. CASE PollGivesUp
  BY <1>20 DEF PollGivesUp, Goto, DiesIn
<1>21. CASE PollAgain
  BY <1>21 DEF PollAgain
<1>22. CASE Cleanup
  BY <1>22 DEF Cleanup, Goto, Remove
<1>23. CASE CleanupWorker
  BY <1>23 DEF CleanupWorker, Goto, RemoveWorkerIfReachable, Remove
<1>24. CASE Decide
  BY <1>24 DEF Decide, Exit
<1>25. CASE Recheck
  BY <1>25 DEF Recheck, Exit, PreflightOk
<1>26. CASE Resettle
  BY <1>26 DEF Resettle, SettleWait
<1>27. CASE EditConfig
  BY <1>27 DEF EditConfig
<1>28. CASE Kill
  BY <1>28 DEF Kill, Exit
<1>29. CASE \E n \in Node : Crash(n)
  BY <1>29 DEF Crash
<1>30. CASE \E n \in Node : Compile(n)
  BY <1>30 DEF Compile, BothRunning
<1>31. CASE BecomeHealthy
  BY <1>31 DEF BecomeHealthy
<1>32. CASE BecomeUnhealthy
  BY <1>32 DEF BecomeUnhealthy
<1>33. CASE \E n \in Node : MemoryReturns(n)
  BY <1>33 DEF MemoryReturns
<1>34. CASE LinkFlips
  BY <1>34 DEF LinkFlips
<1>35. CASE FabricFlips
  BY <1>35 DEF FabricFlips
<1>36. CASE UNCHANGED vars
  BY <1>36 DEF vars
<1> QED
  BY <1>1, <1>2, <1>3, <1>4, <1>5, <1>6, <1>7, <1>8, <1>9, <1>10, <1>11,
     <1>12, <1>13, <1>14, <1>15, <1>16, <1>17, <1>18, <1>19, <1>20, <1>21,
     <1>22, <1>23, <1>24, <1>25, <1>26, <1>27, <1>28, <1>29, <1>30, <1>31,
     <1>32, <1>33, <1>34, <1>35, <1>36
  DEF Next, ScriptStep, World

\* The caches hold kernels of the stamped shape, and the guard knows which
\* of them it has emptied.
LEMMA CacheStep ==
    ASSUME TypeOK, HeadIsDown, PairMatchesStamp, WipedSoFar, KernelsMatchStamp, [Next]_vars
    PROVE  WipedSoFar' /\ KernelsMatchStamp'
<1> USE DEF script, caches, pair, env,
      TypeOK, HeadIsDown, HeadDown, PairMatchesStamp, WipedSoFar, KernelsMatchStamp,
      BothRunning, Node
<1>1. CASE Invoke
  BY <1>1 DEF Invoke, Goto
<1>2. CASE Validate
  BY <1>2 DEF Validate, Exit
<1>3. CASE StopHead
  BY <1>3 DEF StopHead, Goto, Remove
<1>4. CASE StopWorker
  BY <1>4 DEF StopWorker, Goto, RemoveWorkerIfReachable, Remove
<1>5. CASE Settle
  BY <1>5 DEF Settle, SettleWait
<1>6. CASE Guard
  BY <1>6 DEF Guard
<1>7. CASE WipeHead
  BY <1>7 DEF WipeHead, Goto
<1>8. CASE WipeWorker
  BY <1>8 DEF WipeWorker, Goto
<1>9. CASE Stamp
  BY <1>9 DEF Stamp, Goto
<1>10. CASE BeginAttempt
  BY <1>10 DEF BeginAttempt, Goto
<1>11. CASE Preflight
  BY <1>11 DEF Preflight, Goto, PassesIn, DiesIn, PreflightOk
<1>12. CASE Prepare
  BY <1>12 DEF Prepare, Goto, PassesIn, DiesIn
<1>13. CASE LaunchRemoveHead
  BY <1>13 DEF LaunchRemoveHead, Goto, Remove
<1>14. CASE LaunchRemoveWorker
  BY <1>14 DEF LaunchRemoveWorker, Goto, RemoveWorkerIfReachable, Remove
<1>15. CASE RequireGid
  BY <1>15 DEF RequireGid, Goto, PassesIn, DiesIn, PreflightOk
<1>16. CASE RunWorker
  BY <1>16 DEF RunWorker, Goto, Run, DiesIn
<1>17. CASE RunHead
  BY <1>17 DEF RunHead, Goto, Run, DiesIn
<1>18. CASE PollHealthy
  BY <1>18 DEF PollHealthy, Goto
<1>19. CASE Warmup
  BY <1>19 DEF Warmup, Exit
<1>20. CASE PollGivesUp
  BY <1>20 DEF PollGivesUp, Goto, DiesIn
<1>21. CASE PollAgain
  BY <1>21 DEF PollAgain
<1>22. CASE Cleanup
  BY <1>22 DEF Cleanup, Goto, Remove
<1>23. CASE CleanupWorker
  BY <1>23 DEF CleanupWorker, Goto, RemoveWorkerIfReachable, Remove
<1>24. CASE Decide
  BY <1>24 DEF Decide, Exit
<1>25. CASE Recheck
  BY <1>25 DEF Recheck, Exit, PreflightOk
<1>26. CASE Resettle
  BY <1>26 DEF Resettle, SettleWait
<1>27. CASE EditConfig
  BY <1>27 DEF EditConfig
<1>28. CASE Kill
  BY <1>28 DEF Kill, Exit
<1>29. CASE \E n \in Node : Crash(n)
  BY <1>29 DEF Crash
<1>30. CASE \E n \in Node : Compile(n)
  BY <1>30 DEF Compile, BothRunning
<1>31. CASE BecomeHealthy
  BY <1>31 DEF BecomeHealthy
<1>32. CASE BecomeUnhealthy
  BY <1>32 DEF BecomeUnhealthy
<1>33. CASE \E n \in Node : MemoryReturns(n)
  BY <1>33 DEF MemoryReturns
<1>34. CASE LinkFlips
  BY <1>34 DEF LinkFlips
<1>35. CASE FabricFlips
  BY <1>35 DEF FabricFlips
<1>36. CASE UNCHANGED vars
  BY <1>36 DEF vars
<1> QED
  BY <1>1, <1>2, <1>3, <1>4, <1>5, <1>6, <1>7, <1>8, <1>9, <1>10, <1>11,
     <1>12, <1>13, <1>14, <1>15, <1>16, <1>17, <1>18, <1>19, <1>20, <1>21,
     <1>22, <1>23, <1>24, <1>25, <1>26, <1>27, <1>28, <1>29, <1>30, <1>31,
     <1>32, <1>33, <1>34, <1>35, <1>36
  DEF Next, ScriptStep, World

\* The inductive invariant holds in every reachable state.
THEOREM Inductive == Spec => []Ind
<1>1. Init => Ind
  <2> SUFFICES ASSUME Init PROVE Ind
    OBVIOUS
  <2>1. Flags
    BY Zenon DEF Init, Flags
  <2> QED
    BY <2>1, BoundsAssumption, ShapesAssumption
    DEF Flags, Init, Ind, TypeOK, AttemptsLeft, BeforeLoop, HeadIsDown, HeadDown, ResultIsLast,
      FailureLeavesNoHead, WorkerOfThisLaunch, RanksAgree, StampIsCurrent, InLoop,
      PairMatchesStamp, WipedSoFar, KernelsMatchStamp, BothRunning,
      PC, Result, Node, ContainerState
<1>2. Ind /\ [Next]_vars => Ind'
  BY TypeStep, HeadStep, LaunchStep, CacheStep DEF Ind
<1> QED
  BY <1>1, <1>2, PTL DEF Spec

\* Every reachable state is well typed; in particular the retry loop never
\* begins more than MAX_BOOT_ATTEMPTS attempts (prod-start.sh:204-231).
THEOREM TypeCorrect == Spec => []TypeOK
<1>1. Ind => TypeOK
  BY DEF Ind
<1> QED
  BY <1>1, Inductive, PTL

\* Unless a wipe is owed, both JIT caches hold kernels of the stamped shape
\* only, for any number of shapes, half-wipes, kills and retries
\* (prod-start.sh:124-162).
THEOREM KernelsSafe == Spec => []KernelsMatchStamp
<1>1. Ind => KernelsMatchStamp
  BY DEF Ind
<1> QED
  BY <1>1, Inductive, PTL

\* Every attempt, and every preflight that judges a failed one, starts with
\* the head container gone (prod-start.sh:173-182, 219-226).
THEOREM AttemptsClean == Spec => []AttemptStartsClean
<1>1. Ind => AttemptStartsClean
  BY DEF Ind, HeadIsDown, HeadDown, AttemptStartsClean
<1> QED
  BY <1>1, Inductive, PTL

\* An invocation that reports failure leaves no head container, on every
\* path out of the loop (prod-start.sh:219-240).
THEOREM FailureClean == Spec => []FailureLeavesNoHead
<1>1. Ind => FailureLeavesNoHead
  BY DEF Ind
<1> QED
  BY <1>1, Inductive, PTL

\* Two running ranks were launched with the same shape, also when the link
\* to the worker failed during a stop (start.sh:2121-2130, 2653-2661).
THEOREM SameShape == Spec => []RanksAgree
<1>1. Ind => RanksAgree
  BY DEF Ind
<1> QED
  BY <1>1, Inductive, PTL

=============================================================================
