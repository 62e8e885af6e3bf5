--------------------------- MODULE Watchdog_proofs ---------------------------
(***************************************************************************)
(* The safety invariants of Watchdog, proved for every threshold, grace    *)
(* and interval.  What each needs beyond itself: the spacing of bounces    *)
(* needs how HEAL_FILE's age relates to the age of the last bounce and to  *)
(* the run's own age; the operator's stop needs that the container stays   *)
(* absent; the stall count needs that a total on file was scraped from     *)
(* this engine, or is accounted for in what it was launched with.          *)
(***************************************************************************)
EXTENDS Watchdog, TLAPS

\* The Boolean part of TypeOK.
Flags ==
    /\ workerUp \in BOOLEAN
    /\ health \in BOOLEAN
    /\ wedged \in BOOLEAN
    /\ pending \in BOOLEAN
    /\ scrape \in BOOLEAN
    /\ bad \in BOOLEAN
    /\ stopped \in BOOLEAN

\* HEAL_FILE is at most one run older than the last bounce; a run that goes
\* on to heal found it old enough, and has just rewritten it when it restarts.
HealTimes ==
    /\ sinceHeal <= sinceBounce + MaxRun
    /\ wpc = "heal" => sinceHeal >= MinHealInterval + runAge
    /\ wpc = "restart" => sinceHeal <= runAge

\* After the operator's stop there is no container, and no run that saw one.
StoppedIsAbsent ==
    stopped => head = "absent" /\ wpc \in {"idle", "container"}

\* A total on file that equals the present one was scraped since the last token.
TotalIsOurs == prog = "same" => frozen >= 1

\* Until this engine is scraped, the count on file is the earlier engine's.
OldIsCarried == prog = "old" => carried = stalls + 1

-----------------------------------------------------------------------------

\* Every step keeps the types; the saturating ages and counters stay in range.
LEMMA TypeStep ==
    ASSUME TypeOK, [Next]_vars
    PROVE  TypeOK'
<1> USE ThresholdAssumption, TimeAssumption DEF world, files, history,
      TypeOK, UnitState, WatchdogPC
<1>1. CASE TickNotYet
  BY <1>1 DEF TickNotYet, vars
<1>2. CASE TickNotOurs
  BY <1>2 DEF TickNotOurs
<1>3. CASE TickActive
  <2>1. Flags'
    BY <1>3, Zenon DEF Flags, TickActive
  <2> QED
    BY <1>3, <2>1 DEF Flags, TickActive
<1>4. CASE CheckContainer
  <2>1. Flags'
    BY <1>4, Zenon DEF Flags, CheckContainer
  <2> QED
    BY <1>4, <2>1 DEF Flags, CheckContainer
<1>5. CASE CheckHealth
  <2>1. Flags'
    BY <1>5, Zenon DEF Flags, CheckHealth
  <2> QED
    BY <1>5, <2>1 DEF Flags, CheckHealth
<1>6. CASE CheckWorker
  <2>1. Flags'
    BY <1>6, Zenon DEF Flags, CheckWorker
  <2> QED
    BY <1>6, <2>1 DEF Flags, CheckWorker
<1>7. CASE CheckProgress
  <2>1. bad' \in BOOLEAN
    <3>1. CASE ~(health /\ scrape)
      BY <1>7, <3>1, Zenon DEF CheckProgress
    <3>2. CASE health /\ scrape
      <4>1. \E n : Scraped(n)
        BY <1>7, <3>2, Zenon DEF CheckProgress
      <4>2. PICK n : Scraped(n)
        BY <4>1
      <4>3. bad' = (n >= StallThreshold)
        BY <4>2, Zenon DEF Scraped
      <4>4. (n >= StallThreshold) \in BOOLEAN
        OBVIOUS
      <4> QED
        BY <4>3, <4>4, Zenon
    <3> QED
      BY <3>1, <3>2
  <2>2. UNCHANGED <<workerUp, health, wedged, pending, scrape, stopped>>
    BY <1>7 DEF CheckProgress
  <2> QED
    BY <1>7, <2>1, <2>2 DEF CheckProgress, Scraped, Inc
<1>8. CASE Verdict
  BY <1>8 DEF Verdict, Inc
<1>9. CASE HealFiles
  BY <1>9 DEF HealFiles
<1>10. CASE Restart
  <2>1. Flags'
    BY <1>10, Zenon DEF Flags, Restart, UnitRestarts
  <2> QED
    BY <1>10, <2>1 DEF Flags, Restart, UnitRestarts
<1>11. CASE Killed
  BY <1>11 DEF Killed
<1>12. CASE TimePasses
  BY <1>12 DEF TimePasses, Inc
<1>13. CASE OperatorRestarts
  BY <1>13 DEF OperatorRestarts, UnitRestarts
<1>14. CASE OperatorStops
  BY <1>14 DEF OperatorStops
<1>15. CASE PairLaunches
  <2>1. Flags'
    BY <1>15, Zenon DEF Flags, PairLaunches
  <2> QED
    BY <1>15, <2>1 DEF Flags, PairLaunches
<1>16. CASE LoadCompletes
  BY <1>16 DEF LoadCompletes
<1>17. CASE UnitBecomesActive
  BY <1>17 DEF UnitBecomesActive
<1>18. CASE HeadCrashes
  BY <1>18 DEF HeadCrashes
<1>19. CASE HealthFails
  <2>1. Flags'
    BY <1>19, Zenon DEF Flags, HealthFails
  <2> QED
    BY <1>19, <2>1 DEF Flags, HealthFails
<1>20. CASE WorkerDies
  <2>1. Flags'
    BY <1>20, Zenon DEF Flags, WorkerDies
  <2> QED
    BY <1>20, <2>1 DEF Flags, WorkerDies
<1>21. CASE EngineWedges
  BY <1>21 DEF EngineWedges
<1>22. CASE LoadChanges
  BY <1>22 DEF LoadChanges
<1>23. CASE EngineProgresses
  BY <1>23 DEF EngineProgresses
<1>24. CASE ScrapeFlips
  BY <1>24 DEF ScrapeFlips
<1>25. CASE UNCHANGED vars
  BY <1>25 DEF vars
<1> QED
  BY <1>1, <1>2, <1>3, <1>4, <1>5, <1>6, <1>7, <1>8, <1>9, <1>10, <1>11,
     <1>12, <1>13, <1>14, <1>15, <1>16, <1>17, <1>18, <1>19, <1>20, <1>21,
     <1>22, <1>23, <1>24, <1>25
  DEF Next, WatchdogStep, World

\* The spacing of bounces, through kills between the file and the restart.
LEMMA SpacingStep ==
    ASSUME TypeOK, HealTimes, BouncesAreSpaced, [Next]_vars
    PROVE  HealTimes' /\ BouncesAreSpaced'
<1> USE TimeAssumption DEF world, files, history,
      TypeOK, UnitState, WatchdogPC, HealTimes, BouncesAreSpaced
<1>1. CASE TickNotYet
  BY <1>1 DEF TickNotYet, vars
<1>2. CASE TickNotOurs
  BY <1>2 DEF TickNotOurs
<1>3. CASE TickActive
  BY <1>3 DEF TickActive
<1>4. CASE CheckContainer
  BY <1>4 DEF CheckContainer
<1>5. CASE CheckHealth
  BY <1>5 DEF CheckHealth
<1>6. CASE CheckWorker
  BY <1>6 DEF CheckWorker
<1>7. CASE CheckProgress
  BY <1>7 DEF CheckProgress, Scraped, Inc
<1>8. CASE Verdict
  BY <1>8 DEF Verdict, Inc
<1>9. CASE HealFiles
  BY <1>9 DEF HealFiles
<1>10. CASE Restart
  BY <1>10 DEF Restart, UnitRestarts
<1>11. CASE Killed
  BY <1>11 DEF Killed
<1>12. CASE TimePasses
  BY <1>12 DEF TimePasses, Inc
<1>13. CASE OperatorRestarts
  BY <1>13 DEF OperatorRestarts, UnitRestarts
<1>14. CASE OperatorStops
  BY <1>14 DEF OperatorStops
<1>15. CASE PairLaunches
  BY <1>15 DEF PairLaunches
<1>16. CASE LoadCompletes
  BY <1>16 DEF LoadCompletes
<1>17. CASE UnitBecomesActive
  BY <1>17 DEF UnitBecomesActive
<1>18. CASE HeadCrashes
  BY <1>18 DEF HeadCrashes
<1>19. CASE HealthFails
  BY <1>19 DEF HealthFails
<1>20. CASE WorkerDies
  BY <1>20 DEF WorkerDies
<1>21. CASE EngineWedges
  BY <1>21 DEF EngineWedges
<1>22. CASE LoadChanges
  BY <1>22 DEF LoadChanges
<1>23. CASE EngineProgresses
  BY <1>23 DEF EngineProgresses
<1>24. CASE ScrapeFlips
  BY <1>24 DEF ScrapeFlips
<1>25. CASE UNCHANGED vars
  BY <1>25 DEF vars
<1> QED
  BY <1>1, <1>2, <1>3, <1>4, <1>5, <1>6, <1>7, <1>8, <1>9, <1>10, <1>11,
     <1>12, <1>13, <1>14, <1>15, <1>16, <1>17, <1>18, <1>19, <1>20, <1>21,
     <1>22, <1>23, <1>24, <1>25
  DEF Next, WatchdogStep, World

\* A stopped pair stays absent until something is launched again.
LEMMA StopStep ==
    ASSUME TypeOK, StoppedIsAbsent, [Next]_vars
    PROVE  StoppedIsAbsent'
<1> USE DEF world, files, history,
      TypeOK, WatchdogPC, StoppedIsAbsent
<1>1. CASE TickNotYet
  BY <1>1 DEF TickNotYet, vars
<1>2. CASE TickNotOurs
  BY <1>2 DEF TickNotOurs
<1>3. CASE TickActive
  BY <1>3 DEF TickActive
<1>4. CASE CheckContainer
  BY <1>4 DEF CheckContainer
<1>5. CASE CheckHealth
  BY <1>5 DEF CheckHealth
<1>6. CASE CheckWorker
  BY <1>6 DEF CheckWorker
<1>7. CASE CheckProgress
  BY <1>7 DEF CheckProgress, Scraped, Inc
<1>8. CASE Verdict
  BY <1>8 DEF Verdict, Inc
<1>9. CASE HealFiles
  BY <1>9 DEF HealFiles
<1>10. CASE Restart
  BY <1>10 DEF Restart, UnitRestarts
<1>11. CASE Killed
  BY <1>11 DEF Killed
<1>12. CASE TimePasses
  BY <1>12 DEF TimePasses, Inc
<1>13. CASE OperatorRestarts
  BY <1>13 DEF OperatorRestarts, UnitRestarts
<1>14. CASE OperatorStops
  BY <1>14 DEF OperatorStops
<1>15. CASE PairLaunches
  BY <1>15 DEF PairLaunches
<1>16. CASE LoadCompletes
  BY <1>16 DEF LoadCompletes
<1>17. CASE UnitBecomesActive
  BY <1>17 DEF UnitBecomesActive
<1>18. CASE HeadCrashes
  BY <1>18 DEF HeadCrashes
<1>19. CASE HealthFails
  BY <1>19 DEF HealthFails
<1>20. CASE WorkerDies
  BY <1>20 DEF WorkerDies
<1>21. CASE EngineWedges
  BY <1>21 DEF EngineWedges
<1>22. CASE LoadChanges
  BY <1>22 DEF LoadChanges
<1>23. CASE EngineProgresses
  BY <1>23 DEF EngineProgresses
<1>24. CASE ScrapeFlips
  BY <1>24 DEF ScrapeFlips
<1>25. CASE UNCHANGED vars
  BY <1>25 DEF vars
<1> QED
  BY <1>1, <1>2, <1>3, <1>4, <1>5, <1>6, <1>7, <1>8, <1>9, <1>10, <1>11,
     <1>12, <1>13, <1>14, <1>15, <1>16, <1>17, <1>18, <1>19, <1>20, <1>21,
     <1>22, <1>23, <1>24, <1>25
  DEF Next, WatchdogStep, World

\* Stalls are counted only between scrapes of one engine without a token, on
\* top of what an earlier one left.
LEMMA StallStep ==
    ASSUME TypeOK, TotalIsOurs, OldIsCarried, StallsAreReal, [Next]_vars
    PROVE  TotalIsOurs' /\ OldIsCarried' /\ StallsAreReal'
<1> USE ThresholdAssumption DEF world, files, history,
      TypeOK, WatchdogPC, TotalIsOurs, OldIsCarried, StallsAreReal
<1>1. CASE TickNotYet
  BY <1>1 DEF TickNotYet, vars
<1>2. CASE TickNotOurs
  BY <1>2 DEF TickNotOurs
<1>3. CASE TickActive
  BY <1>3 DEF TickActive
<1>4. CASE CheckContainer
  BY <1>4 DEF CheckContainer
<1>5. CASE CheckHealth
  BY <1>5 DEF CheckHealth
<1>6. CASE CheckWorker
  BY <1>6 DEF CheckWorker
<1>7. CASE CheckProgress
  BY <1>7 DEF CheckProgress, Scraped, Inc
<1>8. CASE Verdict
  BY <1>8 DEF Verdict, Inc
<1>9. CASE HealFiles
  BY <1>9 DEF HealFiles
<1>10. CASE Restart
  BY <1>10 DEF Restart, UnitRestarts
<1>11. CASE Killed
  BY <1>11 DEF Killed
<1>12. CASE TimePasses
  BY <1>12 DEF TimePasses, Inc
<1>13. CASE OperatorRestarts
  BY <1>13 DEF OperatorRestarts, UnitRestarts
<1>14. CASE OperatorStops
  BY <1>14 DEF OperatorStops
<1>15. CASE PairLaunches
  BY <1>15 DEF PairLaunches
<1>16. CASE LoadCompletes
  BY <1>16 DEF LoadCompletes
<1>17. CASE UnitBecomesActive
  BY <1>17 DEF UnitBecomesActive
<1>18. CASE HeadCrashes
  BY <1>18 DEF HeadCrashes
<1>19. CASE HealthFails
  BY <1>19 DEF HealthFails
<1>20. CASE WorkerDies
  BY <1>20 DEF WorkerDies
<1>21. CASE EngineWedges
  BY <1>21 DEF EngineWedges
<1>22. CASE LoadChanges
  BY <1>22 DEF LoadChanges
<1>23. CASE EngineProgresses
  BY <1>23 DEF EngineProgresses
<1>24. CASE ScrapeFlips
  BY <1>24 DEF ScrapeFlips
<1>25. CASE UNCHANGED vars
  BY <1>25 DEF vars
<1> QED
  BY <1>1, <1>2, <1>3, <1>4, <1>5, <1>6, <1>7, <1>8, <1>9, <1>10, <1>11,
     <1>12, <1>13, <1>14, <1>15, <1>16, <1>17, <1>18, <1>19, <1>20, <1>21,
     <1>22, <1>23, <1>24, <1>25
  DEF Next, WatchdogStep, World

\* Every reachable state is well typed.
THEOREM TypeCorrect == Spec => []TypeOK
<1>1. Init => TypeOK
  <2> SUFFICES ASSUME Init PROVE TypeOK
    OBVIOUS
  <2>1. Flags
    BY Zenon DEF Init, Flags
  <2> QED
    BY <2>1, ThresholdAssumption, TimeAssumption
    DEF Flags, Init, TypeOK, UnitState, WatchdogPC
<1>2. TypeOK /\ [Next]_vars => TypeOK'
  BY TypeStep
<1> QED
  BY <1>1, <1>2, PTL DEF Spec

\* The watchdog never bounces twice within MIN_HEAL_INTERVAL less one run's
\* length, whatever the engine, the operator and systemd do
\* (watchdog.sh:34, 195-207).
THEOREM Spacing == Spec => []BouncesAreSpaced
<1>1. Init => HealTimes /\ BouncesAreSpaced
  BY TimeAssumption DEF Init, HealTimes, BouncesAreSpaced
<1>2. TypeOK /\ HealTimes /\ BouncesAreSpaced /\ [Next]_vars
          => HealTimes' /\ BouncesAreSpaced'
  BY SpacingStep
<1> QED
  BY <1>1, <1>2, TypeCorrect, PTL DEF Spec

\* A pair the operator took down between two runs is never healed back
\* (watchdog.sh:82-103).
THEOREM StopIsFinal == Spec => []OperatorStopIsFinal
<1>1. Init => StoppedIsAbsent
  BY DEF Init, StoppedIsAbsent
<1>2. TypeOK /\ StoppedIsAbsent /\ [Next]_vars => StoppedIsAbsent'
  BY StopStep
<1>3. StoppedIsAbsent => OperatorStopIsFinal
  BY DEF StoppedIsAbsent, OperatorStopIsFinal
<1> QED
  BY <1>1, <1>2, <1>3, TypeCorrect, PTL DEF Spec

\* A busy engine is counted as stalled at most by what an earlier engine left
\* on file (watchdog.sh:157-180).
THEOREM StallsCounted == Spec => []StallsAreReal
<1>1. Init => TotalIsOurs /\ OldIsCarried /\ StallsAreReal
  BY DEF Init, TotalIsOurs, OldIsCarried, StallsAreReal
<1>2. TypeOK /\ TotalIsOurs /\ OldIsCarried /\ StallsAreReal /\ [Next]_vars
          => TotalIsOurs' /\ OldIsCarried' /\ StallsAreReal'
  BY StallStep
<1> QED
  BY <1>1, <1>2, TypeCorrect, PTL DEF Spec

=============================================================================
