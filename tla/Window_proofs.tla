---------------------------- MODULE Window_proofs ----------------------------
(***************************************************************************)
(* For every list of arms and every number of signals: the arms of the     *)
(* qualification window are booted and measured undisturbed, the occupancy *)
(* runner never starts production over its profiler, a failed runner has   *)
(* undone what it did unless it reports otherwise, and evidence is of the  *)
(* arm it is filed under.  Each part has lemmas about the shape of the     *)
(* scripts and then about their runs.                                      *)
(***************************************************************************)
EXTENDS Window, SequenceTheorems, TLAPS

(* Whatever the scripts are made of.                                       *)
Phases == {"preflight", "disarm", "arm", "measure", "restore", "gates", "rearm", "judge",
           "stop", "capture", "start", "profile"}
Ops == {"backup", "check", "intend_disarm", "stop", "prove_stopped", "services", "jobs",
        "intend_arm", "set_env", "boot", "verify_arm", "verify_boot", "lanes",
        "copy_backup", "verify_restore", "gates", "start", "prove_started", "judge",
        "take_down", "memory", "register", "ncu", "ncu_end", "cleanup", "boot_if_down"}
Args == {"", "watchdog", "alert", "a", "b", "b2", "a2", "prof"}
StepSet == [phase : Phases, op : Ops, arg : Args]

(* What the argument uses of a script: whoever waits for quiet has proved  *)
(* the timers stopped, and an arm is reached from that wait or from an     *)
(* arm.                                                                    *)
Shaped(s) ==
    \A k \in 1..Len(s) :
        /\ s[k].op = "services" =>
             k > 1 /\ s[k - 1].op = "prove_stopped" /\ s[k].phase = "disarm"
             /\ s[k - 1].phase = "disarm"
        /\ s[k].op = "jobs" =>
             k > 1 /\ s[k - 1].op = "services" /\ s[k].phase = "disarm"
             /\ s[k - 1].phase = "disarm"
        /\ ArmPhase(s[k].phase) =>
             /\ k > 1 /\ (s[k - 1].op = "jobs" \/ ArmPhase(s[k - 1].phase))
             /\ s[k].op \notin {"services", "jobs", "stop", "start"}

Calm(s) == \A k \in 1..Len(s) : s[k].op \notin {"services", "jobs"} /\ ~ArmPhase(s[k].phase)

LEMMA ShapedThenCalm ==
    ASSUME NEW s \in Seq(StepSet), NEW t \in Seq(StepSet), Shaped(s), Calm(t)
    PROVE  s \o t \in Seq(StepSet) /\ Shaped(s \o t)
<1>1. /\ s \o t \in Seq(StepSet) /\ Len(s \o t) = Len(s) + Len(t)
      /\ Len(s) \in Nat /\ Len(t) \in Nat
  BY ConcatProperties
<1>2. \A k \in 1..Len(s \o t) : (s \o t)[k] = IF k <= Len(s) THEN s[k] ELSE t[k - Len(s)]
  BY <1>1, ConcatProperties
<1>3. SUFFICES ASSUME NEW k \in 1..Len(s \o t)
               PROVE  /\ k <= Len(s) => (s \o t)[k] = s[k] /\ (k > 1 => (s \o t)[k - 1] = s[k - 1])
                      /\ k > Len(s) => /\ (s \o t)[k].op \notin {"services", "jobs"}
                                       /\ ~ArmPhase((s \o t)[k].phase)
  BY <1>1 DEF Shaped
<1> QED
  BY <1>1, <1>2 DEF Calm

LEMMA Joined ==
    ASSUME NEW e \in Seq(StepSet), NEW f \in Seq(StepSet), NEW g, g = e \o f
    PROVE  /\ g \in Seq(StepSet) /\ Len(g) = Len(e) + Len(f)
           /\ \A i \in 1..(Len(e) + Len(f)) : g[i] = IF i <= Len(e) THEN e[i] ELSE f[i - Len(e)]
<1>1. g \in Seq(StepSet) /\ Len(g) = Len(e) + Len(f)
  BY ConcatProperties
<1>2. \A i \in 1..(Len(e) + Len(f)) : (e \o f)[i] = IF i <= Len(e) THEN e[i] ELSE f[i - Len(e)]
  BY ConcatProperties
<1> QED
  BY <1>1, <1>2

LEMMA FixedSteps ==
    /\ RestoreSteps \in Seq(StepSet) /\ Calm(RestoreSteps)
    /\ RearmSteps \in Seq(StepSet) /\ Calm(RearmSteps)
    /\ GatesSteps \in Seq(StepSet) /\ Calm(GatesSteps)
    /\ JudgeSteps \in Seq(StepSet) /\ Calm(JudgeSteps)
<1>1. RestoreSteps \in Seq(StepSet) /\ Calm(RestoreSteps)
  <2>1. RestoreSteps \in Seq(StepSet)
    BY DEF RestoreSteps, Do, StepSet, Phases, Ops, Args
  <2>2. Len(RestoreSteps) = 3
    BY DEF RestoreSteps
  <2>3. RestoreSteps[1].op = "copy_backup" /\ RestoreSteps[2].op = "boot" /\ RestoreSteps[3].op = "verify_restore"
    BY DEF RestoreSteps, Do
  <2>4. RestoreSteps[1].phase = "restore" /\ RestoreSteps[2].phase = "restore" /\ RestoreSteps[3].phase = "restore"
    BY DEF RestoreSteps, Do
  <2>5. \A k \in 1..3 : k = 1 \/ k = 2 \/ k = 3
    OBVIOUS
  <2> QED
    BY <2>1, <2>2, <2>3, <2>4, <2>5 DEF Calm, ArmPhase
<1>2. RearmSteps \in Seq(StepSet) /\ Calm(RearmSteps)
  <2>1. RearmSteps \in Seq(StepSet)
    BY DEF RearmSteps, Do, StepSet, Phases, Ops, Args
  <2>2. Len(RearmSteps) = 3
    BY DEF RearmSteps
  <2>3. RearmSteps[1].op = "start" /\ RearmSteps[2].op = "start" /\ RearmSteps[3].op = "prove_started"
    BY DEF RearmSteps, Do
  <2>4. RearmSteps[1].phase = "rearm" /\ RearmSteps[2].phase = "rearm" /\ RearmSteps[3].phase = "rearm"
    BY DEF RearmSteps, Do
  <2>5. \A k \in 1..3 : k = 1 \/ k = 2 \/ k = 3
    OBVIOUS
  <2> QED
    BY <2>1, <2>2, <2>3, <2>4, <2>5 DEF Calm, ArmPhase
<1>3. GatesSteps \in Seq(StepSet) /\ Calm(GatesSteps)
  <2>1. GatesSteps \in Seq(StepSet)
    BY DEF GatesSteps, Do, StepSet, Phases, Ops, Args
  <2>2. Len(GatesSteps) = 1
    BY DEF GatesSteps
  <2>3. GatesSteps[1].op = "gates"
    BY DEF GatesSteps, Do
  <2>4. GatesSteps[1].phase = "gates"
    BY DEF GatesSteps, Do
  <2>5. \A k \in 1..1 : k = 1
    OBVIOUS
  <2> QED
    BY <2>1, <2>2, <2>3, <2>4, <2>5 DEF Calm, ArmPhase
<1>4. JudgeSteps \in Seq(StepSet) /\ Calm(JudgeSteps)
  <2>1. JudgeSteps \in Seq(StepSet)
    BY DEF JudgeSteps, Do, StepSet, Phases, Ops, Args
  <2>2. Len(JudgeSteps) = 1
    BY DEF JudgeSteps
  <2>3. JudgeSteps[1].op = "judge"
    BY DEF JudgeSteps, Do
  <2>4. JudgeSteps[1].phase = "judge"
    BY DEF JudgeSteps, Do
  <2>5. \A k \in 1..1 : k = 1
    OBVIOUS
  <2> QED
    BY <2>1, <2>2, <2>3, <2>4, <2>5 DEF Calm, ArmPhase
<1> QED
  BY <1>1, <1>2, <1>3, <1>4

Proving == <<Do("disarm", "intend_disarm", ""), Do("disarm", "stop", "watchdog"),
             Do("disarm", "stop", "alert"), Do("disarm", "prove_stopped", "")>>
Waiting == <<Do("disarm", "services", ""), Do("disarm", "jobs", "")>>

LEMMA DisarmShape ==
    LET d == DisarmSteps(TRUE)
    IN  /\ d \in Seq(StepSet) /\ Len(d) = 6
        /\ d[1].op = "intend_disarm" /\ d[2].op = "stop" /\ d[3].op = "stop"
        /\ d[4].op = "prove_stopped" /\ d[5].op = "services" /\ d[6].op = "jobs"
        /\ \A k \in 1..6 : d[k].phase = "disarm"
<1> DEFINE d == DisarmSteps(TRUE)
<1>1. d = Proving \o Waiting
  BY DEF DisarmSteps, Proving, Waiting
<1>2. Proving \in Seq(StepSet)
  BY DEF Proving, Do, StepSet, Phases, Ops, Args
<1>3. Waiting \in Seq(StepSet)
  BY DEF Waiting, Do, StepSet, Phases, Ops, Args
<1>4. Len(Proving) = 4 /\ Len(Waiting) = 2
  BY DEF Proving, Waiting
<1>5. /\ Proving[1].op = "intend_disarm" /\ Proving[2].op = "stop" /\ Proving[3].op = "stop"
      /\ Proving[4].op = "prove_stopped"
  BY DEF Proving, Do
<1>6. /\ Proving[1].phase = "disarm" /\ Proving[2].phase = "disarm"
      /\ Proving[3].phase = "disarm" /\ Proving[4].phase = "disarm"
  BY DEF Proving, Do
<1>7. /\ Waiting[1].op = "services" /\ Waiting[2].op = "jobs"
      /\ Waiting[1].phase = "disarm" /\ Waiting[2].phase = "disarm"
  BY DEF Waiting, Do
<1> HIDE DEF d
<1>8. /\ d \in Seq(StepSet) /\ Len(d) = 4 + 2
      /\ \A i \in 1..(4 + 2) : d[i] = IF i <= 4 THEN Proving[i] ELSE Waiting[i - 4]
  <2>1. /\ d \in Seq(StepSet) /\ Len(d) = Len(Proving) + Len(Waiting)
        /\ \A i \in 1..(Len(Proving) + Len(Waiting)) :
              d[i] = IF i <= Len(Proving) THEN Proving[i] ELSE Waiting[i - Len(Proving)]
    BY <1>1, <1>2, <1>3, <1>4, Joined
  <2> QED
    BY <2>1, <1>4
<1>9. /\ d[1] = Proving[1] /\ d[2] = Proving[2] /\ d[3] = Proving[3] /\ d[4] = Proving[4]
      /\ d[5] = Waiting[1] /\ d[6] = Waiting[2]
  BY <1>8
<1>10. \A k \in 1..6 : k = 1 \/ k = 2 \/ k = 3 \/ k = 4 \/ k = 5 \/ k = 6
  OBVIOUS
<1>11. \A k \in 1..6 : d[k].phase = "disarm"
  BY <1>6, <1>7, <1>9, <1>10
<1>12. /\ d[1].op = "intend_disarm" /\ d[2].op = "stop" /\ d[3].op = "stop"
       /\ d[4].op = "prove_stopped" /\ d[5].op = "services" /\ d[6].op = "jobs"
  BY <1>5, <1>7, <1>9
<1>13. d \in Seq(StepSet) /\ Len(d) = 6
  BY <1>8
<1> QED
  BY <1>11, <1>12, <1>13, Zenon DEF d

Opening == PreflightSteps \o DisarmSteps(TRUE)

LEMMA OpeningShape ==
    /\ Opening \in Seq(StepSet) /\ Len(Opening) = 8 /\ Opening[8].op = "jobs" /\ Shaped(Opening)
<1> DEFINE d == DisarmSteps(TRUE)
<1>1. PreflightSteps \in Seq(StepSet)
  BY DEF PreflightSteps, Do, StepSet, Phases, Ops, Args
<1>2. Len(PreflightSteps) = 2
  BY DEF PreflightSteps
<1>3. /\ PreflightSteps[1].op = "backup" /\ PreflightSteps[2].op = "check"
      /\ PreflightSteps[1].phase = "preflight" /\ PreflightSteps[2].phase = "preflight"
  BY DEF PreflightSteps, Do
<1>4. /\ d \in Seq(StepSet) /\ Len(d) = 6
      /\ d[1].op = "intend_disarm" /\ d[2].op = "stop" /\ d[3].op = "stop"
      /\ d[4].op = "prove_stopped" /\ d[5].op = "services" /\ d[6].op = "jobs"
      /\ \A k \in 1..6 : d[k].phase = "disarm"
  BY DisarmShape
<1>5. Opening = PreflightSteps \o d
  BY DEF Opening
<1> HIDE DEF d
<1>6. /\ Opening \in Seq(StepSet) /\ Len(Opening) = 2 + 6
      /\ \A i \in 1..(2 + 6) : Opening[i] = IF i <= 2 THEN PreflightSteps[i] ELSE d[i - 2]
  <2>1. /\ Opening \in Seq(StepSet) /\ Len(Opening) = Len(PreflightSteps) + Len(d)
        /\ \A i \in 1..(Len(PreflightSteps) + Len(d)) :
              Opening[i] = IF i <= Len(PreflightSteps) THEN PreflightSteps[i] ELSE d[i - Len(PreflightSteps)]
    BY <1>1, <1>2, <1>4, <1>5, Joined
  <2> QED
    BY <2>1, <1>2, <1>4
<1>7. /\ Opening[1] = PreflightSteps[1] /\ Opening[2] = PreflightSteps[2] /\ Opening[3] = d[1]
      /\ Opening[4] = d[2] /\ Opening[5] = d[3] /\ Opening[6] = d[4] /\ Opening[7] = d[5] /\ Opening[8] = d[6]
  BY <1>6
<1>8. /\ Opening[1].op = "backup" /\ Opening[2].op = "check" /\ Opening[3].op = "intend_disarm"
      /\ Opening[4].op = "stop" /\ Opening[5].op = "stop" /\ Opening[6].op = "prove_stopped"
      /\ Opening[7].op = "services" /\ Opening[8].op = "jobs"
  BY <1>3, <1>4, <1>7
<1>9. /\ Opening[1].phase = "preflight" /\ Opening[2].phase = "preflight" /\ Opening[3].phase = "disarm"
      /\ Opening[4].phase = "disarm" /\ Opening[5].phase = "disarm" /\ Opening[6].phase = "disarm"
      /\ Opening[7].phase = "disarm" /\ Opening[8].phase = "disarm"
  BY <1>3, <1>4, <1>7
<1>10. \A k \in 1..8 : k = 1 \/ k = 2 \/ k = 3 \/ k = 4 \/ k = 5 \/ k = 6 \/ k = 7 \/ k = 8
  OBVIOUS
<1>11. Shaped(Opening)
  BY <1>6, <1>8, <1>9, <1>10 DEF Shaped, ArmPhase
<1> QED
  BY <1>6, <1>8, <1>11

LEMMA ArmScriptShape ==
    ASSUME NEW x \in {"a", "b", "b2", "a2"}, NEW j \in 1..6
    PROVE  /\ ArmScript(x)[j] \in StepSet
           /\ ArmPhase(ArmScript(x)[j].phase)
           /\ ArmScript(x)[j].op \notin {"services", "jobs", "stop", "start"}
<1> DEFINE e == ArmSteps(x)
           f == MeasureSteps(x)
           g == ArmScript(x)
<1>0. x \in Args /\ "" \in Args
  BY DEF Args
<1>1. e \in Seq(StepSet)
  <2>1. Do("arm", "intend_arm", x) \in StepSet /\ Do("arm", "set_env", x) \in StepSet
    BY <1>0 DEF Do, StepSet, Phases, Ops
  <2>2. Do("arm", "boot", "") \in StepSet /\ Do("arm", "verify_arm", x) \in StepSet
    BY <1>0 DEF Do, StepSet, Phases, Ops
  <2>3. ASSUME NEW y1 \in StepSet, NEW y2 \in StepSet, NEW y3 \in StepSet, NEW y4 \in StepSet
        PROVE  <<y1, y2, y3, y4>> \in Seq(StepSet)
    OBVIOUS
  <2> QED
    BY <2>1, <2>2, <2>3, Zenon DEF ArmSteps
<1>2. f \in Seq(StepSet)
  <2>1. Do("measure", "verify_boot", x) \in StepSet /\ Do("measure", "lanes", x) \in StepSet
    BY <1>0 DEF Do, StepSet, Phases, Ops
  <2> QED
    BY <2>1 DEF MeasureSteps
<1>3. Len(e) = 4 /\ Len(f) = 2
  BY DEF ArmSteps, MeasureSteps
<1>4. /\ e[1].op = "intend_arm" /\ e[2].op = "set_env" /\ e[3].op = "boot" /\ e[4].op = "verify_arm"
      /\ e[1].phase = "arm" /\ e[2].phase = "arm" /\ e[3].phase = "arm" /\ e[4].phase = "arm"
  BY DEF ArmSteps, Do
<1>5. /\ f[1].op = "verify_boot" /\ f[2].op = "lanes"
      /\ f[1].phase = "measure" /\ f[2].phase = "measure"
  BY DEF MeasureSteps, Do
<1>6. g = e \o f
  BY DEF ArmScript
<1> HIDE DEF e, f, g
<1>7. /\ g \in Seq(StepSet) /\ Len(g) = 4 + 2
      /\ \A i \in 1..(4 + 2) : g[i] = IF i <= 4 THEN e[i] ELSE f[i - 4]
  <2>1. /\ g \in Seq(StepSet) /\ Len(g) = Len(e) + Len(f)
        /\ \A i \in 1..(Len(e) + Len(f)) :
              g[i] = IF i <= Len(e) THEN e[i] ELSE f[i - Len(e)]
    BY <1>1, <1>2, <1>3, <1>6, Joined
  <2> QED
    BY <2>1, <1>3
<1>8. /\ g[1] = e[1] /\ g[2] = e[2] /\ g[3] = e[3] /\ g[4] = e[4] /\ g[5] = f[1] /\ g[6] = f[2]
  BY <1>7
<1>9. \A k \in 1..6 : k = 1 \/ k = 2 \/ k = 3 \/ k = 4 \/ k = 5 \/ k = 6
  OBVIOUS
<1>10. ArmPhase(g[j].phase) /\ g[j].op \notin {"services", "jobs", "stop", "start"}
  BY <1>4, <1>5, <1>8, <1>9 DEF ArmPhase
<1>11. g[j] \in StepSet
  <2>1. g \in Seq(StepSet) /\ Len(g) = 6
    BY <1>7
  <2> QED
    BY <2>1, ElementOfSeq
<1> QED
  BY <1>10, <1>11 DEF g

LEMMA ArmsShape ==
    /\ ArmsScript \in Seq(StepSet)
    /\ \A k \in 1..Len(ArmsScript) : /\ ArmPhase(ArmsScript[k].phase)
                                     /\ ArmsScript[k].op \notin {"services", "jobs", "stop", "start"}
<1> DEFINE n == 6 * Len(Arms)
           step(k) == ArmScript(Arms[1 + ((k - 1) \div 6)])[1 + ((k - 1) % 6)]
<1>0. Len(Arms) \in Nat
  BY ArmsAssumption
<1>2. \A k \in 1..n : /\ step(k) \in StepSet
                      /\ ArmPhase(step(k).phase)
                      /\ step(k).op \notin {"services", "jobs", "stop", "start"}
  <2> TAKE k \in 1..n
  <2>1. 1 + ((k - 1) \div 6) \in 1..Len(Arms) /\ 1 + ((k - 1) % 6) \in 1..6
    BY <1>0
  <2>2. Arms[1 + ((k - 1) \div 6)] \in {"a", "b", "b2", "a2"}
    BY <2>1, ArmsAssumption
  <2> QED
    BY <2>1, <2>2, ArmScriptShape
<1>3. ArmsScript = [k \in 1..n |-> step(k)] /\ n \in Nat
  BY <1>0 DEF ArmsScript
<1> HIDE DEF n, step
<1>4. ArmsScript \in Seq(StepSet) /\ Len(ArmsScript) = n
  BY <1>2, <1>3, IsASeq
<1> QED
  BY <1>2, <1>3, <1>4

LEMMA QualifyShape == QualifyScript \in Seq(StepSet) /\ Shaped(QualifyScript)
<1> DEFINE u == Opening \o ArmsScript
<1>a. u = Opening \o ArmsScript
  OBVIOUS
<1> HIDE DEF u
<1>0. /\ u \in Seq(StepSet) /\ Len(u) = Len(Opening) + Len(ArmsScript)
      /\ \A i \in 1..(Len(Opening) + Len(ArmsScript)) :
            u[i] = IF i <= Len(Opening) THEN Opening[i] ELSE ArmsScript[i - Len(Opening)]
  <2>1. Opening \in Seq(StepSet) /\ ArmsScript \in Seq(StepSet)
    BY OpeningShape, ArmsShape
  <2> QED
    BY <1>a, <2>1, Joined
<1>1. u \in Seq(StepSet) /\ Len(u) = 8 + Len(ArmsScript) /\ Len(ArmsScript) \in Nat
  BY <1>0, OpeningShape, ArmsShape
<1>2. \A k \in 1..Len(u) : u[k] = IF k <= 8 THEN Opening[k] ELSE ArmsScript[k - 8]
  BY <1>0, <1>1, OpeningShape
<1>3. Shaped(u)
  <2>1. ASSUME NEW k \in 1..8 PROVE u[k] = Opening[k] /\ (k > 1 => u[k - 1] = Opening[k - 1])
    BY <1>1, <1>2
  <2>2. ASSUME NEW k \in 9..Len(u)
        PROVE  /\ ArmPhase(u[k].phase)
               /\ u[k].op \notin {"services", "jobs", "stop", "start"}
    BY <1>1, <1>2, ArmsShape
  <2>3. ASSUME NEW k \in 9..Len(u)
        PROVE  u[k - 1].op = "jobs" \/ ArmPhase(u[k - 1].phase)
    <3>1. CASE k = 9
      BY <3>1, <2>1, OpeningShape
    <3>2. CASE k > 9
      BY <3>2, <2>2, <1>1
    <3> QED
      BY <3>1, <3>2, <1>1
  <2>4. ASSUME NEW k \in 1..Len(u)
        PROVE  k \in 1..8 \/ (k \in 9..Len(u) /\ k > 1)
    BY <1>1
  <2>5. /\ \A k \in 1..8 : k \in 1..Len(Opening)
    BY OpeningShape
  <2>6. ASSUME NEW k \in 1..8
        PROVE  /\ u[k].op = "services" =>
                    k > 1 /\ u[k - 1].op = "prove_stopped" /\ u[k].phase = "disarm"
                    /\ u[k - 1].phase = "disarm"
               /\ u[k].op = "jobs" =>
                    k > 1 /\ u[k - 1].op = "services" /\ u[k].phase = "disarm"
                    /\ u[k - 1].phase = "disarm"
               /\ ArmPhase(u[k].phase) =>
                    /\ k > 1 /\ (u[k - 1].op = "jobs" \/ ArmPhase(u[k - 1].phase))
                    /\ u[k].op \notin {"services", "jobs", "stop", "start"}
    BY <2>1, <2>5, OpeningShape DEF Shaped
  <2> QED
    BY <2>2, <2>3, <2>4, <2>6 DEF Shaped
<1>4. u \o RestoreSteps \in Seq(StepSet) /\ Shaped(u \o RestoreSteps)
  BY <1>1, <1>3, FixedSteps, ShapedThenCalm
<1>5. u \o RestoreSteps \o GatesSteps \in Seq(StepSet) /\ Shaped(u \o RestoreSteps \o GatesSteps)
  BY <1>4, FixedSteps, ShapedThenCalm
<1>6. /\ u \o RestoreSteps \o GatesSteps \o RearmSteps \in Seq(StepSet)
      /\ Shaped(u \o RestoreSteps \o GatesSteps \o RearmSteps)
  BY <1>5, FixedSteps, ShapedThenCalm
<1>7. /\ u \o RestoreSteps \o GatesSteps \o RearmSteps \o JudgeSteps \in Seq(StepSet)
      /\ Shaped(u \o RestoreSteps \o GatesSteps \o RearmSteps \o JudgeSteps)
  BY <1>6, FixedSteps, ShapedThenCalm
<1> QED
  BY <1>7 DEF u, Opening, QualifyScript

-----------------------------------------------------------------------------
(* The arms of the qualification window.                                   *)
Qualifying == mode = "window" /\ runner = "qualify"

(* What holds where the window waits for quiet, and from there on.         *)
QuietAt(k) ==
    /\ QualifyScript[k].op \in {"services", "jobs"} => timers = {}
    /\ QualifyScript[k].op = "jobs" /\ quiet => ~service
    /\ ArmPhase(QualifyScript[k].phase) => timers = {} /\ ~service /\ ~job

QuietInv ==
    Qualifying => pc \in Nat \ {0} /\ (pc <= Len(QualifyScript) => QuietAt(pc))

(* An operation that moves on and touches neither timers nor services.     *)
MovesOn ==
    /\ mode \in {"window", "recover", "atexit"} /\ ~AtEnd
    /\ Steps[pc].op \notin {"prove_stopped", "services", "jobs", "stop", "start"}
    /\ pc' = pc + 1
    /\ UNCHANGED <<mode, runner, timers, service, job>>

LEMMA StepsOfWindow ==
    ASSUME Qualifying
    PROVE  Steps = QualifyScript
  BY DEF Qualifying, Steps, Script

LEMMA LenIsNat == Len(QualifyScript) \in Nat
  BY QualifyShape

LEMMA MovesOnKeepsQuiet ==
    ASSUME QuietInv, MovesOn
    PROVE  QuietInv'
<1> SUFFICES ASSUME Qualifying, QuietInv, MovesOn
             PROVE  (pc \in Nat \ {0} /\ (pc <= Len(QualifyScript) => QuietAt(pc)))'
  BY DEF QuietInv, Qualifying, MovesOn
<1>1. /\ Steps = QualifyScript /\ pc \in Nat \ {0} /\ pc <= Len(QualifyScript) /\ QuietAt(pc)
  BY StepsOfWindow, LenIsNat DEF QuietInv, MovesOn, AtEnd
<1>2. pc' = pc + 1 /\ UNCHANGED <<timers, service, job>>
  BY DEF MovesOn
<1>3. QualifyScript[pc].op \notin {"prove_stopped", "services", "jobs", "stop", "start"}
  BY <1>1 DEF MovesOn
<1> DEFINE k == pc + 1
<1>4. ASSUME k <= Len(QualifyScript)
      PROVE  /\ QualifyScript[k].op \notin {"services", "jobs"}
             /\ ArmPhase(QualifyScript[k].phase) => ArmPhase(QualifyScript[pc].phase)
  <2>1. k \in 1..Len(QualifyScript) /\ k - 1 = pc
    BY <1>1, <1>4, LenIsNat
  <2> HIDE DEF k
  <2> QED
    BY <1>3, <2>1, QualifyShape DEF Shaped
<1> QED
  BY <1>1, <1>2, <1>4 DEF QuietAt

LEMMA PlainOperationsMoveOn ==
    ASSUME \/ Backup \/ Check \/ IntendDisarm \/ IntendArm \/ SetEnv \/ GuardedStart
           \/ VerifyArm \/ VerifyBoot \/ Lanes \/ CopyBackup \/ VerifyRestore \/ Gates
           \/ TakeDown \/ WaitMemory \/ Register \/ RunNcu \/ NcuEnds \/ Cleanup \/ AlreadyUp
    PROVE  MovesOn
<1>1. ASSUME Backup \/ Check \/ IntendDisarm \/ IntendArm \/ SetEnv PROVE MovesOn
  BY <1>1 DEF Backup, Check, IntendDisarm, IntendArm, SetEnv, MovesOn, Now, Advance, Goto,
              control, outside
<1>2. CASE GuardedStart
  BY <1>2 DEF GuardedStart, Restarts, MovesOn, Now, Advance, Goto, control
<1>3. ASSUME VerifyArm \/ VerifyBoot \/ Lanes PROVE MovesOn
  BY <1>3 DEF VerifyArm, VerifyBoot, Lanes, MovesOn, Now, Advance, Goto, control, outside
<1>4. ASSUME CopyBackup \/ VerifyRestore \/ Gates PROVE MovesOn
  BY <1>4 DEF CopyBackup, VerifyRestore, Gates, MovesOn, Now, Advance, Goto, control, outside
<1>5. ASSUME TakeDown \/ WaitMemory \/ Register PROVE MovesOn
  BY <1>5 DEF TakeDown, WaitMemory, Register, MovesOn, Now, Advance, Goto, control, outside
<1>6. ASSUME RunNcu \/ NcuEnds \/ Cleanup \/ AlreadyUp PROVE MovesOn
  BY <1>6 DEF RunNcu, NcuEnds, Cleanup, AlreadyUp, Restarts, MovesOn, Now, Advance, Goto,
              control, outside
<1> QED
  BY <1>1, <1>2, <1>3, <1>4, <1>5, <1>6

(* A failure leaves the window.                                            *)
LEMMA RaiseLeavesWindow == Raise => mode' /= "window"
  BY DEF Raise, Undo

LEMMA FailuresLeaveWindow ==
    ASSUME \/ CheckFails \/ TimersUnproved \/ QuiescenceTimesOut \/ GuardedStartFails
           \/ VerifyArmFails \/ VerifyBootFails \/ LanesFail \/ VerifyRestoreFails \/ CopyBackupFails \/ GatesFail
           \/ TakeDownFails \/ WaitMemoryFails \/ NcuFails \/ CleanupFails
    PROVE  Raise
  BY DEF CheckFails, TimersUnproved, QuiescenceTimesOut, GuardedStartFails, VerifyArmFails,
         VerifyBootFails, LanesFail, VerifyRestoreFails, CopyBackupFails, GatesFail, TakeDownFails,
         WaitMemoryFails, NcuFails, CleanupFails, RaiseOnly

LEMMA ExitsLeaveWindow ==
    ASSUME Finish \/ StopAfterPhase \/ KeepArmed \/ Signal \/ Kill
    PROVE  mode' /= "window"
  BY DEF Finish, StopAfterPhase, KeepArmed, Signal, SignalInWindow, SignalInRecovery, SignalEnds,
         Kill, Exit, Undo

LEMMA ResumeIsQuiet ==
    ASSUME NEW first \in PhaseStarts(Script(runner)), Resume(first)
    PROVE  QuietInv'
<1> SUFFICES ASSUME runner = "qualify"
             PROVE  (pc \in Nat \ {0} /\ (pc <= Len(QualifyScript) => QuietAt(pc)))'
  BY DEF QuietInv, Qualifying, Resume, Launch
<1>1. Script(runner) = QualifyScript
  BY DEF Script
<1>2. /\ pc' = first /\ UNCHANGED <<timers, service, job>>
      /\ ArmPhase(QualifyScript[first].phase) => timers = {} /\ ~service /\ ~job
  BY <1>1 DEF Resume, Launch, outside, Quiescent
<1>3. /\ first \in 1..Len(QualifyScript)
      /\ first = 1 \/ QualifyScript[first - 1].phase /= QualifyScript[first].phase
  BY <1>1 DEF PhaseStarts
<1>4. QualifyScript[first].op \notin {"services", "jobs"}
  BY <1>3, QualifyShape, LenIsNat DEF Shaped
<1> QED
  BY <1>2, <1>3, <1>4, LenIsNat DEF QuietAt

LEMMA BeginIsQuiet ==
    ASSUME Begin
    PROVE  QuietInv'
<1>1. pc' = 1
  BY DEF Begin, Launch
<1>2. ASSUME 1 <= Len(QualifyScript)
      PROVE  QualifyScript[1].op \notin {"services", "jobs"} /\ ~ArmPhase(QualifyScript[1].phase)
  <2>1. 1 \in 1..Len(QualifyScript) /\ ~(1 > 1)
    BY <1>2, LenIsNat
  <2> QED
    BY <2>1, QualifyShape DEF Shaped
<1> QED
  BY <1>1, <1>2 DEF QuietInv, QuietAt

(* The timers, and the wait for quiet.                                     *)
LEMMA TimersKeepQuiet ==
    ASSUME QuietInv, Systemctl \/ SystemctlFails
    PROVE  QuietInv'
<1>1. CASE SystemctlFails /\ runner /= "qualify"
  BY <1>1 DEF SystemctlFails, RaiseOnly, Raise, control, QuietInv, Qualifying
<1>2. CASE ~(SystemctlFails /\ runner /= "qualify")
  <2>1. /\ mode \in {"window", "recover", "atexit"} /\ ~AtEnd
        /\ Steps[pc].op \in {"stop", "start"}
        /\ pc' = pc + 1 /\ UNCHANGED <<mode, runner, service, job>>
    BY <1>2 DEF Systemctl, SystemctlFails, Now, Advance, Goto, control, outside
  <2> SUFFICES ASSUME Qualifying
               PROVE  (pc \in Nat \ {0} /\ (pc <= Len(QualifyScript) => QuietAt(pc)))'
    BY <2>1 DEF QuietInv, Qualifying
  <2>2. /\ Steps = QualifyScript /\ pc \in Nat \ {0} /\ pc <= Len(QualifyScript)
    BY <2>1, StepsOfWindow, LenIsNat DEF QuietInv, AtEnd
  <2> DEFINE k == pc + 1
  <2>3. ASSUME k <= Len(QualifyScript)
        PROVE  /\ QualifyScript[k].op \notin {"services", "jobs"}
               /\ ~ArmPhase(QualifyScript[k].phase)
    <3>1. k \in 1..Len(QualifyScript) /\ k - 1 = pc /\ pc \in 1..Len(QualifyScript)
      BY <2>2, <2>3, LenIsNat
    <3> HIDE DEF k
    <3> QED
      BY <2>1, <2>2, <3>1, QualifyShape DEF Shaped
  <2> QED
    BY <2>1, <2>2, <2>3 DEF QuietAt
<1> QED
  BY <1>1, <1>2

LEMMA WaitKeepsQuiet ==
    ASSUME QuietInv, ProveTimers \/ ReadServices \/ ReadJobs
    PROVE  QuietInv'
<1>1. /\ mode \in {"window", "recover", "atexit"} /\ ~AtEnd
      /\ UNCHANGED <<mode, runner, timers, service, job>>
  BY DEF ProveTimers, ReadServices, ReadJobs, Now, Advance, Goto, control, outside
<1> SUFFICES ASSUME Qualifying
             PROVE  (pc \in Nat \ {0} /\ (pc <= Len(QualifyScript) => QuietAt(pc)))'
  BY <1>1 DEF QuietInv, Qualifying
<1>2. /\ Steps = QualifyScript /\ pc \in 1..Len(QualifyScript) /\ QuietAt(pc)
  BY <1>1, StepsOfWindow, LenIsNat DEF QuietInv, AtEnd
<1> DEFINE k == pc + 1
<1>3. ASSUME k <= Len(QualifyScript)
      PROVE  /\ QualifyScript[k].op = "services" => QualifyScript[pc].op = "prove_stopped"
             /\ QualifyScript[k].op = "jobs" => QualifyScript[pc].op = "services"
             /\ ArmPhase(QualifyScript[k].phase) =>
                  QualifyScript[pc].op = "jobs" \/ ArmPhase(QualifyScript[pc].phase)
             /\ ArmPhase(QualifyScript[k].phase) => QualifyScript[k].op \notin {"services", "jobs"}
  <2>1. k \in 1..Len(QualifyScript) /\ k - 1 = pc
    BY <1>2, <1>3, LenIsNat
  <2> HIDE DEF k
  <2> QED
    BY <2>1, QualifyShape DEF Shaped
<1>4. CASE ProveTimers
  <2>1. /\ pc' = pc + 1 /\ UNCHANGED quiet
        /\ QualifyScript[pc].op \in {"prove_stopped", "prove_started"}
        /\ QualifyScript[pc].op = "prove_stopped" => timers = {}
    BY <1>2, <1>4 DEF ProveTimers, Now, Advance, Goto
  <2> QED
    BY <1>1, <1>2, <1>3, <2>1 DEF QuietAt
<1>5. CASE ReadServices
  <2>1. pc' = pc + 1 /\ QualifyScript[pc].op = "services"
    BY <1>2, <1>5 DEF ReadServices, Now, Advance, Goto
  <2>3. quiet' => ~service
    BY <1>5, Zenon DEF ReadServices
  <2>4. timers = {}
    BY <1>2, <2>1 DEF QuietAt
  <2>2. ~ArmPhase(QualifyScript[pc].phase)
    BY <1>2, <2>1, QualifyShape DEF Shaped, ArmPhase
  <2> QED
    BY <1>1, <1>2, <1>3, <2>1, <2>2, <2>3, <2>4 DEF QuietAt
<1>6. CASE ReadJobs
  <2>1. QualifyScript[pc].op = "jobs" /\ UNCHANGED quiet
    BY <1>2, <1>6 DEF ReadJobs, Now
  <2>2. timers = {} /\ (quiet => ~service)
    BY <1>2, <2>1 DEF QuietAt
  <2>3. CASE quiet /\ ~job /\ Advance
    <3>1. pc' = pc + 1
      BY <2>3 DEF Advance, Goto
    <3> QED
      BY <1>1, <1>2, <1>3, <2>1, <2>2, <2>3, <3>1 DEF QuietAt
  <2>4. CASE Goto(pc - 1)
    <3>1. pc' = pc - 1
      BY <2>4 DEF Goto
    <3>2. pc > 1 /\ QualifyScript[pc - 1].op = "services" /\ QualifyScript[pc - 1].phase = "disarm"
      BY <1>2, <2>1, QualifyShape DEF Shaped
    <3> QED
      BY <1>1, <1>2, <2>2, <3>1, <3>2 DEF QuietAt, ArmPhase
  <2> QED
    BY <1>6, <2>3, <2>4 DEF ReadJobs
<1> QED
  BY <1>4, <1>5, <1>6

(* The watchdog's timer is stopped where it matters, and what was seen     *)
(* inactive stays so.                                                      *)
LEMMA WorldKeepsQuiet ==
    ASSUME QuietInv, World
    PROVE  QuietInv'
<1>1. CASE TimerFires
  BY <1>1 DEF TimerFires, process, QuietInv, QuietAt, Qualifying
<1>2. CASE ServiceEnds
  BY <1>2 DEF ServiceEnds, process, QuietInv, QuietAt, Qualifying
<1>3. CASE JobRuns
  BY <1>3 DEF JobRuns, process, QuietInv, QuietAt, Qualifying
<1>4. CASE Crash
  BY <1>4 DEF Crash, process, QuietInv, QuietAt, Qualifying
<1>5. CASE ContainerExits
  BY <1>5 DEF ContainerExits, process, QuietInv, QuietAt, Qualifying
<1> QED
  BY <1>1, <1>2, <1>3, <1>4, <1>5 DEF World

LEMMA StepKeepsQuiet == QuietInv /\ [Next]_vars => QuietInv'
<1> SUFFICES ASSUME QuietInv, [Next]_vars PROVE QuietInv'
  OBVIOUS
<1>1. ASSUME mode' /= "window" PROVE QuietInv'
  BY <1>1 DEF QuietInv, Qualifying
<1>2. ASSUME NEW first \in PhaseStarts(Script(runner)), Resume(first) PROVE QuietInv'
  BY <1>2, ResumeIsQuiet
<1>7. CASE Begin
  BY <1>7, BeginIsQuiet
<1>3. CASE Operation
  <2>1. CASE LeaveAsItIs
    <3>1. /\ UNCHANGED <<mode, runner, timers, service, job, quiet>>
          /\ pc' = Len(Steps) + 1
      BY <2>1 DEF LeaveAsItIs, Goto, control, outside
    <3>2. ASSUME Qualifying PROVE pc' = Len(QualifyScript) + 1
      BY <3>1, <3>2, StepsOfWindow
    <3> QED
      BY <3>1, <3>2, LenIsNat DEF QuietInv, Qualifying
  <2> QED
    BY <1>1, <1>3, <2>1, PlainOperationsMoveOn, MovesOnKeepsQuiet, FailuresLeaveWindow,
       RaiseLeavesWindow, ExitsLeaveWindow, TimersKeepQuiet, WaitKeepsQuiet DEF Operation
<1>4. CASE Signal \/ Kill
  BY <1>1, <1>4, ExitsLeaveWindow
<1>5. CASE World
  BY <1>5, WorldKeepsQuiet
<1>6. CASE UNCHANGED vars
  BY <1>6 DEF vars, QuietInv, QuietAt, Qualifying
<1> QED
  BY <1>2, <1>3, <1>4, <1>5, <1>6, <1>7 DEF Next

(* While the qualification window boots and measures an arm, whatever arms *)
(* it has, no watchdog run is in flight, none can start and no restart of  *)
(* the pair is queued.                                                     *)
THEOREM ArmsStayUndisturbed == Spec => []ArmsAreUndisturbed
<1>1. Init => QuietInv
  BY DEF Init, QuietInv, Qualifying
<1>2. QuietInv => ArmsAreUndisturbed
  <2> SUFFICES ASSUME QuietInv, Qualifying, ~AtEnd, ArmPhase(Steps[pc].phase)
               PROVE  timers = {} /\ Quiescent
    BY DEF ArmsAreUndisturbed, Qualifying
  <2> QED
    BY StepsOfWindow, LenIsNat DEF QuietInv, QuietAt, AtEnd, Quiescent
<1> QED
  BY <1>1, <1>2, StepKeepsQuiet, PTL DEF Spec

-----------------------------------------------------------------------------
(* The occupancy window: a profiling container is run only after its name  *)
(* was saved, and production is started only after its removal.            *)
GuardedAt(s, k) ==
    /\ s[k].op \notin {"boot", "jobs"}
    /\ s[k].op = "ncu" =>
         k > 1 /\ s[k - 1].op = "register" /\ s[k - 1].phase = s[k].phase
    /\ s[k].op = "boot_if_down" =>
         k > 1 /\ s[k - 1].op = "cleanup" /\ s[k - 1].phase = s[k].phase
Guarded(s) == \A k \in 1..Len(s) : GuardedAt(s, k)

LEMMA GuardedJoin ==
    ASSUME NEW s \in Seq(StepSet), NEW t \in Seq(StepSet), Guarded(s), Guarded(t)
    PROVE  s \o t \in Seq(StepSet) /\ Guarded(s \o t)
<1> DEFINE u == s \o t
<1>1. /\ u \in Seq(StepSet) /\ Len(u) = Len(s) + Len(t)
      /\ Len(s) \in Nat /\ Len(t) \in Nat
  BY ConcatProperties
<1>2. \A k \in 1..Len(u) : u[k] = IF k <= Len(s) THEN s[k] ELSE t[k - Len(s)]
  BY <1>1, ConcatProperties
<1> HIDE DEF u
<1>3. ASSUME NEW k \in 1..Len(u), k <= Len(s)
      PROVE  /\ k \in 1..Len(s) /\ u[k] = s[k]
             /\ k > 1 => u[k - 1] = s[k - 1]
  BY <1>1, <1>2, <1>3
<1>4. ASSUME NEW k \in 1..Len(u), k > Len(s)
      PROVE  /\ k - Len(s) \in 1..Len(t) /\ u[k] = t[k - Len(s)]
             /\ k - Len(s) > 1 => k > 1 /\ u[k - 1] = t[(k - Len(s)) - 1]
  <2>1. k - Len(s) \in 1..Len(t) /\ ~(k <= Len(s))
    BY <1>1, <1>4
  <2>2. u[k] = t[k - Len(s)]
    BY <1>2, <2>1
  <2>3. ASSUME k - Len(s) > 1
        PROVE  /\ k > 1 /\ k - 1 \in 1..Len(u) /\ ~(k - 1 <= Len(s))
               /\ (k - 1) - Len(s) = (k - Len(s)) - 1
    BY <1>1, <1>4, <2>3
  <2> QED
    BY <1>2, <2>1, <2>2, <2>3
<1>5. ASSUME NEW k \in 1..Len(u) PROVE k <= Len(s) \/ k > Len(s)
  BY <1>1
<1>6. ASSUME NEW k \in 1..Len(u)
      PROVE  GuardedAt(u, k)
  <2>1. CASE k <= Len(s)
    <3>1. GuardedAt(s, k)
      BY <1>3, <2>1 DEF Guarded
    <3> QED
      BY <1>3, <2>1, <3>1 DEF GuardedAt
  <2>2. CASE k > Len(s)
    <3> DEFINE j == k - Len(s)
    <3>1. j \in 1..Len(t) /\ u[k] = t[j] /\ (j > 1 => k > 1 /\ u[k - 1] = t[j - 1])
      BY <1>4, <2>2
    <3> HIDE DEF j
    <3>2. GuardedAt(t, j)
      BY <3>1 DEF Guarded
    <3> QED
      BY <3>1, <3>2 DEF GuardedAt
  <2> QED
    BY <1>5, <2>1, <2>2
<1> QED
  BY <1>1, <1>6 DEF u, Guarded

LEMMA GuardedBlocks ==
    /\ PreflightSteps \in Seq(StepSet) /\ Guarded(PreflightSteps)
    /\ Proving \in Seq(StepSet) /\ Guarded(Proving)
    /\ StopSteps \in Seq(StepSet) /\ Guarded(StopSteps)
    /\ CaptureSteps \in Seq(StepSet) /\ Guarded(CaptureSteps)
    /\ JudgeSteps \in Seq(StepSet) /\ Guarded(JudgeSteps)
    /\ StartSteps \in Seq(StepSet) /\ Guarded(StartSteps)
    /\ GatesSteps \in Seq(StepSet) /\ Guarded(GatesSteps)
    /\ RearmSteps \in Seq(StepSet) /\ Guarded(RearmSteps)
<1>1. PreflightSteps \in Seq(StepSet) /\ Guarded(PreflightSteps)
  <2>1. PreflightSteps \in Seq(StepSet)
    BY DEF PreflightSteps, Do, StepSet, Phases, Ops, Args
  <2>2. Len(PreflightSteps) = 2
    BY DEF PreflightSteps
  <2>3. PreflightSteps[1].op = "backup" /\ PreflightSteps[2].op = "check"
    BY DEF PreflightSteps, Do
  <2>4. PreflightSteps[1].phase = "preflight" /\ PreflightSteps[2].phase = "preflight"
    BY DEF PreflightSteps, Do
  <2>5. \A k \in 1..2 : k = 1 \/ k = 2
    OBVIOUS
  <2> QED
    BY <2>1, <2>2, <2>3, <2>4, <2>5 DEF Guarded, GuardedAt
<1>2. Proving \in Seq(StepSet) /\ Guarded(Proving)
  <2>1. Proving \in Seq(StepSet)
    BY DEF Proving, Do, StepSet, Phases, Ops, Args
  <2>2. Len(Proving) = 4
    BY DEF Proving
  <2>3. /\ Proving[1].op = "intend_disarm"
        /\ Proving[2].op = "stop"
        /\ Proving[3].op = "stop"
        /\ Proving[4].op = "prove_stopped"
    BY DEF Proving, Do
  <2>4. /\ Proving[1].phase = "disarm"
        /\ Proving[2].phase = "disarm"
        /\ Proving[3].phase = "disarm"
        /\ Proving[4].phase = "disarm"
    BY DEF Proving, Do
  <2>5. \A k \in 1..4 : k = 1 \/ k = 2 \/ k = 3 \/ k = 4
    OBVIOUS
  <2> QED
    BY <2>1, <2>2, <2>3, <2>4, <2>5 DEF Guarded, GuardedAt
<1>3. StopSteps \in Seq(StepSet) /\ Guarded(StopSteps)
  <2>1. StopSteps \in Seq(StepSet)
    BY DEF StopSteps, Do, StepSet, Phases, Ops, Args
  <2>2. Len(StopSteps) = 1
    BY DEF StopSteps
  <2>3. StopSteps[1].op = "take_down"
    BY DEF StopSteps, Do
  <2>4. StopSteps[1].phase = "stop"
    BY DEF StopSteps, Do
  <2>5. \A k \in 1..1 : k = 1
    OBVIOUS
  <2> QED
    BY <2>1, <2>2, <2>3, <2>4, <2>5 DEF Guarded, GuardedAt
<1>4. CaptureSteps \in Seq(StepSet) /\ Guarded(CaptureSteps)
  <2>1. CaptureSteps \in Seq(StepSet)
    BY DEF CaptureSteps, Do, StepSet, Phases, Ops, Args
  <2>2. Len(CaptureSteps) = 4
    BY DEF CaptureSteps
  <2>3. /\ CaptureSteps[1].op = "memory"
        /\ CaptureSteps[2].op = "register"
        /\ CaptureSteps[3].op = "ncu"
        /\ CaptureSteps[4].op = "ncu_end"
    BY DEF CaptureSteps, Do
  <2>4. /\ CaptureSteps[1].phase = "capture"
        /\ CaptureSteps[2].phase = "capture"
        /\ CaptureSteps[3].phase = "capture"
        /\ CaptureSteps[4].phase = "capture"
    BY DEF CaptureSteps, Do
  <2>5. \A k \in 1..4 : k = 1 \/ k = 2 \/ k = 3 \/ k = 4
    OBVIOUS
  <2> QED
    BY <2>1, <2>2, <2>3, <2>4, <2>5 DEF Guarded, GuardedAt
<1>5. JudgeSteps \in Seq(StepSet) /\ Guarded(JudgeSteps)
  <2>1. JudgeSteps \in Seq(StepSet)
    BY DEF JudgeSteps, Do, StepSet, Phases, Ops, Args
  <2>2. Len(JudgeSteps) = 1
    BY DEF JudgeSteps
  <2>3. JudgeSteps[1].op = "judge"
    BY DEF JudgeSteps, Do
  <2>4. JudgeSteps[1].phase = "judge"
    BY DEF JudgeSteps, Do
  <2>5. \A k \in 1..1 : k = 1
    OBVIOUS
  <2> QED
    BY <2>1, <2>2, <2>3, <2>4, <2>5 DEF Guarded, GuardedAt
<1>6. StartSteps \in Seq(StepSet) /\ Guarded(StartSteps)
  <2>1. StartSteps \in Seq(StepSet)
    BY DEF StartSteps, Do, StepSet, Phases, Ops, Args
  <2>2. Len(StartSteps) = 2
    BY DEF StartSteps
  <2>3. StartSteps[1].op = "cleanup" /\ StartSteps[2].op = "boot_if_down"
    BY DEF StartSteps, Do
  <2>4. StartSteps[1].phase = "start" /\ StartSteps[2].phase = "start"
    BY DEF StartSteps, Do
  <2>5. \A k \in 1..2 : k = 1 \/ k = 2
    OBVIOUS
  <2> QED
    BY <2>1, <2>2, <2>3, <2>4, <2>5 DEF Guarded, GuardedAt
<1>7. GatesSteps \in Seq(StepSet) /\ Guarded(GatesSteps)
  <2>1. GatesSteps \in Seq(StepSet)
    BY DEF GatesSteps, Do, StepSet, Phases, Ops, Args
  <2>2. Len(GatesSteps) = 1
    BY DEF GatesSteps
  <2>3. GatesSteps[1].op = "gates"
    BY DEF GatesSteps, Do
  <2>4. GatesSteps[1].phase = "gates"
    BY DEF GatesSteps, Do
  <2>5. \A k \in 1..1 : k = 1
    OBVIOUS
  <2> QED
    BY <2>1, <2>2, <2>3, <2>4, <2>5 DEF Guarded, GuardedAt
<1>8. RearmSteps \in Seq(StepSet) /\ Guarded(RearmSteps)
  <2>1. RearmSteps \in Seq(StepSet)
    BY DEF RearmSteps, Do, StepSet, Phases, Ops, Args
  <2>2. Len(RearmSteps) = 3
    BY DEF RearmSteps
  <2>3. /\ RearmSteps[1].op = "start"
        /\ RearmSteps[2].op = "start"
        /\ RearmSteps[3].op = "prove_started"
    BY DEF RearmSteps, Do
  <2>4. /\ RearmSteps[1].phase = "rearm"
        /\ RearmSteps[2].phase = "rearm"
        /\ RearmSteps[3].phase = "rearm"
    BY DEF RearmSteps, Do
  <2>5. \A k \in 1..3 : k = 1 \/ k = 2 \/ k = 3
    OBVIOUS
  <2> QED
    BY <2>1, <2>2, <2>3, <2>4, <2>5 DEF Guarded, GuardedAt
<1> QED
  BY <1>1, <1>2, <1>3, <1>4, <1>5, <1>6, <1>7, <1>8

LEMMA OccupancyShape == OccupancyScript \in Seq(StepSet) /\ Guarded(OccupancyScript)
<1> DEFINE d == DisarmSteps(FALSE)
<1>1. d \in Seq(StepSet) /\ Guarded(d)
  <2>1. d = Proving \o <<>>
    BY DEF DisarmSteps, Proving
  <2>2. Proving \o <<>> = Proving
    BY GuardedBlocks, ConcatEmptySeq
  <2> QED
    BY <2>1, <2>2, GuardedBlocks
<1> DEFINE u1 == PreflightSteps \o d
           u2 == u1 \o StopSteps
           u3 == u2 \o CaptureSteps
           u4 == u3 \o JudgeSteps
           u5 == u4 \o StartSteps
           u6 == u5 \o GatesSteps
           u7 == u6 \o RearmSteps
<1>8. u7 = OccupancyScript
  BY DEF OccupancyScript
<1> HIDE DEF d
<1>a. u1 \in Seq(StepSet) /\ Guarded(u1)
  BY <1>1, GuardedBlocks, GuardedJoin
<1> HIDE DEF u1
<1>b. u2 \in Seq(StepSet) /\ Guarded(u2)
  BY <1>a, GuardedBlocks, GuardedJoin
<1> HIDE DEF u2
<1>c. u3 \in Seq(StepSet) /\ Guarded(u3)
  BY <1>b, GuardedBlocks, GuardedJoin
<1> HIDE DEF u3
<1>d. u4 \in Seq(StepSet) /\ Guarded(u4)
  BY <1>c, GuardedBlocks, GuardedJoin
<1> HIDE DEF u4
<1>e. u5 \in Seq(StepSet) /\ Guarded(u5)
  BY <1>d, GuardedBlocks, GuardedJoin
<1> HIDE DEF u5
<1>f. u6 \in Seq(StepSet) /\ Guarded(u6)
  BY <1>e, GuardedBlocks, GuardedJoin
<1> HIDE DEF u6
<1>g. u7 \in Seq(StepSet) /\ Guarded(u7)
  BY <1>f, GuardedBlocks, GuardedJoin
<1> QED
  BY <1>8, <1>g

Recovery == StartSteps \o RearmSteps

LEMMA RecoveryShape ==
    /\ RecoverScript("occupancy") = Recovery
    /\ Recovery \in Seq(StepSet) /\ Guarded(Recovery) /\ Len(Recovery) = 5
    /\ FirstTimerStep("occupancy") = 3
    /\ Recovery[1].op = "cleanup" /\ Recovery[3].op = "start"
<1>1. RecoverScript("occupancy") = Recovery
  BY DEF RecoverScript, Recovery
<1>2. Recovery \in Seq(StepSet) /\ Guarded(Recovery)
  BY GuardedBlocks, GuardedJoin DEF Recovery
<1>3. StartSteps \in Seq(StepSet) /\ RearmSteps \in Seq(StepSet)
  BY GuardedBlocks
<1>4. Len(StartSteps) = 2 /\ Len(RearmSteps) = 3
  BY DEF StartSteps, RearmSteps
<1>5. StartSteps[1].op = "cleanup" /\ RearmSteps[1].op = "start"
  BY DEF StartSteps, RearmSteps, Do
<1>6. /\ Len(Recovery) = Len(StartSteps) + Len(RearmSteps)
      /\ \A i \in 1..(Len(StartSteps) + Len(RearmSteps)) :
           Recovery[i] = IF i <= Len(StartSteps) THEN StartSteps[i] ELSE RearmSteps[i - Len(StartSteps)]
  BY <1>3, Joined DEF Recovery
<1>7. /\ Len(Recovery) = 2 + 3
      /\ \A i \in 1..(2 + 3) : Recovery[i] = IF i <= 2 THEN StartSteps[i] ELSE RearmSteps[i - 2]
  BY <1>4, <1>6
<1>8. Len(Recovery) = 5 /\ Recovery[1] = StartSteps[1] /\ Recovery[3] = RearmSteps[1]
  BY <1>7
<1>9. FirstTimerStep("occupancy") = 3
  BY <1>1, <1>4, <1>8 DEF FirstTimerStep
<1> QED
  BY <1>1, <1>2, <1>5, <1>8, <1>9

Active == {"window", "recover", "atexit"}
Named == "container" \in DOMAIN receipt
SafeAt(k) ==
    /\ Steps[k].op = "ncu" => receipt.container = TRUE
    /\ Steps[k].op = "boot_if_down" => ~profiler

(* The container is on file before it runs, and gone before a start.       *)
ProfilerInv ==
    /\ Named
    /\ runner = "occupancy" =>
         /\ profiler => receipt.container = TRUE
         /\ mode \in Active => pc \in Nat \ {0} /\ (pc <= Len(Steps) => SafeAt(pc))

LEMMA StepsAreGuarded ==
    ASSUME runner = "occupancy", mode \in Active
    PROVE  Guarded(Steps) /\ Len(Steps) \in Nat
<1>1. CASE mode = "window"
  BY <1>1, OccupancyShape DEF Steps, Script
<1>2. CASE mode # "window"
  BY <1>2, RecoveryShape DEF Steps
<1> QED
  BY <1>1, <1>2

(* Moving on from a step that neither names nor removes the container.     *)
LEMMA MovingOnIsSafe ==
    ASSUME ProfilerInv, runner = "occupancy", mode \in Active, ~AtEnd,
           Steps[pc].op \notin {"register", "cleanup"},
           pc' = pc + 1, UNCHANGED <<runner, mode>>,
           Named', receipt'.container = receipt.container,
           profiler' => receipt.container = TRUE
    PROVE  ProfilerInv'
<1>1. Guarded(Steps) /\ Len(Steps) \in Nat /\ pc \in Nat \ {0}
  BY StepsAreGuarded DEF ProfilerInv
<1>2. Steps' = Steps
  BY DEF Steps
<1> DEFINE k == pc + 1
<1>3. ASSUME k <= Len(Steps) PROVE Steps[k].op \notin {"ncu", "boot_if_down"}
  <2>1. k \in 1..Len(Steps) /\ k - 1 = pc
    BY <1>1, <1>3
  <2> HIDE DEF k
  <2> QED
    BY <1>1, <2>1 DEF Guarded, GuardedAt
<1> QED
  BY <1>1, <1>2, <1>3 DEF ProfilerInv, SafeAt

(* Going to a step that is neither the profiler's nor a start.             *)
LEMMA JumpIsSafe ==
    ASSUME ProfilerInv, Named', receipt'.container = receipt.container, UNCHANGED runner,
           profiler' => profiler,
           runner = "occupancy" /\ mode' \in Active =>
             /\ pc' \in Nat \ {0}
             /\ pc' <= Len(Steps') => Steps'[pc'].op \notin {"ncu", "boot_if_down"}
    PROVE  ProfilerInv'
  BY DEF ProfilerInv, SafeAt

Plain ==
    \/ Backup \/ Check \/ IntendDisarm \/ Systemctl \/ ProveTimers \/ ReadServices
    \/ IntendArm \/ SetEnv \/ GuardedStart \/ VerifyArm \/ VerifyBoot \/ Lanes
    \/ CopyBackup \/ VerifyRestore \/ Gates \/ TakeDown \/ WaitMemory \/ AlreadyUp
Failing ==
    \/ CheckFails \/ TimersUnproved \/ QuiescenceTimesOut \/ GuardedStartFails
    \/ VerifyArmFails \/ VerifyBootFails \/ LanesFail \/ VerifyRestoreFails \/ CopyBackupFails \/ GatesFail
    \/ TakeDownFails \/ WaitMemoryFails \/ NcuFails \/ CleanupFails
Leaving == Finish \/ StopAfterPhase \/ KeepArmed \/ Signal \/ Kill

SavesNothingElse == Named' /\ receipt'.container = receipt.container

LEMMA BootedSaves ==
    ASSUME Named, NEW c, Booted(c)
    PROVE  SavesNothingElse
  BY DEF Booted, Named, SavesNothingElse

LEMMA PlainSaves ==
    ASSUME Named, Plain
    PROVE  SavesNothingElse
<1>1. CASE UNCHANGED receipt
  BY <1>1 DEF Named, SavesNothingElse
<1>2. CASE Backup \/ IntendDisarm \/ IntendArm
  BY <1>2 DEF Backup, IntendDisarm, IntendArm, Named, SavesNothingElse
<1>3. CASE VerifyArm \/ VerifyRestore
  BY <1>3 DEF VerifyArm, VerifyRestore, Named, SavesNothingElse
<1>4. CASE GuardedStart
  BY <1>4, BootedSaves DEF GuardedStart
<1>5. CASE Check \/ Systemctl \/ ProveTimers \/ ReadServices \/ SetEnv
  BY <1>1, <1>5 DEF Check, Systemctl, ProveTimers, ReadServices, SetEnv
<1>6. CASE VerifyBoot \/ Lanes \/ CopyBackup \/ Gates \/ TakeDown \/ WaitMemory \/ AlreadyUp
  BY <1>1, <1>6 DEF VerifyBoot, Lanes, CopyBackup, Gates, TakeDown, WaitMemory, AlreadyUp
<1> QED
  BY <1>2, <1>3, <1>4, <1>5, <1>6 DEF Plain

LEMMA PlainMoves ==
    ASSUME Plain
    PROVE  /\ mode \in Active /\ ~AtEnd /\ Steps[pc].op \notin {"register", "cleanup"}
           /\ pc' = pc + 1 /\ UNCHANGED <<runner, mode, profiler>>
<1> DEFINE Moves == /\ mode \in Active /\ ~AtEnd /\ Steps[pc].op \notin {"register", "cleanup"}
                    /\ pc' = pc + 1 /\ UNCHANGED <<runner, mode, profiler>>
<1>1. ASSUME Backup \/ Check \/ IntendDisarm \/ Systemctl PROVE Moves
  BY <1>1 DEF Backup, Check, IntendDisarm, Systemctl, Now, Advance, Goto, control, outside, Active
<1>2. ASSUME ProveTimers \/ ReadServices \/ IntendArm \/ SetEnv PROVE Moves
  BY <1>2 DEF ProveTimers, ReadServices, IntendArm, SetEnv, Now, Advance, Goto, control, outside,
              Active
<1>3. ASSUME GuardedStart \/ AlreadyUp PROVE Moves
  BY <1>3 DEF GuardedStart, AlreadyUp, Restarts, Now, Advance, Goto, control, outside, Active
<1>4. ASSUME VerifyArm \/ VerifyBoot \/ Lanes \/ CopyBackup PROVE Moves
  BY <1>4 DEF VerifyArm, VerifyBoot, Lanes, CopyBackup, Now, Advance, Goto, control, outside, Active
<1>5. ASSUME VerifyRestore \/ Gates \/ TakeDown \/ WaitMemory PROVE Moves
  BY <1>5 DEF VerifyRestore, Gates, TakeDown, WaitMemory, Now, Advance, Goto, control, outside,
              Active
<1> QED
  BY <1>1, <1>2, <1>3, <1>4, <1>5 DEF Plain

LEMMA FailingSaves ==
    ASSUME Named, Failing
    PROVE  /\ SavesNothingElse /\ Raise /\ mode \in Active /\ (profiler' => profiler)
<1>1. Raise
  BY FailuresLeaveWindow DEF Failing
<1>2. CASE GuardedStartFails
  BY <1>1, <1>2, BootedSaves DEF GuardedStartFails, Restarts, Now, Active
<1>3. CASE NcuFails
  <2>1. profiler' => profiler
    BY <1>3, Zenon DEF NcuFails
  <2> QED
    BY <1>1, <1>3, <2>1 DEF NcuFails, Now, Active, Named, SavesNothingElse
<1>4. ASSUME \/ CheckFails \/ TimersUnproved \/ QuiescenceTimesOut \/ VerifyArmFails
             \/ VerifyBootFails \/ LanesFail \/ VerifyRestoreFails \/ CopyBackupFails \/ GatesFail
             \/ TakeDownFails \/ WaitMemoryFails \/ CleanupFails
      PROVE  mode \in Active /\ RaiseOnly
  BY <1>4 DEF CheckFails, TimersUnproved, QuiescenceTimesOut, VerifyArmFails, VerifyBootFails,
              LanesFail, VerifyRestoreFails, CopyBackupFails, GatesFail, TakeDownFails, WaitMemoryFails,
              CleanupFails, Now, Active
<1>5. ASSUME RaiseOnly PROVE UNCHANGED <<receipt, profiler>>
  BY <1>5 DEF RaiseOnly, outside
<1> QED
  BY <1>1, <1>2, <1>3, <1>4, <1>5 DEF Failing, Named, SavesNothingElse

(* A recovery begins with the removal; it goes on with the timers.         *)
LEMMA UndoIsSafe ==
    ASSUME runner = "occupancy", runner' = runner, NEW m \in {"recover", "atexit"}, Undo(m)
    PROVE  /\ pc' \in Nat \ {0}
           /\ pc' <= Len(Steps') => Steps'[pc'].op \notin {"ncu", "boot_if_down"}
<1>1. pc' = 1 /\ mode' = m
  BY DEF Undo, UndoStart, NeedsRestore
<1>2. Steps' = Recovery
  BY <1>1, RecoveryShape DEF Steps
<1> QED
  BY <1>1, <1>2, RecoveryShape

LEMMA RaiseIsSafe ==
    ASSUME runner = "occupancy", mode \in Active, Raise
    PROVE  /\ runner' = runner /\ pc' \in Nat \ {0}
           /\ pc' <= Len(Steps') => Steps'[pc'].op \notin {"ncu", "boot_if_down"}
<1>1. runner' = runner
  BY DEF Raise, control
<1>2. CASE mode = "window"
  BY <1>1, <1>2, UndoIsSafe DEF Raise
<1>3. CASE mode # "window"
  <2>4. FirstTimerStep(runner) = 3 /\ RecoverScript(runner) = Recovery
    BY RecoveryShape, Zenon
  <2>5. Len(RecoverScript(runner)) = 5
    BY <2>4, RecoveryShape, Zenon
  <2>6. 5 + 1 = 6
    OBVIOUS
  <2>0. Len(RecoverScript(runner)) + 1 = 6
    BY <2>5, <2>6, Zenon
  <2>3. pc' \in {FirstTimerStep(runner), Len(RecoverScript(runner)) + 1} /\ mode' = mode
    BY <1>3, Zenon DEF Raise
  <2>1. pc' \in {3, 6} /\ mode' = mode
    BY <2>0, <2>3, <2>4, Zenon
  <2>2. Steps' = Recovery
    BY <1>1, <1>3, <2>1, RecoveryShape DEF Steps
  <2> QED
    BY <1>1, <2>1, <2>2, RecoveryShape
<1> QED
  BY <1>2, <1>3, <1>1

LEMMA LeavingIsSafe ==
    ASSUME ProfilerInv, Leaving
    PROVE  ProfilerInv'
<1>1. UNCHANGED <<runner, receipt, profiler>>
  BY DEF Leaving, Finish, StopAfterPhase, KeepArmed, Signal, SignalInWindow, SignalInRecovery,
         SignalEnds, Kill, Exit, control, outside
<1>2. SavesNothingElse
  BY <1>1 DEF ProfilerInv, Named, SavesNothingElse
<1>3. ASSUME runner = "occupancy", mode' \in Active
      PROVE  SignalInWindow
  BY <1>3 DEF Leaving, Finish, StopAfterPhase, KeepArmed, Signal, SignalInRecovery, SignalEnds,
              Kill, Exit, Active
<1>4. ASSUME runner = "occupancy", SignalInWindow
      PROVE  /\ pc' \in Nat \ {0}
             /\ pc' <= Len(Steps') => Steps'[pc'].op \notin {"ncu", "boot_if_down"}
  <2>1. Undo("recover")
    BY <1>4 DEF SignalInWindow
  <2> QED
    BY <1>1, <1>4, <2>1, UndoIsSafe
<1> QED
  BY <1>1, <1>2, <1>3, <1>4, JumpIsSafe DEF SavesNothingElse

(* A phase begins neither with the profiler nor with a start.              *)
LEMMA LaunchIsSafe ==
    ASSUME runner = "occupancy", NEW first \in PhaseStarts(Script(runner)), Launch(first)
    PROVE  /\ pc' \in Nat \ {0}
           /\ pc' <= Len(Steps') => Steps'[pc'].op \notin {"ncu", "boot_if_down"}
<1>1. pc' = first /\ mode' = "window" /\ runner' = runner
  BY DEF Launch
<1>2. Script(runner) = OccupancyScript /\ Steps' = OccupancyScript
  BY <1>1 DEF Script, Steps
<1>3. /\ first \in 1..Len(OccupancyScript)
      /\ first = 1 \/ OccupancyScript[first - 1].phase /= OccupancyScript[first].phase
  BY <1>2 DEF PhaseStarts
<1>4. GuardedAt(OccupancyScript, first)
  BY <1>3, OccupancyShape DEF Guarded
<1> QED
  BY <1>1, <1>2, <1>3, <1>4, OccupancyShape DEF GuardedAt

LEMMA ResumeIsSafe ==
    ASSUME ProfilerInv, NEW first \in PhaseStarts(Script(runner)), Resume(first)
    PROVE  ProfilerInv'
<1>1. /\ UNCHANGED <<runner, receipt, profiler>> /\ Launch(first)
  BY DEF Resume, Launch, outside
<1>2. SavesNothingElse
  BY <1>1 DEF ProfilerInv, Named, SavesNothingElse
<1> QED
  BY <1>1, <1>2, LaunchIsSafe, JumpIsSafe DEF SavesNothingElse

(* A fresh receipt names no container, and none is its own.                *)
LEMMA BeginIsSafe ==
    ASSUME Begin
    PROVE  ProfilerInv'
<1>1. Launch(1) /\ runner' = runner /\ profiler' = FALSE
  BY DEF Begin, Launch, Rename
<1>2. Named'
  BY DEF Begin, Named, NoReceipt
<1>3. ASSUME runner = "occupancy"
      PROVE  /\ pc' \in Nat \ {0}
             /\ pc' <= Len(Steps') => Steps'[pc'].op \notin {"ncu", "boot_if_down"}
  <2>1. Script(runner) = OccupancyScript /\ Len(OccupancyScript) \in Nat
    BY <1>3, OccupancyShape DEF Script
  <2>2. CASE Len(OccupancyScript) >= 1
    <3>1. 1 \in PhaseStarts(Script(runner))
      BY <2>1, <2>2 DEF PhaseStarts
    <3> QED
      BY <1>1, <1>3, <3>1, LaunchIsSafe
  <2>3. CASE ~(Len(OccupancyScript) >= 1)
    <3>1. pc' = 1 /\ Steps' = OccupancyScript
      BY <1>1, <2>1 DEF Launch, Steps, Script
    <3> QED
      BY <2>1, <2>3, <3>1
  <2> QED
    BY <2>2, <2>3
<1> QED
  BY <1>1, <1>2, <1>3 DEF ProfilerInv, SafeAt

LEMMA WorldIsSafe ==
    ASSUME ProfilerInv, World \/ UNCHANGED vars
    PROVE  ProfilerInv'
<1>1. UNCHANGED <<runner, mode, pc>>
  BY DEF World, TimerFires, ServiceEnds, JobRuns, Crash, ContainerExits, process, vars
<1>4. profiler' => profiler
  <2>1. CASE ContainerExits
    BY <2>1, Zenon DEF ContainerExits
  <2>2. CASE ~ContainerExits
    BY <2>2 DEF World, TimerFires, ServiceEnds, JobRuns, Crash, vars
  <2> QED
    BY <2>1, <2>2
<1>2. SavesNothingElse
  <2>1. CASE UNCHANGED receipt
    BY <2>1 DEF ProfilerInv, Named, SavesNothingElse
  <2>2. CASE JobRuns
    BY <2>2, BootedSaves DEF JobRuns, ProfilerInv
  <2> QED
    BY <2>1, <2>2 DEF World, TimerFires, ServiceEnds, Crash, ContainerExits, vars
<1>3. Steps' = Steps
  BY <1>1 DEF Steps
<1> QED
  BY <1>1, <1>2, <1>3, <1>4 DEF ProfilerInv, SafeAt, SavesNothingElse

(* The operations on the container.                                        *)
LEMMA ContainerIsSafe ==
    ASSUME ProfilerInv, Register \/ RunNcu \/ NcuEnds \/ Cleanup
    PROVE  ProfilerInv'
<1>1. /\ mode \in Active /\ ~AtEnd /\ pc' = pc + 1 /\ UNCHANGED <<runner, mode>>
  BY DEF Register, RunNcu, NcuEnds, Cleanup, Now, Advance, Goto, control, Active
<1>2. Named'
  BY DEF Register, RunNcu, NcuEnds, Cleanup, ProfilerInv, Named
<1>3. CASE runner # "occupancy"
  BY <1>1, <1>2, <1>3 DEF ProfilerInv
<1>4. CASE runner = "occupancy"
  <2>1. Guarded(Steps) /\ Len(Steps) \in Nat /\ pc \in Nat \ {0} /\ SafeAt(pc)
    BY <1>1, <1>4, StepsAreGuarded DEF ProfilerInv, AtEnd
  <2>2. Steps' = Steps
    BY <1>1 DEF Steps
  <2>3. CASE RunNcu \/ NcuEnds
    <3>1. Steps[pc].op \notin {"register", "cleanup"} /\ UNCHANGED receipt
      BY <2>3 DEF RunNcu, NcuEnds, Now
    <3>2. profiler' => receipt.container = TRUE
      BY <2>1, <2>3 DEF RunNcu, NcuEnds, Now, SafeAt
    <3> QED
      BY <1>1, <1>2, <1>4, <3>1, <3>2, MovingOnIsSafe
  <2> DEFINE k == pc + 1
  <2>4. ASSUME k <= Len(Steps)
        PROVE  /\ Steps[k].op = "ncu" => Steps[pc].op = "register"
               /\ Steps[k].op = "boot_if_down" => Steps[pc].op = "cleanup"
    <3>1. k \in 1..Len(Steps) /\ k - 1 = pc
      BY <2>1, <2>4
    <3> HIDE DEF k
    <3> QED
      BY <2>1, <3>1 DEF Guarded, GuardedAt
  <2>5. CASE Register
    <3>1. Steps[pc].op = "register" /\ receipt'.container = TRUE /\ ~profiler'
      BY <2>5 DEF Register, Rename, Now, ProfilerInv, Named
    <3> QED
      BY <1>1, <1>2, <1>4, <2>1, <2>2, <2>4, <3>1 DEF ProfilerInv, SafeAt
  <2>6. CASE Cleanup
    <3>1. Steps[pc].op = "cleanup" /\ UNCHANGED receipt
      BY <2>6 DEF Cleanup, Now
    <3>2. CASE profiler
      <4>1. receipt.container = TRUE
        BY <1>4, <3>2 DEF ProfilerInv
      <4>2. ~profiler'
        BY <2>6, <4>1 DEF Cleanup
      <4> QED
        BY <1>1, <1>2, <1>4, <2>1, <2>2, <2>4, <3>1, <4>2 DEF ProfilerInv, SafeAt
    <3>3. CASE ~profiler
      <4>1. ~profiler'
        BY <2>6, <3>3, Zenon DEF Cleanup
      <4> QED
        BY <1>1, <1>2, <1>4, <2>1, <2>2, <2>4, <3>1, <4>1 DEF ProfilerInv, SafeAt
    <3> QED
      BY <3>2, <3>3
  <2> QED
    BY <2>3, <2>5, <2>6
<1> QED
  BY <1>3, <1>4

LEMMA StepIsSafe ==
    ASSUME ProfilerInv, [Next]_vars
    PROVE  ProfilerInv'
<1>1. CASE Begin \/ \E first \in PhaseStarts(Script(runner)) : Resume(first)
  BY <1>1, BeginIsSafe, ResumeIsSafe
<1>2. CASE World \/ UNCHANGED vars
  BY <1>2, WorldIsSafe
<1>3. CASE Leaving
  BY <1>3, LeavingIsSafe
<1>4. CASE Register \/ RunNcu \/ NcuEnds \/ Cleanup
  BY <1>4, ContainerIsSafe
<1>5. CASE Plain
  <2>1. SavesNothingElse
    BY <1>5, PlainSaves DEF ProfilerInv
  <2>2. CASE runner # "occupancy"
    BY <1>5, <2>1, <2>2, PlainMoves DEF ProfilerInv, SavesNothingElse
  <2>3. CASE runner = "occupancy"
    <3>1. /\ mode \in Active /\ ~AtEnd /\ Steps[pc].op \notin {"register", "cleanup"}
          /\ pc' = pc + 1 /\ UNCHANGED <<runner, mode, profiler>>
      BY <1>5, PlainMoves
    <3>2. profiler' => receipt.container = TRUE
      BY <2>3, <3>1 DEF ProfilerInv
    <3>3. Named' /\ receipt'.container = receipt.container
      BY <2>1 DEF SavesNothingElse
    <3> QED
      BY <2>3, <3>1, <3>2, <3>3, MovingOnIsSafe
  <2> QED
    BY <2>2, <2>3
<1>6. CASE Failing
  <2>1. /\ SavesNothingElse /\ Raise /\ mode \in Active /\ (profiler' => profiler)
    BY <1>6, FailingSaves DEF ProfilerInv
  <2>2. runner' = runner
    BY <2>1 DEF Raise, control
  <2> QED
    BY <2>1, <2>2, RaiseIsSafe, JumpIsSafe DEF SavesNothingElse
<1>7. CASE SystemctlFails
  <2>1. /\ UNCHANGED <<runner, receipt, profiler>> /\ mode \in Active
    BY <1>7 DEF SystemctlFails, RaiseOnly, Raise, Advance, Goto, control, outside, Now, Active
  <2>2. runner = "occupancy" => Raise
    BY <1>7 DEF SystemctlFails, RaiseOnly
  <2>3. SavesNothingElse
    BY <2>1 DEF ProfilerInv, Named, SavesNothingElse
  <2> QED
    BY <2>1, <2>2, <2>3, RaiseIsSafe, JumpIsSafe DEF SavesNothingElse
<1>8. CASE ReadJobs
  <2>1. /\ UNCHANGED <<runner, receipt, profiler>> /\ mode \in Active /\ ~AtEnd
        /\ Steps[pc].op = "jobs"
    BY <1>8 DEF ReadJobs, Advance, Goto, control, outside, Now, Active
  <2>2. runner # "occupancy"
    <3> SUFFICES ASSUME runner = "occupancy" PROVE FALSE
      OBVIOUS
    <3>1. pc \in 1..Len(Steps) /\ Guarded(Steps)
      BY <2>1, StepsAreGuarded DEF ProfilerInv, AtEnd
    <3> QED
      BY <2>1, <3>1 DEF Guarded, GuardedAt
  <2> QED
    BY <2>1, <2>2 DEF ProfilerInv, Named
<1>9. CASE LeaveAsItIs
  <2>1. /\ UNCHANGED <<runner, mode, receipt, profiler>> /\ mode \in Active
        /\ pc' = Len(Steps) + 1
    BY <1>9 DEF LeaveAsItIs, Goto, control, outside, Now, Active
  <2>2. Steps' = Steps
    BY <2>1 DEF Steps
  <2>3. SavesNothingElse
    BY <2>1 DEF ProfilerInv, Named, SavesNothingElse
  <2>4. runner = "occupancy" => pc' \in Nat \ {0} /\ ~(pc' <= Len(Steps'))
    BY <2>1, <2>2, StepsAreGuarded
  <2> QED
    BY <2>1, <2>3, <2>4, JumpIsSafe DEF SavesNothingElse
<1> QED
  BY <1>1, <1>2, <1>3, <1>4, <1>5, <1>6, <1>7, <1>8, <1>9
     DEF Next, Operation, Plain, Failing, Leaving

LEMMA InitIsSafe == Init => ProfilerInv
  BY DEF Init, ProfilerInv, Named, NoReceipt, Active

(* Whatever fails, is interrupted, killed or resumed, the occupancy runner *)
(* never starts production while its profiling container holds the GPU.    *)
THEOREM NeverStartsOverProfiler == Spec => NoStartOverProfiler
<1>1. Init => ProfilerInv
  BY InitIsSafe
<1>2. ASSUME ProfilerInv, [Next]_vars
      PROVE  [runner = "occupancy" /\ GuardedStart => ~profiler]_vars
  <2> SUFFICES ASSUME runner = "occupancy", GuardedStart PROVE ~profiler
    OBVIOUS
  <2>1. /\ mode \in Active /\ ~AtEnd /\ Steps[pc].op \in {"boot", "boot_if_down"}
    BY DEF GuardedStart, Restarts, Now, Active
  <2>3. Guarded(Steps) /\ Len(Steps) \in Nat /\ pc \in Nat \ {0}
    BY <1>2, <2>1, StepsAreGuarded DEF ProfilerInv
  <2>4. pc <= Len(Steps)
    BY <2>1, <2>3 DEF AtEnd
  <2>2. pc \in 1..Len(Steps) /\ Guarded(Steps) /\ SafeAt(pc)
    BY <1>2, <2>1, <2>3, <2>4 DEF ProfilerInv
  <2> QED
    BY <2>1, <2>2 DEF Guarded, GuardedAt, SafeAt
<1> QED
  BY <1>1, <1>2, StepIsSafe, PTL DEF Spec, NoStartOverProfiler

-----------------------------------------------------------------------------
(* What a runner leaves behind.  An operation relies on what the one       *)
(* before it in its phase has done; what it relies on is Tied, every other *)
(* operation is Loose and may be entered from anywhere.                    *)
Measures(d) == d.op = "lanes" /\ d.arg /= "prof"
BootsRestored(d) == d.op = "boot" /\ d.phase = "restore"

Loose(d) ==
    /\ d.op \notin {"set_env", "stop", "verify_restore", "jobs"}
    /\ ~Measures(d) /\ ~BootsRestored(d)
Tied(c, d) ==
    /\ c.phase = d.phase
    /\ d.op = "set_env" => c.op = "intend_arm"
    /\ d.op = "stop" => c.op \in {"intend_disarm", "stop"}
    /\ d.op = "verify_restore" => BootsRestored(c)
    /\ d.op = "jobs" => c.op = "services"
    /\ BootsRestored(d) => c.op = "copy_backup"
    /\ Measures(d) => c.op = "verify_boot" /\ c.arg = d.arg
Chained(c, d) == Loose(d) \/ Tied(c, d)

(* Which operations belong to which runner, and their arguments.           *)
Fits(r, d) ==
    /\ d.op = "set_env" => d.arg \in ArmNames
    /\ d.op = "copy_backup" => r /= "occupancy"
    /\ d.op = "take_down" => r = "occupancy"
    /\ d.op \in {"stop", "start"} => d.arg \in TIMERS
    /\ Measures(d) => r = "qualify" /\ ArmPhase(d.phase)

LinkedAt(r, s, k) == Fits(r, s[k]) /\ (Loose(s[k]) \/ (k > 1 /\ Tied(s[k - 1], s[k])))
Linked(r, s) == s \in Seq(StepSet) /\ \A k \in 1..Len(s) : LinkedAt(r, s, k)

LEMMA LinkedJoin ==
    ASSUME NEW r, NEW s, NEW t, Linked(r, s), Linked(r, t)
    PROVE  Linked(r, s \o t)
<1> DEFINE u == s \o t
<1>1. /\ s \in Seq(StepSet) /\ t \in Seq(StepSet)
      /\ \A k \in 1..Len(s) : LinkedAt(r, s, k)
      /\ \A k \in 1..Len(t) : LinkedAt(r, t, k)
  BY DEF Linked
<1>2. /\ u \in Seq(StepSet) /\ Len(u) = Len(s) + Len(t)
      /\ Len(s) \in Nat /\ Len(t) \in Nat
  BY <1>1, ConcatProperties
<1>3. \A i \in 1..(Len(s) + Len(t)) : u[i] = IF i <= Len(s) THEN s[i] ELSE t[i - Len(s)]
  BY <1>1, ConcatProperties
<1> HIDE DEF u
<1>4. ASSUME NEW k \in 1..Len(u) PROVE LinkedAt(r, u, k)
  <2>1. CASE k <= Len(s)
    <3>1. k \in 1..Len(s) /\ u[k] = s[k] /\ (k > 1 => u[k - 1] = s[k - 1])
      BY <1>2, <1>3, <2>1
    <3>2. LinkedAt(r, s, k)
      BY <1>1, <3>1
    <3> QED
      BY <3>1, <3>2 DEF LinkedAt
  <2>2. CASE k > Len(s)
    <3> DEFINE j == k - Len(s)
    <3>1. j \in 1..Len(t) /\ u[k] = t[j] /\ (j > 1 => k > 1 /\ u[k - 1] = t[j - 1])
      BY <1>2, <1>3, <2>2
    <3> HIDE DEF j
    <3>2. LinkedAt(r, t, j)
      BY <1>1, <3>1
    <3> QED
      BY <3>1, <3>2 DEF LinkedAt
  <2> QED
    BY <1>2, <2>1, <2>2
<1> QED
  BY <1>2, <1>4 DEF Linked, u

LEMMA LinkedOne ==
    ASSUME NEW r, NEW a \in StepSet, Fits(r, a), Loose(a)
    PROVE  Linked(r, <<a>>)
  BY DEF Linked, LinkedAt

LEMMA LinkedTwo ==
    ASSUME NEW r, NEW a \in StepSet, NEW b \in StepSet, Fits(r, a), Loose(a), Fits(r, b), Chained(a, b)
    PROVE  Linked(r, <<a, b>>)
<1> DEFINE s == <<a, b>>
<1>1. s \in Seq(StepSet) /\ Len(s) = 2 /\ s[1] = a /\ s[2] = b
  OBVIOUS
<1> HIDE DEF s
<1>2. LinkedAt(r, s, 1) /\ LinkedAt(r, s, 2)
  BY <1>1 DEF LinkedAt, Chained
<1>3. \A k \in 1..2 : k = 1 \/ k = 2
  OBVIOUS
<1> QED
  BY <1>1, <1>2, <1>3 DEF Linked, s

LEMMA LinkedThree ==
    ASSUME NEW r, NEW a \in StepSet, NEW b \in StepSet, NEW c \in StepSet,
           Fits(r, a), Loose(a), Fits(r, b), Chained(a, b), Fits(r, c), Chained(b, c)
    PROVE  Linked(r, <<a, b, c>>)
<1> DEFINE s == <<a, b, c>>
<1>1. s \in Seq(StepSet) /\ Len(s) = 3 /\ s[1] = a /\ s[2] = b /\ s[3] = c
  OBVIOUS
<1> HIDE DEF s
<1>2. LinkedAt(r, s, 1) /\ LinkedAt(r, s, 2) /\ LinkedAt(r, s, 3)
  BY <1>1 DEF LinkedAt, Chained
<1>3. \A k \in 1..3 : k = 1 \/ k = 2 \/ k = 3
  OBVIOUS
<1> QED
  BY <1>1, <1>2, <1>3 DEF Linked, s

LEMMA LinkedFour ==
    ASSUME NEW r, NEW a \in StepSet, NEW b \in StepSet, NEW c \in StepSet, NEW d \in StepSet,
           Fits(r, a), Loose(a), Fits(r, b), Chained(a, b), Fits(r, c), Chained(b, c),
           Fits(r, d), Chained(c, d)
    PROVE  Linked(r, <<a, b, c, d>>)
<1> DEFINE s == <<a, b, c, d>>
<1>1. s \in Seq(StepSet) /\ Len(s) = 4 /\ s[1] = a /\ s[2] = b /\ s[3] = c /\ s[4] = d
  OBVIOUS
<1> HIDE DEF s
<1>2. LinkedAt(r, s, 1) /\ LinkedAt(r, s, 2) /\ LinkedAt(r, s, 3) /\ LinkedAt(r, s, 4)
  BY <1>1 DEF LinkedAt, Chained
<1>3. \A k \in 1..4 : k = 1 \/ k = 2 \/ k = 3 \/ k = 4
  OBVIOUS
<1> QED
  BY <1>1, <1>2, <1>3 DEF Linked, s

LEMMA PreflightLinked ==
    ASSUME NEW r
    PROVE  Linked(r, PreflightSteps)
<1> DEFINE a == Do("preflight", "backup", "")
           b == Do("preflight", "check", "")
<1>1. PreflightSteps = <<a, b>>
  BY DEF PreflightSteps
<1>2. /\ a \in StepSet /\ a.phase = "preflight" /\ a.op = "backup" /\ a.arg = ""
      /\ b \in StepSet /\ b.phase = "preflight" /\ b.op = "check" /\ b.arg = ""
  BY DEF Do, StepSet, Phases, Ops, Args
<1> HIDE DEF a, b
<1>3. Fits(r, a) /\ Fits(r, b)
  BY <1>2 DEF Fits, Measures, ArmPhase, TIMERS
<1>4. Loose(a) /\ Chained(a, b)
  BY <1>2 DEF Loose, Chained, Tied, Measures, BootsRestored
<1> QED
  BY <1>1, <1>2, <1>3, <1>4, LinkedTwo

LEMMA ProvingLinked ==
    ASSUME NEW r
    PROVE  Linked(r, Proving)
<1> DEFINE a == Do("disarm", "intend_disarm", "")
           b == Do("disarm", "stop", "watchdog")
           c == Do("disarm", "stop", "alert")
           d == Do("disarm", "prove_stopped", "")
<1>1. Proving = <<a, b, c, d>>
  BY DEF Proving
<1>2. /\ a \in StepSet /\ a.phase = "disarm" /\ a.op = "intend_disarm" /\ a.arg = ""
      /\ b \in StepSet /\ b.phase = "disarm" /\ b.op = "stop" /\ b.arg = "watchdog"
      /\ c \in StepSet /\ c.phase = "disarm" /\ c.op = "stop" /\ c.arg = "alert"
      /\ d \in StepSet /\ d.phase = "disarm" /\ d.op = "prove_stopped" /\ d.arg = ""
  BY DEF Do, StepSet, Phases, Ops, Args
<1> HIDE DEF a, b, c, d
<1>3. Fits(r, a) /\ Fits(r, b) /\ Fits(r, c) /\ Fits(r, d)
  BY <1>2 DEF Fits, Measures, ArmPhase, TIMERS
<1>4. Loose(a) /\ Chained(a, b) /\ Chained(b, c) /\ Chained(c, d)
  BY <1>2 DEF Loose, Chained, Tied, Measures, BootsRestored
<1> QED
  BY <1>1, <1>2, <1>3, <1>4, LinkedFour

LEMMA WaitingLinked ==
    ASSUME NEW r
    PROVE  Linked(r, Waiting)
<1> DEFINE a == Do("disarm", "services", "")
           b == Do("disarm", "jobs", "")
<1>1. Waiting = <<a, b>>
  BY DEF Waiting
<1>2. /\ a \in StepSet /\ a.phase = "disarm" /\ a.op = "services" /\ a.arg = ""
      /\ b \in StepSet /\ b.phase = "disarm" /\ b.op = "jobs" /\ b.arg = ""
  BY DEF Do, StepSet, Phases, Ops, Args
<1> HIDE DEF a, b
<1>3. Fits(r, a) /\ Fits(r, b)
  BY <1>2 DEF Fits, Measures, ArmPhase, TIMERS
<1>4. Loose(a) /\ Chained(a, b)
  BY <1>2 DEF Loose, Chained, Tied, Measures, BootsRestored
<1> QED
  BY <1>1, <1>2, <1>3, <1>4, LinkedTwo

LEMMA ArmStepsLinked ==
    ASSUME NEW r, NEW x \in Args, x \in ArmNames
    PROVE  Linked(r, ArmSteps(x))
<1> DEFINE a == Do("arm", "intend_arm", x)
           b == Do("arm", "set_env", x)
           c == Do("arm", "boot", "")
           d == Do("arm", "verify_arm", x)
<1>1. ArmSteps(x) = <<a, b, c, d>>
  BY DEF ArmSteps
<1>2. /\ a \in StepSet /\ a.phase = "arm" /\ a.op = "intend_arm" /\ a.arg = x
      /\ b \in StepSet /\ b.phase = "arm" /\ b.op = "set_env" /\ b.arg = x
      /\ c \in StepSet /\ c.phase = "arm" /\ c.op = "boot" /\ c.arg = ""
      /\ d \in StepSet /\ d.phase = "arm" /\ d.op = "verify_arm" /\ d.arg = x
  BY DEF Do, StepSet, Phases, Ops, Args
<1> HIDE DEF a, b, c, d
<1>3. Fits(r, a) /\ Fits(r, b) /\ Fits(r, c) /\ Fits(r, d)
  BY <1>2 DEF Fits, Measures, ArmPhase, TIMERS
<1>4. Loose(a) /\ Chained(a, b) /\ Chained(b, c) /\ Chained(c, d)
  BY <1>2 DEF Loose, Chained, Tied, Measures, BootsRestored
<1> QED
  BY <1>1, <1>2, <1>3, <1>4, LinkedFour

LEMMA MeasureLinked ==
    ASSUME NEW r, NEW x \in Args, r = "qualify"
    PROVE  Linked(r, MeasureSteps(x))
<1> DEFINE a == Do("measure", "verify_boot", x)
           b == Do("measure", "lanes", x)
<1>1. MeasureSteps(x) = <<a, b>>
  BY DEF MeasureSteps
<1>2. /\ a \in StepSet /\ a.phase = "measure" /\ a.op = "verify_boot" /\ a.arg = x
      /\ b \in StepSet /\ b.phase = "measure" /\ b.op = "lanes" /\ b.arg = x
  BY DEF Do, StepSet, Phases, Ops, Args
<1> HIDE DEF a, b
<1>3. Fits(r, a) /\ Fits(r, b)
  BY <1>2 DEF Fits, Measures, ArmPhase, TIMERS
<1>4. Loose(a) /\ Chained(a, b)
  BY <1>2 DEF Loose, Chained, Tied, Measures, BootsRestored
<1> QED
  BY <1>1, <1>2, <1>3, <1>4, LinkedTwo

LEMMA ProfileLinked ==
    ASSUME NEW r
    PROVE  Linked(r, ProfileSteps)
<1> DEFINE a == Do("profile", "lanes", "prof")
<1>1. ProfileSteps = <<a>>
  BY DEF ProfileSteps
<1>2. a \in StepSet /\ a.phase = "profile" /\ a.op = "lanes" /\ a.arg = "prof"
  BY DEF Do, StepSet, Phases, Ops, Args
<1> HIDE DEF a
<1>3. Fits(r, a)
  BY <1>2 DEF Fits, Measures, ArmPhase, TIMERS
<1>4. Loose(a)
  BY <1>2 DEF Loose, Measures, BootsRestored
<1> QED
  BY <1>1, <1>2, <1>3, <1>4, LinkedOne

LEMMA RestoreLinked ==
    ASSUME NEW r, r /= "occupancy"
    PROVE  Linked(r, RestoreSteps)
<1> DEFINE a == Do("restore", "copy_backup", "")
           b == Do("restore", "boot", "")
           c == Do("restore", "verify_restore", "")
<1>1. RestoreSteps = <<a, b, c>>
  BY DEF RestoreSteps
<1>2. /\ a \in StepSet /\ a.phase = "restore" /\ a.op = "copy_backup" /\ a.arg = ""
      /\ b \in StepSet /\ b.phase = "restore" /\ b.op = "boot" /\ b.arg = ""
      /\ c \in StepSet /\ c.phase = "restore" /\ c.op = "verify_restore" /\ c.arg = ""
  BY DEF Do, StepSet, Phases, Ops, Args
<1> HIDE DEF a, b, c
<1>3. Fits(r, a) /\ Fits(r, b) /\ Fits(r, c)
  BY <1>2 DEF Fits, Measures, ArmPhase, TIMERS
<1>4. Loose(a) /\ Chained(a, b) /\ Chained(b, c)
  BY <1>2 DEF Loose, Chained, Tied, Measures, BootsRestored
<1> QED
  BY <1>1, <1>2, <1>3, <1>4, LinkedThree

LEMMA GatesLinked ==
    ASSUME NEW r
    PROVE  Linked(r, GatesSteps)
<1> DEFINE a == Do("gates", "gates", "")
<1>1. GatesSteps = <<a>>
  BY DEF GatesSteps
<1>2. a \in StepSet /\ a.phase = "gates" /\ a.op = "gates" /\ a.arg = ""
  BY DEF Do, StepSet, Phases, Ops, Args
<1> HIDE DEF a
<1>3. Fits(r, a)
  BY <1>2 DEF Fits, Measures, ArmPhase, TIMERS
<1>4. Loose(a)
  BY <1>2 DEF Loose, Measures, BootsRestored
<1> QED
  BY <1>1, <1>2, <1>3, <1>4, LinkedOne

LEMMA RearmLinked ==
    ASSUME NEW r
    PROVE  Linked(r, RearmSteps)
<1> DEFINE a == Do("rearm", "start", "watchdog")
           b == Do("rearm", "start", "alert")
           c == Do("rearm", "prove_started", "")
<1>1. RearmSteps = <<a, b, c>>
  BY DEF RearmSteps
<1>2. /\ a \in StepSet /\ a.phase = "rearm" /\ a.op = "start" /\ a.arg = "watchdog"
      /\ b \in StepSet /\ b.phase = "rearm" /\ b.op = "start" /\ b.arg = "alert"
      /\ c \in StepSet /\ c.phase = "rearm" /\ c.op = "prove_started" /\ c.arg = ""
  BY DEF Do, StepSet, Phases, Ops, Args
<1> HIDE DEF a, b, c
<1>3. Fits(r, a) /\ Fits(r, b) /\ Fits(r, c)
  BY <1>2 DEF Fits, Measures, ArmPhase, TIMERS
<1>4. Loose(a) /\ Chained(a, b) /\ Chained(b, c)
  BY <1>2 DEF Loose, Chained, Tied, Measures, BootsRestored
<1> QED
  BY <1>1, <1>2, <1>3, <1>4, LinkedThree

LEMMA JudgeLinked ==
    ASSUME NEW r
    PROVE  Linked(r, JudgeSteps)
<1> DEFINE a == Do("judge", "judge", "")
<1>1. JudgeSteps = <<a>>
  BY DEF JudgeSteps
<1>2. a \in StepSet /\ a.phase = "judge" /\ a.op = "judge" /\ a.arg = ""
  BY DEF Do, StepSet, Phases, Ops, Args
<1> HIDE DEF a
<1>3. Fits(r, a)
  BY <1>2 DEF Fits, Measures, ArmPhase, TIMERS
<1>4. Loose(a)
  BY <1>2 DEF Loose, Measures, BootsRestored
<1> QED
  BY <1>1, <1>2, <1>3, <1>4, LinkedOne

LEMMA StopLinked ==
    ASSUME NEW r, r = "occupancy"
    PROVE  Linked(r, StopSteps)
<1> DEFINE a == Do("stop", "take_down", "")
<1>1. StopSteps = <<a>>
  BY DEF StopSteps
<1>2. a \in StepSet /\ a.phase = "stop" /\ a.op = "take_down" /\ a.arg = ""
  BY DEF Do, StepSet, Phases, Ops, Args
<1> HIDE DEF a
<1>3. Fits(r, a)
  BY <1>2 DEF Fits, Measures, ArmPhase, TIMERS
<1>4. Loose(a)
  BY <1>2 DEF Loose, Measures, BootsRestored
<1> QED
  BY <1>1, <1>2, <1>3, <1>4, LinkedOne

LEMMA CaptureLinked ==
    ASSUME NEW r
    PROVE  Linked(r, CaptureSteps)
<1> DEFINE a == Do("capture", "memory", "")
           b == Do("capture", "register", "")
           c == Do("capture", "ncu", "")
           d == Do("capture", "ncu_end", "")
<1>1. CaptureSteps = <<a, b, c, d>>
  BY DEF CaptureSteps
<1>2. /\ a \in StepSet /\ a.phase = "capture" /\ a.op = "memory" /\ a.arg = ""
      /\ b \in StepSet /\ b.phase = "capture" /\ b.op = "register" /\ b.arg = ""
      /\ c \in StepSet /\ c.phase = "capture" /\ c.op = "ncu" /\ c.arg = ""
      /\ d \in StepSet /\ d.phase = "capture" /\ d.op = "ncu_end" /\ d.arg = ""
  BY DEF Do, StepSet, Phases, Ops, Args
<1> HIDE DEF a, b, c, d
<1>3. Fits(r, a) /\ Fits(r, b) /\ Fits(r, c) /\ Fits(r, d)
  BY <1>2 DEF Fits, Measures, ArmPhase, TIMERS
<1>4. Loose(a) /\ Chained(a, b) /\ Chained(b, c) /\ Chained(c, d)
  BY <1>2 DEF Loose, Chained, Tied, Measures, BootsRestored
<1> QED
  BY <1>1, <1>2, <1>3, <1>4, LinkedFour

LEMMA StartLinked ==
    ASSUME NEW r
    PROVE  Linked(r, StartSteps)
<1> DEFINE a == Do("start", "cleanup", "")
           b == Do("start", "boot_if_down", "")
<1>1. StartSteps = <<a, b>>
  BY DEF StartSteps
<1>2. /\ a \in StepSet /\ a.phase = "start" /\ a.op = "cleanup" /\ a.arg = ""
      /\ b \in StepSet /\ b.phase = "start" /\ b.op = "boot_if_down" /\ b.arg = ""
  BY DEF Do, StepSet, Phases, Ops, Args
<1> HIDE DEF a, b
<1>3. Fits(r, a) /\ Fits(r, b)
  BY <1>2 DEF Fits, Measures, ArmPhase, TIMERS
<1>4. Loose(a) /\ Chained(a, b)
  BY <1>2 DEF Loose, Chained, Tied, Measures, BootsRestored
<1> QED
  BY <1>1, <1>2, <1>3, <1>4, LinkedTwo

LEMMA ArmIsNamed ==
    ASSUME NEW x \in Boots
    PROVE  x \in Args /\ x \in ArmNames /\ x \in {"a", "b", "b2", "a2"}
<1>1. PICK k \in 1..Len(Arms) : x = Arms[k]
  BY DEF Boots
<1>2. x \in {"a", "b", "b2", "a2"}
  BY <1>1, ArmsAssumption
<1> QED
  BY <1>2 DEF ArmNames, Args

LEMMA ArmScriptLinked ==
    ASSUME NEW x \in Boots
    PROVE  Linked("qualify", ArmScript(x)) /\ Len(ArmScript(x)) = 6
<1>1. x \in Args /\ x \in ArmNames
  BY ArmIsNamed
<1>2. Linked("qualify", ArmSteps(x)) /\ Linked("qualify", MeasureSteps(x))
  BY <1>1, ArmStepsLinked, MeasureLinked
<1>3. Linked("qualify", ArmScript(x))
  BY <1>2, LinkedJoin DEF ArmScript
<1>4. ArmSteps(x) \in Seq(StepSet) /\ MeasureSteps(x) \in Seq(StepSet)
  BY <1>2 DEF Linked
<1>5. Len(ArmSteps(x)) = 4 /\ Len(MeasureSteps(x)) = 2
  BY DEF ArmSteps, MeasureSteps
<1> DEFINE e == ArmSteps(x)
           f == MeasureSteps(x)
<1>6. ArmScript(x) = e \o f /\ e \in Seq(StepSet) /\ f \in Seq(StepSet) /\ Len(e) = 4 /\ Len(f) = 2
  BY <1>4, <1>5 DEF ArmScript
<1> HIDE DEF e, f
<1>7. Len(ArmScript(x)) = 4 + 2
  <2> DEFINE g == ArmScript(x)
  <2>1. g = e \o f
    BY <1>6
  <2> HIDE DEF g
  <2>2. Len(g) = Len(e) + Len(f)
    BY <1>6, <2>1, Joined
  <2> QED
    BY <1>6, <2>2 DEF g
<1> QED
  BY <1>3, <1>7

LEMMA ArmsLinked == Linked("qualify", ArmsScript)
<1> DEFINE n == 6 * Len(Arms)
           arm(k) == 1 + ((k - 1) \div 6)
           at(k) == 1 + ((k - 1) % 6)
           step(k) == ArmScript(Arms[arm(k)])[at(k)]
<1>0. Len(Arms) \in Nat /\ n \in Nat
  BY ArmsAssumption
<1>1. ASSUME NEW k \in 1..n
      PROVE  /\ arm(k) \in 1..Len(Arms) /\ at(k) \in 1..6
             /\ at(k) > 1 => k - 1 \in 1..n /\ k > 1 /\ arm(k - 1) = arm(k) /\ at(k - 1) = at(k) - 1
  <2>1. arm(k) \in 1..Len(Arms) /\ at(k) \in 1..6
    BY <1>0
  <2>2. ASSUME at(k) > 1
        PROVE  k > 1 /\ arm(k - 1) = arm(k) /\ at(k - 1) = at(k) - 1
    BY <1>0, <2>2
  <2> QED
    BY <2>1, <2>2, <1>0
<1>2. ASSUME NEW k \in 1..n PROVE Arms[arm(k)] \in Boots
  BY <1>1 DEF Boots
<1>3. ArmsScript = [k \in 1..n |-> step(k)]
  BY DEF ArmsScript
<1> HIDE DEF n, arm, at
<1>4. ASSUME NEW k \in 1..n
      PROVE  /\ step(k) \in StepSet /\ LinkedAt("qualify", ArmScript(Arms[arm(k)]), at(k))
  <2>1. Linked("qualify", ArmScript(Arms[arm(k)])) /\ Len(ArmScript(Arms[arm(k)])) = 6
    BY <1>2, ArmScriptLinked
  <2>2. at(k) \in 1..6
    BY <1>1
  <2> QED
    BY <2>1, <2>2, ElementOfSeq DEF Linked
<1>5. ArmsScript \in Seq(StepSet) /\ Len(ArmsScript) = n
  <2> HIDE DEF step
  <2> QED
    BY <1>0, <1>3, <1>4, IsASeq
<1>6. ASSUME NEW k \in 1..n PROVE LinkedAt("qualify", ArmsScript, k)
  <2>1. ArmsScript[k] = step(k)
    BY <1>3
  <2>2. CASE at(k) > 1
    <3>1. k > 1 /\ ArmsScript[k - 1] = ArmScript(Arms[arm(k)])[at(k) - 1]
      BY <1>1, <1>3, <2>2
    <3> QED
      BY <1>4, <2>1, <2>2, <3>1 DEF LinkedAt
  <2>3. CASE ~(at(k) > 1)
    BY <1>4, <2>1, <2>3 DEF LinkedAt
  <2> QED
    BY <2>2, <2>3
<1> QED
  BY <1>5, <1>6 DEF Linked

LEMMA DisarmLinked ==
    ASSUME NEW r, NEW strict \in BOOLEAN
    PROVE  Linked(r, DisarmSteps(strict))
<1>1. Linked(r, Proving) /\ Linked(r, Waiting)
  BY ProvingLinked, WaitingLinked
<1>2. Linked(r, Proving \o Waiting)
  BY <1>1, LinkedJoin
<1>3. Linked(r, <<>>)
  BY DEF Linked
<1>4. Linked(r, Proving \o <<>>)
  BY <1>1, <1>3, LinkedJoin
<1>5. CASE strict
  BY <1>2, <1>5 DEF DisarmSteps, Proving, Waiting
<1>6. CASE ~strict
  BY <1>4, <1>6 DEF DisarmSteps, Proving
<1> QED
  BY <1>5, <1>6

LEMMA QualifyLinked == Linked("qualify", QualifyScript)
<1> DEFINE r == "qualify"
<1>1. Linked(r, PreflightSteps) /\ Linked(r, DisarmSteps(TRUE)) /\ Linked(r, ArmsScript)
  BY PreflightLinked, DisarmLinked, ArmsLinked
<1>2. Linked(r, RestoreSteps) /\ Linked(r, GatesSteps) /\ Linked(r, RearmSteps) /\ Linked(r, JudgeSteps)
  BY RestoreLinked, GatesLinked, RearmLinked, JudgeLinked
<1> DEFINE s2 == PreflightSteps \o DisarmSteps(TRUE)
           s3 == s2 \o ArmsScript
           s4 == s3 \o RestoreSteps
           s5 == s4 \o GatesSteps
           s6 == s5 \o RearmSteps
<1>3. QualifyScript = s6 \o JudgeSteps
  BY DEF QualifyScript
<1>4. Linked(r, s2)
  BY <1>1, LinkedJoin
<1> HIDE DEF s2
<1>5. Linked(r, s3)
  BY <1>1, <1>4, LinkedJoin
<1> HIDE DEF s3
<1>6. Linked(r, s4)
  BY <1>2, <1>5, LinkedJoin
<1> HIDE DEF s4
<1>7. Linked(r, s5)
  BY <1>2, <1>6, LinkedJoin
<1> HIDE DEF s5
<1>8. Linked(r, s6)
  BY <1>2, <1>7, LinkedJoin
<1> HIDE DEF s6
<1> QED
  BY <1>2, <1>3, <1>8, LinkedJoin

LEMMA ProfileScriptLinked == Linked("profile", ProfileScript)
<1> DEFINE r == "profile"
<1>0. "prof" \in Args /\ "prof" \in ArmNames
  BY DEF Args, ArmNames
<1>1. /\ Linked(r, PreflightSteps) /\ Linked(r, DisarmSteps(FALSE)) /\ Linked(r, ArmSteps("prof"))
      /\ Linked(r, ProfileSteps)
  BY <1>0, PreflightLinked, DisarmLinked, ArmStepsLinked, ProfileLinked
<1>2. Linked(r, RestoreSteps) /\ Linked(r, GatesSteps) /\ Linked(r, RearmSteps)
  BY RestoreLinked, GatesLinked, RearmLinked
<1> DEFINE s2 == PreflightSteps \o DisarmSteps(FALSE)
           s3 == s2 \o ArmSteps("prof")
           s4 == s3 \o ProfileSteps
           s5 == s4 \o RestoreSteps
           s6 == s5 \o GatesSteps
<1>3. ProfileScript = s6 \o RearmSteps
  BY DEF ProfileScript
<1>4. Linked(r, s2)
  BY <1>1, LinkedJoin
<1> HIDE DEF s2
<1>5. Linked(r, s3)
  BY <1>1, <1>4, LinkedJoin
<1> HIDE DEF s3
<1>6. Linked(r, s4)
  BY <1>1, <1>5, LinkedJoin
<1> HIDE DEF s4
<1>7. Linked(r, s5)
  BY <1>2, <1>6, LinkedJoin
<1> HIDE DEF s5
<1>8. Linked(r, s6)
  BY <1>2, <1>7, LinkedJoin
<1> HIDE DEF s6
<1> QED
  BY <1>2, <1>3, <1>8, LinkedJoin

LEMMA OccupancyLinked == Linked("occupancy", OccupancyScript)
<1> DEFINE r == "occupancy"
<1>1. /\ Linked(r, PreflightSteps) /\ Linked(r, DisarmSteps(FALSE)) /\ Linked(r, StopSteps)
      /\ Linked(r, CaptureSteps) /\ Linked(r, JudgeSteps)
  BY PreflightLinked, DisarmLinked, StopLinked, CaptureLinked, JudgeLinked
<1>2. Linked(r, StartSteps) /\ Linked(r, GatesSteps) /\ Linked(r, RearmSteps)
  BY StartLinked, GatesLinked, RearmLinked
<1> DEFINE s2 == PreflightSteps \o DisarmSteps(FALSE)
           s3 == s2 \o StopSteps
           s4 == s3 \o CaptureSteps
           s5 == s4 \o JudgeSteps
           s6 == s5 \o StartSteps
           s7 == s6 \o GatesSteps
<1>3. OccupancyScript = s7 \o RearmSteps
  BY DEF OccupancyScript
<1>4. Linked(r, s2)
  BY <1>1, LinkedJoin
<1> HIDE DEF s2
<1>5. Linked(r, s3)
  BY <1>1, <1>4, LinkedJoin
<1> HIDE DEF s3
<1>6. Linked(r, s4)
  BY <1>1, <1>5, LinkedJoin
<1> HIDE DEF s4
<1>7. Linked(r, s5)
  BY <1>1, <1>6, LinkedJoin
<1> HIDE DEF s5
<1>8. Linked(r, s6)
  BY <1>2, <1>7, LinkedJoin
<1> HIDE DEF s6
<1>9. Linked(r, s7)
  BY <1>2, <1>8, LinkedJoin
<1> HIDE DEF s7
<1> QED
  BY <1>2, <1>3, <1>9, LinkedJoin

LEMMA ScriptLinked ==
    ASSUME NEW r \in Runners
    PROVE  Linked(r, Script(r))
  BY QualifyLinked, ProfileScriptLinked, OccupancyLinked DEF Runners, Script

LEMMA RecoverLinked ==
    ASSUME NEW r \in Runners
    PROVE  Linked(r, RecoverScript(r))
<1>1. Linked(r, RearmSteps)
  BY RearmLinked
<1>2. CASE r = "occupancy"
  BY <1>1, <1>2, StartLinked, LinkedJoin DEF RecoverScript
<1>3. CASE r /= "occupancy"
  BY <1>1, <1>3, RestoreLinked, LinkedJoin DEF RecoverScript
<1> QED
  BY <1>2, <1>3

(* Every script starts with the backup.                                    *)
Opens(s) == s \in Seq(StepSet) /\ Len(s) >= 1 /\ s[1].op = "backup"

LEMMA OpensJoin ==
    ASSUME NEW s, NEW t \in Seq(StepSet), Opens(s)
    PROVE  Opens(s \o t)
<1>1. s \in Seq(StepSet) /\ Len(s) \in Nat /\ Len(t) \in Nat /\ Len(s) >= 1
  BY DEF Opens
<1> DEFINE u == s \o t
<1>2. /\ u \in Seq(StepSet) /\ Len(u) = Len(s) + Len(t)
      /\ \A i \in 1..(Len(s) + Len(t)) : u[i] = IF i <= Len(s) THEN s[i] ELSE t[i - Len(s)]
  BY <1>1, Joined
<1> HIDE DEF u
<1>3. u[1] = s[1]
  BY <1>1, <1>2
<1>4. Opens(u)
  BY <1>1, <1>2, <1>3 DEF Opens
<1> QED
  BY <1>4 DEF u

LEMMA ScriptOpens ==
    ASSUME NEW r \in Runners
    PROVE  Opens(Script(r))
<1>1. Opens(PreflightSteps)
  <2>1. PreflightSteps \in Seq(StepSet)
    BY PreflightLinked DEF Linked
  <2>2. Len(PreflightSteps) = 2 /\ PreflightSteps[1].op = "backup"
    BY DEF PreflightSteps, Do
  <2> QED
    BY <2>1, <2>2 DEF Opens
<1>2. /\ \A b \in BOOLEAN : DisarmSteps(b) \in Seq(StepSet)
      /\ ArmsScript \in Seq(StepSet) /\ RestoreSteps \in Seq(StepSet) /\ GatesSteps \in Seq(StepSet)
      /\ RearmSteps \in Seq(StepSet) /\ JudgeSteps \in Seq(StepSet)
  BY DisarmLinked, ArmsLinked, FixedSteps DEF Linked
<1>3. ArmSteps("prof") \in Seq(StepSet) /\ ProfileSteps \in Seq(StepSet)
  <2>1. "prof" \in Args /\ "prof" \in ArmNames
    BY DEF Args, ArmNames
  <2> QED
    BY <2>1, ArmStepsLinked, ProfileLinked DEF Linked
<1>4. StopSteps \in Seq(StepSet) /\ CaptureSteps \in Seq(StepSet) /\ StartSteps \in Seq(StepSet)
  BY StopLinked, CaptureLinked, StartLinked DEF Linked
<1>5. Opens(PreflightSteps \o DisarmSteps(TRUE)) /\ Opens(PreflightSteps \o DisarmSteps(FALSE))
  BY <1>1, <1>2, OpensJoin
<1>6. Opens(QualifyScript)
  BY <1>2, <1>5, OpensJoin DEF QualifyScript
<1>7. Opens(ProfileScript)
  BY <1>2, <1>3, <1>5, OpensJoin DEF ProfileScript
<1>8. Opens(OccupancyScript)
  BY <1>2, <1>4, <1>5, OpensJoin DEF OccupancyScript
<1> QED
  BY <1>6, <1>7, <1>8 DEF Runners, Script

(* The recoveries, operation by operation.                                 *)
LEMMA RestoringScript ==
    ASSUME NEW r, r /= "occupancy"
    PROVE  LET s == RecoverScript(r)
           IN  /\ Len(s) = 6 /\ FirstTimerStep(r) = 4
               /\ s[1].op = "copy_backup" /\ s[2].op = "boot" /\ s[3].op = "verify_restore"
               /\ s[4].op = "start" /\ s[5].op = "start" /\ s[6].op = "prove_started"
<1> DEFINE e == RestoreSteps
           f == RearmSteps
           s == RecoverScript(r)
<1>1. /\ Len(e) = 3 /\ e[1].op = "copy_backup" /\ e[2].op = "boot" /\ e[3].op = "verify_restore"
  BY DEF RestoreSteps, Do
<1>2. /\ Len(f) = 3 /\ f[1].op = "start" /\ f[2].op = "start" /\ f[3].op = "prove_started"
  BY DEF RearmSteps, Do
<1>3. e \in Seq(StepSet) /\ f \in Seq(StepSet) /\ s = e \o f
  BY FixedSteps DEF RecoverScript
<1>4. FirstTimerStep(r) = Len(s) - Len(f) + 1
  BY DEF FirstTimerStep
<1> HIDE DEF e, f, s
<1>5. /\ Len(s) = Len(e) + Len(f)
      /\ \A i \in 1..(Len(e) + Len(f)) : s[i] = IF i <= Len(e) THEN e[i] ELSE f[i - Len(e)]
  BY <1>3, Joined
<1>6. /\ Len(s) = 6 /\ s[1] = e[1] /\ s[2] = e[2] /\ s[3] = e[3]
      /\ s[4] = f[1] /\ s[5] = f[2] /\ s[6] = f[3]
  BY <1>1, <1>2, <1>5
<1>7. FirstTimerStep(r) = 4
  BY <1>2, <1>4, <1>6
<1>8. /\ Len(s) = 6 /\ FirstTimerStep(r) = 4
      /\ s[1].op = "copy_backup" /\ s[2].op = "boot" /\ s[3].op = "verify_restore"
      /\ s[4].op = "start" /\ s[5].op = "start" /\ s[6].op = "prove_started"
  BY <1>1, <1>2, <1>6, <1>7
<1> QED
  BY <1>8 DEF s

LEMMA StartingScript ==
    ASSUME NEW r, r = "occupancy"
    PROVE  LET s == RecoverScript(r)
           IN  /\ Len(s) = 5 /\ FirstTimerStep(r) = 3
               /\ s[1].op = "cleanup" /\ s[2].op = "boot_if_down"
               /\ s[3].op = "start" /\ s[4].op = "start" /\ s[5].op = "prove_started"
<1> DEFINE e == StartSteps
           f == RearmSteps
           s == RecoverScript(r)
<1>1. /\ Len(e) = 2 /\ e[1].op = "cleanup" /\ e[2].op = "boot_if_down"
  BY DEF StartSteps, Do
<1>2. /\ Len(f) = 3 /\ f[1].op = "start" /\ f[2].op = "start" /\ f[3].op = "prove_started"
  BY DEF RearmSteps, Do
<1>3. e \in Seq(StepSet) /\ f \in Seq(StepSet) /\ s = e \o f
  BY FixedSteps, StartLinked DEF RecoverScript, Linked
<1>4. FirstTimerStep(r) = Len(s) - Len(f) + 1
  BY DEF FirstTimerStep
<1> HIDE DEF e, f, s
<1>5. /\ Len(s) = Len(e) + Len(f)
      /\ \A i \in 1..(Len(e) + Len(f)) : s[i] = IF i <= Len(e) THEN e[i] ELSE f[i - Len(e)]
  BY <1>3, Joined
<1>6. /\ Len(s) = 5 /\ s[1] = e[1] /\ s[2] = e[2]
      /\ s[3] = f[1] /\ s[4] = f[2] /\ s[5] = f[3]
  BY <1>1, <1>2, <1>5
<1>7. FirstTimerStep(r) = 3
  BY <1>2, <1>4, <1>6
<1>8. /\ Len(s) = 5 /\ FirstTimerStep(r) = 3
      /\ s[1].op = "cleanup" /\ s[2].op = "boot_if_down"
      /\ s[3].op = "start" /\ s[4].op = "start" /\ s[5].op = "prove_started"
  BY <1>1, <1>2, <1>6, <1>7
<1> QED
  BY <1>8 DEF s

-----------------------------------------------------------------------------
Moving == mode \in {"window", "recover", "atexit"}
Undoing == mode \in {"recover", "atexit"}

(* Beyond its first operation a window has a backup on file, and so has a  *)
(* recovery that is to copy it.                                            *)
Prepared ==
    /\ pc >= 1
    /\ mode = "window" => outcome = "none" /\ (pc > 1 => receipt.backup /= "none")
    /\ Undoing => /\ outcome \in {"failed", "alert"}
                  /\ runner /= "occupancy" /\ pc < 4 => receipt.backup /= "none"

(* What the receipt says, and does not say, is so: an intent not on file   *)
(* has changed nothing, if the receipt was begun clean.                    *)
OnFile ==
    /\ receipt.touched => receipt.backup /= "none"
    /\ receipt.clean /\ ~receipt.touched =>
         /\ Production(env)
         /\ Up(engine) => Production(engine)
         /\ receipt.backup /= "none" => Production(receipt.backup)
    /\ runner /= "occupancy" => engine /= "stopped"
    /\ receipt.clean /\ ~receipt.disarmed => timers = TIMERS

(* What an operation finds that the one before it has done.                *)
Found(d) ==
    /\ d.op = "set_env" => receipt.touched
    /\ d.op = "stop" => receipt.disarmed
    /\ BootsRestored(d) => env = receipt.backup
    /\ d.op = "verify_restore" => env = receipt.backup /\ (Up(engine) => engine = env)
    /\ Measures(d) => /\ receipt.boots[d.arg] = "current"
                      /\ Up(engine) => ImageOf(engine) = ImageOf(d.arg)
Here == Moving /\ ~AtEnd => Found(Steps[pc])

(* How far a recovery that has not failed has come.                        *)
Undone ==
    receipt.clean /\ Undoing /\ outcome = "failed" =>
        /\ runner /= "occupancy" /\ pc >= 4 => Production(env) /\ (Up(engine) => Production(engine))
        /\ runner = "occupancy" /\ pc >= 3 /\ engine = "stopped" => ~receipt.disarmed
        /\ pc > Len(RecoverScript(runner)) => timers = TIMERS

KeptInv == Typed /\ Prepared /\ OnFile /\ Here /\ Undone /\ FailureIsUndone

LEMMA ConfigIsUp ==
    ASSUME NEW c \in Configs
    PROVE  Up(c) /\ c /= "none" /\ c \notin Down
<1>1. ASSUME NEW x \in Boots PROVE x \in {"a", "b", "b2", "a2"}
  BY ArmIsNamed
<1>2. c \in {"a", "b", "b2", "a2", "prof", "prod"}
  BY <1>1 DEF Configs, ArmNames
<1> QED
  BY <1>2 DEF Up, Down

LEMMA DownIsNotUp == ~Up("down") /\ ~Up("stopped") /\ ~Up("unbooted")
  BY DEF Up, Down

LEMMA StepsLinked ==
    ASSUME Typed
    PROVE  /\ Linked(runner, Steps) /\ Steps \in Seq(StepSet) /\ Len(Steps) \in Nat
           /\ RecoverScript(runner) \in Seq(StepSet) /\ Len(RecoverScript(runner)) \in Nat
<1>1. runner \in Runners
  BY DEF Typed
<1>2. Linked(runner, Script(runner)) /\ Linked(runner, RecoverScript(runner))
  BY <1>1, ScriptLinked, RecoverLinked
<1>3. Linked(runner, Steps)
  BY <1>2 DEF Steps
<1> QED
  BY <1>2, <1>3 DEF Linked

(* The operation at hand and the one after it.                             *)
LEMMA CurrentStep ==
    ASSUME Typed, pc >= 1, ~AtEnd
    PROVE  /\ pc \in 1..Len(Steps) /\ Steps[pc] \in StepSet /\ Fits(runner, Steps[pc])
           /\ pc + 1 <= Len(Steps) =>
                 Steps[pc + 1] \in StepSet /\ Chained(Steps[pc], Steps[pc + 1])
<1>1. Linked(runner, Steps) /\ Steps \in Seq(StepSet) /\ Len(Steps) \in Nat
  BY StepsLinked
<1>2. pc \in 1..Len(Steps)
  BY <1>1 DEF Typed, AtEnd
<1>3. Steps[pc] \in StepSet
  BY <1>1, <1>2, ElementOfSeq
<1>4. Fits(runner, Steps[pc])
  BY <1>1, <1>2 DEF Linked, LinkedAt
<1>5. ASSUME pc + 1 <= Len(Steps)
      PROVE  Steps[pc + 1] \in StepSet /\ Chained(Steps[pc], Steps[pc + 1])
  <2> DEFINE k == pc + 1
  <2>1. k \in 1..Len(Steps) /\ k - 1 = pc
    BY <1>1, <1>2, <1>5
  <2>2. LinkedAt(runner, Steps, k)
    BY <1>1, <2>1 DEF Linked
  <2>3. Steps[k] \in StepSet
    BY <1>1, <2>1, ElementOfSeq
  <2> HIDE DEF k
  <2>4. Chained(Steps[pc], Steps[k])
    BY <2>1, <2>2 DEF LinkedAt, Chained
  <2> QED
    BY <2>3, <2>4 DEF k
<1> QED
  BY <1>2, <1>3, <1>4, <1>5

LEMMA LooseFinds ==
    ASSUME NEW d, Loose(d)
    PROVE  Found(d) /\ Found(d)'
  BY DEF Loose, Found

(* Where a recovery stands, by its operation.                              *)
LEMMA UndoingStep ==
    ASSUME Typed, pc >= 1, Undoing, ~AtEnd
    PROVE  /\ Steps = RecoverScript(runner)
           /\ runner /= "occupancy" =>
                /\ Len(Steps) = 6
                /\ pc < 3 => Steps[pc].op \in {"copy_backup", "boot"}
                /\ pc = 3 => Steps[pc].op = "verify_restore"
                /\ pc > 3 /\ pc < 6 => Steps[pc].op = "start"
                /\ pc > 5 => pc = 6 /\ Steps[pc].op = "prove_started"
           /\ runner = "occupancy" =>
                /\ Len(Steps) = 5
                /\ pc < 2 => Steps[pc].op = "cleanup"
                /\ pc = 2 => Steps[pc].op = "boot_if_down"
                /\ pc > 2 /\ pc < 5 => Steps[pc].op = "start"
                /\ pc > 4 => pc = 5 /\ Steps[pc].op = "prove_started"
<1>1. Steps = RecoverScript(runner)
  BY DEF Steps, Undoing
<1>2. pc \in 1..Len(Steps)
  BY CurrentStep
<1>3. CASE runner /= "occupancy"
  <2>1. /\ Len(Steps) = 6
        /\ Steps[1].op = "copy_backup" /\ Steps[2].op = "boot" /\ Steps[3].op = "verify_restore"
        /\ Steps[4].op = "start" /\ Steps[5].op = "start" /\ Steps[6].op = "prove_started"
    BY <1>1, <1>3, RestoringScript
  <2>2. pc = 1 \/ pc = 2 \/ pc = 3 \/ pc = 4 \/ pc = 5 \/ pc = 6
    BY <1>2, <2>1
  <2> QED
    BY <1>1, <1>3, <2>1, <2>2
<1>4. CASE runner = "occupancy"
  <2>1. /\ Len(Steps) = 5
        /\ Steps[1].op = "cleanup" /\ Steps[2].op = "boot_if_down"
        /\ Steps[3].op = "start" /\ Steps[4].op = "start" /\ Steps[5].op = "prove_started"
    BY <1>1, <1>4, StartingScript
  <2>2. pc = 1 \/ pc = 2 \/ pc = 3 \/ pc = 4 \/ pc = 5
    BY <1>2, <2>1
  <2> QED
    BY <1>1, <1>4, <2>1, <2>2
<1> QED
  BY <1>3, <1>4

SameFile ==
    /\ receipt'.backup = receipt.backup
    /\ receipt'.touched = receipt.touched
    /\ receipt'.disarmed = receipt.disarmed
    /\ receipt'.clean = receipt.clean

(* An operation that ends and goes on to the next one.                     *)
GoesOn ==
    /\ Moving /\ ~AtEnd
    /\ pc' = pc + 1
    /\ UNCHANGED <<mode, outcome, runner>>

LEMMA GoesOnSteps ==
    ASSUME GoesOn
    PROVE  Steps' = Steps
  BY DEF GoesOn, Steps

LEMMA GoesOnFinds ==
    ASSUME Typed, Prepared, GoesOn,
           \A d \in StepSet : Tied(Steps[pc], d) /\ ~Loose(d) => Found(d)'
    PROVE  Here'
<1> SUFFICES ASSUME ~(AtEnd')
             PROVE  (Found(Steps[pc]))'
  BY DEF Here
<1>1. Steps' = Steps /\ pc' = pc + 1
  BY GoesOnSteps DEF GoesOn
<1>2. Len(Steps) \in Nat /\ pc \in Nat
  BY StepsLinked DEF Typed
<1>3. pc + 1 <= Len(Steps)
  BY <1>1, <1>2 DEF AtEnd
<1>4. Steps[pc + 1] \in StepSet /\ Chained(Steps[pc], Steps[pc + 1])
  BY <1>3, CurrentStep DEF Prepared, GoesOn
<1>5. PICK d \in StepSet : d = Steps[pc + 1]
  BY <1>4
<1>6. Found(d)'
  <2>1. CASE Loose(d)
    BY <2>1, LooseFinds
  <2>2. CASE ~Loose(d)
    BY <1>4, <1>5, <2>2 DEF Chained
  <2> QED
    BY <2>1, <2>2
<1>7. d = Steps'[pc']
  BY <1>1, <1>5
<1> QED
  BY <1>6, <1>7

(* What no operation relies on.                                            *)
LEMMA LooseFollows ==
    ASSUME NEW c, NEW d, Tied(c, d),
           c.op \notin {"intend_arm", "intend_disarm", "stop", "services", "copy_backup", "verify_boot"},
           ~BootsRestored(c)
    PROVE  Loose(d)
  BY DEF Tied, Loose

LEMMA GoesOnPrepared ==
    ASSUME Typed, Prepared, GoesOn,
           receipt'.backup /= "none" \/ (receipt'.backup = receipt.backup /\ Steps[pc].op /= "backup")
    PROVE  Prepared'
<1>1. pc \in Nat /\ pc >= 1 /\ pc' = pc + 1
  BY DEF Typed, Prepared, GoesOn
<1>2. ASSUME mode = "window" PROVE receipt'.backup /= "none"
  <2>1. CASE pc > 1
    BY <1>2, <2>1 DEF Prepared
  <2>2. CASE pc = 1
    <3>1. Opens(Script(runner))
      BY ScriptOpens DEF Typed
    <3>2. Steps = Script(runner)
      BY <1>2 DEF Steps
    <3>3. Steps[pc].op = "backup"
      BY <2>2, <3>1, <3>2 DEF Opens
    <3> QED
      BY <3>3
  <2> QED
    BY <1>1, <2>1, <2>2
<1>3. ASSUME Undoing, runner /= "occupancy", pc + 1 < 4 PROVE receipt'.backup /= "none"
  BY <1>1, <1>3 DEF Prepared
<1>4. mode' = mode /\ outcome' = outcome /\ runner' = runner
  BY DEF GoesOn
<1>5. (mode = "window" => outcome = "none") /\ (Undoing => outcome \in {"failed", "alert"})
  BY DEF Prepared
<1>6. Undoing' <=> Undoing
  BY <1>4 DEF Undoing
<1>7. (mode = "window" => outcome = "none" /\ (pc > 1 => receipt.backup /= "none"))'
  BY <1>2, <1>4, <1>5
<1>8. (Undoing => /\ outcome \in {"failed", "alert"}
                  /\ runner /= "occupancy" /\ pc < 4 => receipt.backup /= "none")'
  BY <1>1, <1>3, <1>4, <1>5, <1>6
<1> QED
  BY <1>1, <1>7, <1>8 DEF Prepared

LEMMA GoesOnUndone ==
    ASSUME Typed, Prepared, Undone, GoesOn, receipt'.clean = receipt.clean,
           Steps[pc].op = "verify_restore" => (Production(env) /\ (Up(engine) => Production(engine)))',
           Steps[pc].op = "prove_started" => timers' = TIMERS,
           Steps[pc].op = "boot_if_down" => engine' /= "stopped",
           Steps[pc].op \in {"start", "prove_started"} => UNCHANGED <<env, engine>> /\ SameFile
    PROVE  Undone'
<1> SUFFICES ASSUME receipt.clean, Undoing, outcome = "failed"
             PROVE  /\ runner /= "occupancy" /\ pc + 1 >= 4 =>
                          (Production(env) /\ (Up(engine) => Production(engine)))'
                    /\ runner = "occupancy" /\ pc + 1 >= 3 /\ engine' = "stopped" => ~receipt'.disarmed
                    /\ pc + 1 > Len(RecoverScript(runner)) => timers' = TIMERS
  <2>1. RecoverScript(runner)' = RecoverScript(runner) /\ Undoing' = Undoing
    BY DEF RecoverScript, GoesOn, Undoing
  <2> QED
    BY <2>1 DEF Undone, GoesOn, Undoing
<1>1. pc \in Nat /\ pc >= 1 /\ ~AtEnd
  BY DEF Typed, Prepared, GoesOn
<1>2. runner' = runner
  BY DEF GoesOn
<1>3. CASE runner /= "occupancy"
  <2>1. /\ Len(RecoverScript(runner)) = 6
        /\ pc = 3 => Steps[pc].op = "verify_restore"
        /\ pc > 3 /\ pc < 6 => Steps[pc].op = "start"
        /\ pc > 5 => pc = 6 /\ Steps[pc].op = "prove_started"
    BY <1>1, <1>3, UndoingStep
  <2>2. CASE pc < 3
    <3>1. ~(pc + 1 >= 4) /\ ~(pc + 1 > Len(RecoverScript(runner)))
      BY <1>1, <2>1, <2>2
    <3> QED
      BY <1>3, <3>1, Zenon
  <2>3. CASE pc = 3
    <3>1. Steps[pc].op = "verify_restore"
      BY <2>1, <2>3
    <3>2. (Production(env) /\ (Up(engine) => Production(engine)))'
      BY <3>1, Zenon
    <3>3. ~(pc + 1 > Len(RecoverScript(runner)))
      BY <2>1, <2>3
    <3> QED
      BY <1>3, <3>2, <3>3
  <2>4. CASE pc > 3
    <3>1. UNCHANGED <<env, engine>>
      BY <1>1, <2>1, <2>4
    <3>2. Production(env) /\ (Up(engine) => Production(engine))
      BY <1>1, <1>3, <2>4 DEF Undone
    <3>3. (Production(env) /\ (Up(engine) => Production(engine)))'
      BY <1>2, <3>1, <3>2 DEF Production, Up
    <3>4. pc + 1 > Len(RecoverScript(runner)) => timers' = TIMERS
      BY <1>1, <2>1, <2>4
    <3> QED
      BY <1>3, <3>3, <3>4, Zenon
  <2> QED
    BY <1>1, <2>2, <2>3, <2>4
<1>4. CASE runner = "occupancy"
  <2>1. /\ Len(RecoverScript(runner)) = 5
        /\ pc = 2 => Steps[pc].op = "boot_if_down"
        /\ pc > 2 /\ pc < 5 => Steps[pc].op = "start"
        /\ pc > 4 => pc = 5 /\ Steps[pc].op = "prove_started"
    BY <1>1, <1>4, UndoingStep
  <2>2. CASE pc < 2
    <3>1. ~(pc + 1 >= 3) /\ ~(pc + 1 > Len(RecoverScript(runner)))
      BY <1>1, <2>1, <2>2
    <3> QED
      BY <1>4, <3>1, Zenon
  <2>3. CASE pc = 2
    <3>1. Steps[pc].op = "boot_if_down"
      BY <2>1, <2>3
    <3>2. engine' /= "stopped"
      BY <3>1
    <3>3. ~(pc + 1 > Len(RecoverScript(runner)))
      BY <2>1, <2>3
    <3> QED
      BY <1>4, <3>2, <3>3, Zenon
  <2>4. CASE pc > 2
    <3>1. UNCHANGED engine /\ SameFile
      BY <1>1, <2>1, <2>4
    <3>2. engine = "stopped" => ~receipt.disarmed
      BY <1>1, <1>4, <2>4 DEF Undone
    <3>3. engine' = "stopped" => ~receipt'.disarmed
      BY <3>1, <3>2, Zenon DEF SameFile
    <3>4. pc + 1 > Len(RecoverScript(runner)) => timers' = TIMERS
      BY <1>1, <2>1, <2>4
    <3> QED
      BY <1>4, <3>3, <3>4, Zenon
  <2> QED
    BY <1>1, <2>2, <2>3, <2>4
<1> QED
  BY <1>3, <1>4

LEMMA MovingIsNotOver ==
    ASSUME mode' /= "exited" PROVE FailureIsUndone'
  BY DEF FailureIsUndone

LEMMA SameOnFile ==
    ASSUME OnFile, SameFile, UNCHANGED <<runner, env, timers>>,
           engine' \in {engine, "unbooted", "down"}
    PROVE  OnFile'
<1>1. Up(engine') => engine' = engine
  BY DownIsNotUp
<1>2. engine' = "stopped" => engine = "stopped"
  OBVIOUS
<1>3. /\ (Production(env))' <=> Production(env)
      /\ (Up(engine) => Production(engine)) => (Up(engine) => Production(engine))'
      /\ (Production(receipt.backup))' <=> Production(receipt.backup)
  BY <1>1 DEF Production, Up, SameFile
<1> QED
  BY <1>2, <1>3 DEF OnFile, SameFile

-----------------------------------------------------------------------------
(* The start of a recovery.                                                *)
LEMMA UndoStartIs ==
    ASSUME Typed, OnFile
    PROVE  /\ UndoStart \in Nat /\ UndoStart >= 1
           /\ UndoStart <= Len(RecoverScript(runner)) =>
                 Loose(RecoverScript(runner)[UndoStart])
           /\ runner /= "occupancy" /\ UndoStart < 4 => receipt.backup /= "none"
           /\ runner /= "occupancy" /\ UndoStart >= 4 => ~receipt.touched
           /\ runner = "occupancy" => UndoStart = 1
           /\ UndoStart > Len(RecoverScript(runner)) => ~receipt.disarmed
<1> DEFINE s == RecoverScript(runner)
<1>1. CASE runner = "occupancy"
  <2>1. NeedsRestore
    BY <1>1 DEF NeedsRestore
  <2>2. UndoStart = 1
    BY <2>1 DEF UndoStart
  <2>3. Len(s) = 5 /\ s[1].op = "cleanup"
    BY <1>1, StartingScript
  <2>4. Loose(s[1])
    BY <2>3 DEF Loose, Measures, BootsRestored
  <2> QED
    BY <1>1, <2>2, <2>3, <2>4
<1>2. CASE runner /= "occupancy"
  <2>1. Len(s) = 6 /\ FirstTimerStep(runner) = 4 /\ s[1].op = "copy_backup" /\ s[4].op = "start"
    BY <1>2, RestoringScript
  <2>2. Loose(s[1]) /\ Loose(s[4])
    BY <2>1 DEF Loose, Measures, BootsRestored
  <2>3. /\ NeedsRestore => receipt.backup /= "none"
        /\ ~NeedsRestore => ~receipt.touched
    BY <1>2 DEF NeedsRestore, OnFile, Typed, Runners
  <2>4. /\ NeedsRestore => UndoStart = 1
        /\ ~NeedsRestore /\ NeedsTimers => UndoStart = 4
        /\ ~NeedsRestore /\ ~NeedsTimers => UndoStart = 7
    BY <2>1 DEF UndoStart
  <2> QED
    BY <1>2, <2>1, <2>2, <2>3, <2>4 DEF NeedsTimers
<1> QED
  BY <1>1, <1>2

LEMMA UndoKeeps ==
    ASSUME KeptInv, NEW m \in {"recover", "atexit"}, Undo(m), outcome' = "failed", SameFile,
           UNCHANGED <<runner, env, timers>>, engine' \in {engine, "unbooted", "down"}
    PROVE  Prepared' /\ OnFile' /\ Here' /\ Undone' /\ FailureIsUndone'
<1> DEFINE u == UndoStart
           s == RecoverScript(runner)
<1>0. Typed /\ OnFile
  BY DEF KeptInv
<1>1. /\ u \in Nat /\ u >= 1
      /\ u <= Len(s) => Loose(s[u])
      /\ runner /= "occupancy" /\ u < 4 => receipt.backup /= "none"
      /\ runner /= "occupancy" /\ u >= 4 => ~receipt.touched
      /\ runner = "occupancy" => u = 1
      /\ u > Len(s) => ~receipt.disarmed
  BY <1>0, UndoStartIs
<1>2. pc' = u /\ mode' = m
  BY DEF Undo
<1>3. Steps' = s /\ RecoverScript(runner)' = s /\ Len(s) \in Nat
  BY <1>0, <1>2, StepsLinked DEF Steps, RecoverScript
<1> HIDE DEF u, s
<1>4. Prepared'
  BY <1>1, <1>2 DEF Prepared, SameFile, Undoing
<1>5. OnFile'
  BY <1>0, SameOnFile
<1>6. Here'
  <2> SUFFICES ASSUME ~(AtEnd')
               PROVE  (Found(Steps[pc]))'
    BY DEF Here
  <2>1. u <= Len(s)
    BY <1>1, <1>2, <1>3 DEF AtEnd
  <2>2. PICK d : d = s[u]
    OBVIOUS
  <2>3. Loose(d)
    BY <1>1, <2>1, <2>2
  <2>4. Found(d)'
    BY <2>3, LooseFinds
  <2> QED
    BY <1>2, <1>3, <2>2, <2>4
<1>7. Undone'
  <2>1. ASSUME receipt'.clean, runner /= "occupancy", u >= 4
        PROVE  (Production(env) /\ (Up(engine) => Production(engine)))'
    <3>1. ~receipt'.touched
      BY <1>1, <2>1 DEF SameFile
    <3> QED
      BY <1>5, <2>1, <3>1 DEF OnFile
  <2>2. ASSUME receipt'.clean, u > Len(s) PROVE timers' = TIMERS
    <3>1. ~receipt'.disarmed
      BY <1>1, <2>2 DEF SameFile
    <3> QED
      BY <1>5, <2>2, <3>1 DEF OnFile
  <2>3. runner' = runner
    OBVIOUS
  <2> QED
    BY <1>1, <1>2, <1>3, <2>1, <2>2, <2>3 DEF Undone
<1>8. FailureIsUndone'
  BY <1>2, MovingIsNotOver
<1> QED
  BY <1>4, <1>5, <1>6, <1>7, <1>8

LEMMA RaiseKeeps ==
    ASSUME KeptInv, Moving, ~AtEnd, Raise, SameFile,
           UNCHANGED <<env, timers>>, engine' \in {engine, "unbooted"}
    PROVE  Prepared' /\ OnFile' /\ Here' /\ Undone' /\ FailureIsUndone'
<1>0. Typed /\ OnFile /\ Prepared /\ runner' = runner
  BY DEF KeptInv, Raise, control
<1>1. CASE mode = "window"
  <2>1. outcome' = "failed" /\ Undo("recover")
    BY <1>1 DEF Raise
  <2> QED
    BY <1>0, <2>1, UndoKeeps
<1>2. CASE mode /= "window"
  <2> DEFINE s == RecoverScript(runner)
             f == FirstTimerStep(runner)
  <2>1. outcome' = "alert" /\ mode' = mode /\ pc' \in {f, Len(s) + 1}
    BY <1>2 DEF Raise
  <2>2. Undoing /\ Undoing' /\ mode' /= "window" /\ mode' /= "exited"
    BY <1>2, <2>1 DEF Moving, Undoing
  <2>3. /\ runner /= "occupancy" => f = 4 /\ Len(s) = 6
        /\ runner = "occupancy" => f = 3 /\ Len(s) = 5
        /\ s[f].op = "start"
    BY RestoringScript, StartingScript
  <2>4. Steps' = s
    BY <1>0, <2>2 DEF Steps, RecoverScript
  <2> HIDE DEF s, f
  <2>5. Prepared'
    BY <1>0, <2>1, <2>2, <2>3 DEF Prepared
  <2>6. OnFile'
    BY <1>0, SameOnFile
  <2>7. Here'
    <3> SUFFICES ASSUME ~(AtEnd')
                 PROVE  (Found(Steps[pc]))'
      BY DEF Here
    <3>1. pc' = f
      BY <2>1, <2>3, <2>4 DEF AtEnd
    <3>2. PICK d : d = s[f]
      OBVIOUS
    <3>3. Loose(d)
      BY <2>3, <3>2 DEF Loose, Measures, BootsRestored
    <3>4. Found(d)'
      BY <3>3, LooseFinds
    <3> QED
      BY <2>4, <3>1, <3>2, <3>4
  <2>8. Undone'
    BY <2>1 DEF Undone
  <2>9. FailureIsUndone'
    BY <2>2, MovingIsNotOver
  <2> QED
    BY <2>5, <2>6, <2>7, <2>8, <2>9
<1> QED
  BY <1>1, <1>2

-----------------------------------------------------------------------------
(* Operations that leave .env, the pair, the timers and the coordinates of *)
(* the recovery alone.                                                     *)
Receipts == [backup : Configs \cup {"none"}, touched : BOOLEAN, disarmed : BOOLEAN,
             boots : [Boots -> {"none", "current", "stale"}], container : BOOLEAN,
             clean : BOOLEAN]

LEMMA GoesOnTypes ==
    ASSUME Typed, GoesOn, UNCHANGED signals, receipt' \in Receipts,
           stopFailed' \in BOOLEAN, quiet' \in BOOLEAN, profiler' \in BOOLEAN, orphan' \in BOOLEAN,
           env' \in Configs, engine' \in Configs \cup Down, timers' \subseteq TIMERS,
           UNCHANGED <<service, job>>
    PROVE  Typed'
  BY DEF Typed, GoesOn, Receipts

LEMMA IdleKeeps ==
    ASSUME KeptInv, Typed', GoesOn, SameFile, UNCHANGED <<env, engine, timers>>,
           Steps[pc].op \notin {"backup", "intend_arm", "intend_disarm", "copy_backup", "verify_boot",
                                "verify_restore", "boot", "boot_if_down"},
           Steps[pc].op = "prove_started" => timers = TIMERS
    PROVE  KeptInv'
<1>0. Typed /\ Prepared /\ OnFile /\ Here /\ Undone
  BY DEF KeptInv
<1>1. Prepared'
  BY <1>0, GoesOnPrepared DEF SameFile
<1>2. OnFile'
  <2>1. UNCHANGED runner
    BY DEF GoesOn
  <2> QED
    BY <1>0, <2>1, SameOnFile
<1>3. Here'
  <2>1. Found(Steps[pc])
    BY <1>0 DEF Here, GoesOn
  <2>2. ASSUME NEW d \in StepSet, Tied(Steps[pc], d), ~Loose(d)
        PROVE  Found(d)'
    <3>1. CASE Steps[pc].op = "stop"
      <4>1. receipt'.disarmed
        BY <2>1, <3>1 DEF Found, SameFile
      <4>2. d.op = "stop" /\ ~Measures(d) /\ ~BootsRestored(d)
        BY <2>2, <3>1 DEF Tied, Loose, BootsRestored
      <4> QED
        BY <4>1, <4>2 DEF Found
    <3>2. CASE Steps[pc].op = "services"
      <4>1. d.op = "jobs" /\ ~Measures(d) /\ ~BootsRestored(d)
        BY <2>2, <3>2 DEF Tied, Loose, BootsRestored
      <4> QED
        BY <4>1 DEF Found
    <3>3. CASE Steps[pc].op \notin {"stop", "services"}
      BY <2>2, <3>3, LooseFollows DEF BootsRestored
    <3> QED
      BY <3>1, <3>2, <3>3
  <2> QED
    BY <1>0, <2>2, GoesOnFinds
<1>4. Undone'
  <2>1. receipt'.clean = receipt.clean
    BY DEF SameFile
  <2> QED
    BY <1>0, <2>1, GoesOnUndone
<1>5. FailureIsUndone'
  BY MovingIsNotOver DEF GoesOn, Moving
<1> QED
  BY <1>1, <1>2, <1>3, <1>4, <1>5 DEF KeptInv

LEMMA NowGoesOn ==
    ASSUME NEW op, Now(op), Advance
    PROVE  GoesOn /\ UNCHANGED signals /\ Steps[pc].op = op
  BY DEF Now, Advance, Goto, GoesOn, Moving, control

LEMMA OutsideStays ==
    ASSUME Typed, UNCHANGED outside
    PROVE  /\ UNCHANGED <<env, engine, timers, service, job, profiler, orphan>>
           /\ env' \in Configs /\ engine' \in Configs \cup Down /\ timers' \subseteq TIMERS
           /\ profiler' \in BOOLEAN /\ orphan' \in BOOLEAN
  BY DEF Typed, outside

LEMMA ReceiptStays ==
    ASSUME Typed, UNCHANGED receipt
    PROVE  receipt' \in Receipts /\ SameFile
  BY DEF Typed, Receipts, SameFile

LEMMA ReceiptParts ==
    ASSUME Typed
    PROVE  /\ receipt \in Receipts
           /\ receipt.backup \in Configs \cup {"none"} /\ receipt.touched \in BOOLEAN
           /\ receipt.disarmed \in BOOLEAN /\ receipt.clean \in BOOLEAN /\ receipt.boots \in [Boots -> {"none", "current", "stale"}]
           /\ stopFailed \in BOOLEAN /\ quiet \in BOOLEAN
  BY DEF Typed, Receipts

(* Operations that read only.                                              *)
LEMMA ReadingKeeps ==
    ASSUME KeptInv, Check \/ ProveTimers \/ ReadServices \/ Lanes \/ Gates \/ WaitMemory
    PROVE  KeptInv'
<1>0. Typed
  BY DEF KeptInv
<1>1. UNCHANGED receipt /\ UNCHANGED outside /\ UNCHANGED stopFailed /\ quiet' \in BOOLEAN
  BY <1>0, ReceiptParts DEF Check, ProveTimers, ReadServices, Lanes, Gates, WaitMemory
<1>2. /\ GoesOn /\ UNCHANGED signals
      /\ Steps[pc].op \in {"check", "prove_stopped", "prove_started", "services", "lanes", "gates",
                           "judge", "memory"}
      /\ Steps[pc].op = "prove_started" => timers = TIMERS
  BY NowGoesOn DEF Check, ProveTimers, ReadServices, Lanes, Gates, WaitMemory
<1>3. Typed'
  BY <1>0, <1>1, <1>2, OutsideStays, ReceiptStays, ReceiptParts, GoesOnTypes
<1> QED
  BY <1>0, <1>1, <1>2, <1>3, OutsideStays, ReceiptStays, IdleKeeps

(* Operations that write something no recovery needs.                      *)
LEMMA NotingKeeps ==
    ASSUME KeptInv, VerifyArm \/ Register
    PROVE  KeptInv'
<1>0. Typed
  BY DEF KeptInv
<1>1. /\ UNCHANGED <<stopFailed, quiet, env, engine, timers, service, job>>
      /\ env' \in Configs /\ engine' \in Configs \cup Down /\ timers' \subseteq TIMERS
      /\ profiler' \in BOOLEAN /\ orphan' \in BOOLEAN
  BY <1>0 DEF VerifyArm, Register, Rename, outside, Typed
<1>2. /\ GoesOn /\ UNCHANGED signals
      /\ Steps[pc].op \in {"verify_arm", "register"}
  BY NowGoesOn DEF VerifyArm, Register
<1>3. receipt' \in Receipts /\ SameFile
  <2>1. CASE VerifyArm
    <3> DEFINE b == [x \in Boots |-> IF x = arg THEN "current" ELSE receipt.boots[x]]
    <3>1. receipt' = [receipt EXCEPT !.boots = b]
      BY <2>1 DEF VerifyArm
    <3>2. b \in [Boots -> {"none", "current", "stale"}]
      BY <1>0, ReceiptParts
    <3> HIDE DEF b
    <3> QED
      BY <1>0, <3>1, <3>2, ReceiptParts DEF Receipts, SameFile
  <2>2. CASE Register
    BY <1>0, <2>2, ReceiptParts DEF Receipts, SameFile, Register
  <2> QED
    BY <2>1, <2>2
<1>4. Typed'
  BY <1>0, <1>1, <1>2, <1>3, ReceiptParts, GoesOnTypes
<1> QED
  BY <1>0, <1>1, <1>2, <1>3, <1>4, IdleKeeps

LEMMA ContainerKeeps ==
    ASSUME KeptInv, RunNcu \/ NcuEnds \/ Cleanup
    PROVE  KeptInv'
<1>0. Typed
  BY DEF KeptInv
<1>1. UNCHANGED <<stopFailed, quiet, receipt, env, engine, timers, service, job, orphan>>
  BY DEF RunNcu, NcuEnds, Cleanup
<1>2. GoesOn /\ UNCHANGED signals /\ Steps[pc].op \in {"ncu", "ncu_end", "cleanup"}
  BY NowGoesOn DEF RunNcu, NcuEnds, Cleanup
<1>3. profiler' \in BOOLEAN /\ orphan' \in BOOLEAN
  BY <1>0 DEF RunNcu, NcuEnds, Cleanup, Typed
<1>4. Typed'
  <2>1. env' \in Configs /\ engine' \in Configs \cup Down /\ timers' \subseteq TIMERS
    BY <1>0, <1>1 DEF Typed
  <2> QED
    BY <1>0, <1>1, <1>2, <1>3, <2>1, ReceiptStays, ReceiptParts, GoesOnTypes
<1> QED
  BY <1>0, <1>1, <1>2, <1>4, ReceiptStays, IdleKeeps

-----------------------------------------------------------------------------
(* Operations that write what a recovery relies on.                        *)
LEMMA KeptParts ==
    ASSUME KeptInv
    PROVE  Typed /\ Prepared /\ OnFile /\ Here /\ Undone
  BY DEF KeptInv

LEMMA GoesOnKeeps ==
    ASSUME Typed', Prepared', OnFile', Here', Undone', GoesOn
    PROVE  KeptInv'
<1>1. FailureIsUndone'
  BY MovingIsNotOver DEF GoesOn, Moving
<1> QED
  BY <1>1 DEF KeptInv

LEMMA HereFinds ==
    ASSUME Here, GoesOn
    PROVE  Found(Steps[pc])
  BY DEF Here, GoesOn

LEMMA BackupKeeps ==
    ASSUME KeptInv, Backup
    PROVE  KeptInv'
<1>0. Typed /\ Prepared /\ OnFile /\ Here /\ Undone
  BY KeptParts
<1>1. GoesOn /\ UNCHANGED signals /\ Steps[pc].op = "backup"
  BY NowGoesOn DEF Backup
<1>2. UNCHANGED <<env, engine, timers, service, job, profiler, orphan, stopFailed, quiet, runner>>
  BY <1>1 DEF Backup, outside, GoesOn
<1>3. receipt' = [receipt EXCEPT !.backup = env] /\ env \in Configs
  BY <1>0 DEF Backup, Typed
<1>4. receipt \in Receipts
  BY <1>0, ReceiptParts
<1>5. /\ receipt' \in Receipts /\ receipt'.backup = env /\ receipt'.touched = receipt.touched
      /\ receipt'.disarmed = receipt.disarmed /\ receipt'.clean = receipt.clean
  BY <1>3, <1>4 DEF Receipts
<1>6. env /= "none" /\ env \notin Down
  BY <1>3, ConfigIsUp
<1>7. Typed'
  <2>1. env' \in Configs /\ engine' \in Configs \cup Down /\ timers' \subseteq TIMERS
        /\ profiler' \in BOOLEAN /\ orphan' \in BOOLEAN /\ stopFailed' \in BOOLEAN /\ quiet' \in BOOLEAN
    BY <1>0, <1>2 DEF Typed
  <2> QED
    BY <1>0, <1>1, <1>2, <1>5, <2>1, GoesOnTypes
<1>8. Prepared'
  BY <1>0, <1>1, <1>5, <1>6, GoesOnPrepared
<1>9. OnFile'
  <2>1. receipt.clean /\ ~receipt.touched => Production(env) /\ (Up(engine) => Production(engine))
    BY <1>0 DEF OnFile
  <2>2. receipt'.clean /\ ~receipt'.touched => (Production(env) /\ (Up(engine) => Production(engine)) /\ Production(receipt.backup))'
    BY <1>2, <1>5, <2>1 DEF Production, Up
  <2>3. (runner /= "occupancy" => engine /= "stopped")' /\ (receipt.clean /\ ~receipt.disarmed => timers = TIMERS)'
    BY <1>0, <1>2, <1>5 DEF OnFile
  <2>4. receipt'.backup /= "none"
    BY <1>5, <1>6
  <2> QED
    BY <2>2, <2>3, <2>4 DEF OnFile
<1>10. Here'
  <2>1. ASSUME NEW d \in StepSet, Tied(Steps[pc], d), ~Loose(d) PROVE Found(d)'
    BY <1>1, <2>1, LooseFollows DEF BootsRestored
  <2> QED
    BY <1>0, <1>1, <2>1, GoesOnFinds
<1>11. Undone'
  BY <1>0, <1>1, <1>5, GoesOnUndone
<1> QED
  BY <1>1, <1>7, <1>8, <1>9, <1>10, <1>11, GoesOnKeeps

LEMMA WindowOperation ==
    ASSUME Typed, Prepared, Moving, ~AtEnd,
           Steps[pc].op \notin {"copy_backup", "boot", "verify_restore", "start", "prove_started", "cleanup",
                                "boot_if_down"}
    PROVE  mode = "window"
<1> SUFFICES ASSUME Undoing PROVE FALSE
  BY DEF Undoing, Moving
<1>1. pc >= 1 /\ pc \in Nat
  BY DEF Prepared, Typed
<1>2. CASE runner = "occupancy"
  BY <1>1, <1>2, UndoingStep
<1>3. CASE runner /= "occupancy"
  BY <1>1, <1>3, UndoingStep
<1> QED
  BY <1>2, <1>3

LEMMA IntendKeeps ==
    ASSUME KeptInv, IntendArm \/ IntendDisarm
    PROVE  KeptInv'
<1>0. Typed /\ Prepared /\ OnFile /\ Here /\ Undone
  BY KeptParts
<1>1. GoesOn /\ UNCHANGED signals /\ Steps[pc].op \in {"intend_arm", "intend_disarm"}
  BY NowGoesOn DEF IntendArm, IntendDisarm
<1>2. UNCHANGED <<env, engine, timers, service, job, profiler, orphan, quiet, runner>> /\ stopFailed' \in BOOLEAN
  BY <1>0, <1>1 DEF IntendArm, IntendDisarm, outside, GoesOn, Typed
<1>3. receipt \in Receipts
  BY <1>0, ReceiptParts
<1>4. /\ receipt' \in Receipts /\ receipt'.backup = receipt.backup /\ receipt'.clean = receipt.clean
      /\ IntendArm => receipt'.touched /\ receipt'.disarmed = receipt.disarmed
      /\ IntendDisarm => receipt'.disarmed /\ receipt'.touched = receipt.touched
  BY <1>3 DEF Receipts, IntendArm, IntendDisarm
<1>5. IntendArm => Steps[pc].op = "intend_arm"
  BY NowGoesOn DEF IntendArm
<1>6. IntendDisarm => Steps[pc].op = "intend_disarm"
  BY NowGoesOn DEF IntendDisarm
<1>7. Typed'
  <2>1. env' \in Configs /\ engine' \in Configs \cup Down /\ timers' \subseteq TIMERS
        /\ profiler' \in BOOLEAN /\ orphan' \in BOOLEAN /\ quiet' \in BOOLEAN
    BY <1>0, <1>2 DEF Typed
  <2> QED
    BY <1>0, <1>1, <1>2, <1>4, <2>1, GoesOnTypes
<1>8. Prepared'
  BY <1>0, <1>1, <1>4, GoesOnPrepared
<1>9. OnFile'
  <2>1. receipt.backup /= "none"
    <3>1. mode = "window"
      BY <1>0, <1>1, WindowOperation DEF GoesOn
    <3>2. mode' = "window" /\ pc' > 1
      BY <1>0, <1>1, <3>1 DEF GoesOn, Typed, Prepared
    <3> QED
      BY <1>4, <1>8, <3>2 DEF Prepared
  <2>2. ~receipt'.touched => ~receipt.touched
    BY <1>4
  <2>3. ~receipt'.disarmed => ~receipt.disarmed
    BY <1>4
  <2>4. receipt'.clean /\ ~receipt'.touched => (Production(env) /\ (Up(engine) => Production(engine)) /\ Production(receipt.backup))'
    BY <1>0, <1>2, <1>4, <2>1, <2>2 DEF OnFile, Production, Up
  <2>5. (runner /= "occupancy" => engine /= "stopped")' /\ (receipt.clean /\ ~receipt.disarmed => timers = TIMERS)'
    BY <1>0, <1>2, <1>4, <2>3 DEF OnFile
  <2> QED
    BY <1>4, <2>1, <2>4, <2>5 DEF OnFile
<1>10. Here'
  <2>1. ASSUME NEW d \in StepSet, Tied(Steps[pc], d), ~Loose(d) PROVE Found(d)'
    <3>1. ~Measures(d) /\ ~BootsRestored(d) /\ d.op \in {"set_env", "stop"}
      BY <1>1, <2>1 DEF Tied, Loose, BootsRestored
    <3>2. d.op = "set_env" => IntendArm
      BY <1>6, <2>1, <3>1 DEF Tied
    <3>3. d.op = "stop" => IntendDisarm
      BY <1>5, <2>1, <3>1 DEF Tied
    <3> QED
      BY <1>4, <3>1, <3>2, <3>3 DEF Found
  <2> QED
    BY <1>0, <1>1, <2>1, GoesOnFinds
<1>11. Undone'
  BY <1>0, <1>1, <1>4, GoesOnUndone
<1> QED
  BY <1>1, <1>7, <1>8, <1>9, <1>10, <1>11, GoesOnKeeps

LEMMA SystemctlKeeps ==
    ASSUME KeptInv, Systemctl
    PROVE  KeptInv'
<1>0. Typed /\ Prepared /\ OnFile /\ Here /\ Undone
  BY KeptParts
<1>1. GoesOn /\ UNCHANGED signals /\ Steps[pc].op \in {"stop", "start"}
  BY NowGoesOn DEF Systemctl
<1>2. UNCHANGED <<env, engine, service, job, profiler, orphan, stopFailed, quiet, receipt, runner>>
  BY <1>1 DEF Systemctl, GoesOn
<1>3. Fits(runner, Steps[pc])
  BY <1>0, <1>1, CurrentStep DEF Prepared, GoesOn
<1>4. arg \in TIMERS
  BY <1>1, <1>3 DEF Fits, arg
<1>5. timers' = IF Steps[pc].op = "stop" THEN timers \ {arg} ELSE timers \cup {arg}
  BY DEF Systemctl
<1>6. timers \subseteq TIMERS
  BY <1>0 DEF Typed
<1>7. timers' \subseteq TIMERS
  BY <1>4, <1>5, <1>6
<1>8. Typed'
  <2>1. env' \in Configs /\ engine' \in Configs \cup Down
        /\ profiler' \in BOOLEAN /\ orphan' \in BOOLEAN /\ stopFailed' \in BOOLEAN /\ quiet' \in BOOLEAN
    BY <1>0, <1>2 DEF Typed
  <2> QED
    BY <1>0, <1>1, <1>2, <1>7, <2>1, ReceiptStays, GoesOnTypes
<1>9. Prepared'
  BY <1>0, <1>1, <1>2, GoesOnPrepared
<1>10. Found(Steps[pc])
  BY <1>0, <1>1, HereFinds
<1>11. OnFile'
  <2>1. ASSUME receipt.clean, ~receipt.disarmed PROVE timers' = TIMERS
    <3>1. timers = TIMERS
      BY <1>0, <2>1 DEF OnFile
    <3>2. Steps[pc].op = "start"
      BY <1>1, <1>10, <2>1 DEF Found
    <3> QED
      BY <1>4, <1>5, <3>1, <3>2
  <2>2. /\ (Production(env))' <=> Production(env)
        /\ (Up(engine) => Production(engine))' <=> (Up(engine) => Production(engine))
        /\ (Production(receipt.backup))' <=> Production(receipt.backup)
    BY <1>2 DEF Production, Up
  <2> QED
    BY <1>0, <1>2, <2>1, <2>2 DEF OnFile
<1>12. Here'
  <2>1. ASSUME NEW d \in StepSet, Tied(Steps[pc], d), ~Loose(d) PROVE Found(d)'
    <3>1. ~Measures(d) /\ ~BootsRestored(d) /\ d.op = "stop" /\ Steps[pc].op = "stop"
      BY <1>1, <2>1 DEF Tied, Loose, BootsRestored
    <3>2. receipt'.disarmed
      BY <1>2, <1>10, <3>1 DEF Found
    <3> QED
      BY <3>1, <3>2 DEF Found
  <2> QED
    BY <1>0, <1>1, <2>1, GoesOnFinds
<1>13. Undone'
  <2>1. SameFile
    BY <1>2 DEF SameFile
  <2> QED
    BY <1>0, <1>1, <1>2, <2>1, GoesOnUndone
<1> QED
  BY <1>1, <1>8, <1>9, <1>11, <1>12, <1>13, GoesOnKeeps

LEMMA SetEnvKeeps ==
    ASSUME KeptInv, SetEnv
    PROVE  KeptInv'
<1>0. Typed /\ Prepared /\ OnFile /\ Here /\ Undone
  BY KeptParts
<1>1. GoesOn /\ UNCHANGED signals /\ Steps[pc].op = "set_env"
  BY NowGoesOn DEF SetEnv
<1>2. UNCHANGED <<engine, timers, service, job, profiler, orphan, stopFailed, quiet, receipt, runner>>
  BY <1>1 DEF SetEnv, GoesOn
<1>3. Fits(runner, Steps[pc]) /\ Found(Steps[pc])
  BY <1>0, <1>1, CurrentStep, HereFinds DEF Prepared, GoesOn
<1>4. env' \in Configs
  BY <1>1, <1>3 DEF Fits, SetEnv, arg, Configs
<1>5. receipt.touched
  BY <1>1, <1>3 DEF Found
<1>6. Typed'
  <2>1. engine' \in Configs \cup Down /\ timers' \subseteq TIMERS
        /\ profiler' \in BOOLEAN /\ orphan' \in BOOLEAN /\ stopFailed' \in BOOLEAN /\ quiet' \in BOOLEAN
    BY <1>0, <1>2 DEF Typed
  <2> QED
    BY <1>0, <1>1, <1>2, <1>4, <2>1, ReceiptStays, GoesOnTypes
<1>7. Prepared'
  BY <1>0, <1>1, <1>2, GoesOnPrepared
<1>8. OnFile'
  BY <1>0, <1>2, <1>5 DEF OnFile
<1>9. Here'
  <2>1. ASSUME NEW d \in StepSet, Tied(Steps[pc], d), ~Loose(d) PROVE Found(d)'
    BY <1>1, <2>1, LooseFollows DEF BootsRestored
  <2> QED
    BY <1>0, <1>1, <2>1, GoesOnFinds
<1>10. Undone'
  BY <1>0, <1>1, <1>2, GoesOnUndone
<1> QED
  BY <1>1, <1>6, <1>7, <1>8, <1>9, <1>10, GoesOnKeeps

(* Whoever is to copy the backup has one.                                  *)
LEMMA BackupIsThere ==
    ASSUME Typed, Prepared, Moving, ~AtEnd, Steps[pc].op = "copy_backup"
    PROVE  receipt.backup \in Configs /\ receipt.backup /= "none"
<1>0. pc \in Nat /\ pc >= 1
  BY DEF Typed, Prepared
<1>1. receipt.backup /= "none"
  <2>1. CASE mode = "window"
    <3>1. Opens(Script(runner)) /\ Steps = Script(runner)
      BY <2>1, ScriptOpens DEF Typed, Steps
    <3>2. pc /= 1
      BY <3>1 DEF Opens
    <3> QED
      BY <1>0, <2>1, <3>2 DEF Prepared
  <2>2. CASE Undoing
    <3>1. runner /= "occupancy"
      BY <1>0, CurrentStep DEF Fits
    <3>2. pc < 4
      BY <1>0, <2>2, <3>1, UndoingStep
    <3> QED
      BY <2>2, <3>1, <3>2 DEF Prepared
  <2> QED
    BY <2>1, <2>2 DEF Moving, Undoing
<1> QED
  BY <1>1, ReceiptParts

LEMMA CopyBackupKeeps ==
    ASSUME KeptInv, CopyBackup
    PROVE  KeptInv'
<1>0. Typed /\ Prepared /\ OnFile /\ Here /\ Undone
  BY KeptParts
<1>1. GoesOn /\ UNCHANGED signals /\ Steps[pc].op = "copy_backup"
  BY NowGoesOn DEF CopyBackup
<1>2. UNCHANGED <<engine, timers, service, job, profiler, orphan, stopFailed, quiet, receipt, runner>>
  BY <1>1 DEF CopyBackup, GoesOn
<1>3. receipt.backup \in Configs /\ receipt.backup /= "none" /\ env' = receipt.backup
  BY <1>0, <1>1, BackupIsThere DEF GoesOn, CopyBackup
<1>4. Typed'
  <2>1. engine' \in Configs \cup Down /\ timers' \subseteq TIMERS
        /\ profiler' \in BOOLEAN /\ orphan' \in BOOLEAN /\ stopFailed' \in BOOLEAN /\ quiet' \in BOOLEAN
    BY <1>0, <1>2 DEF Typed
  <2> QED
    BY <1>0, <1>1, <1>2, <1>3, <2>1, ReceiptStays, GoesOnTypes
<1>5. Prepared'
  BY <1>0, <1>1, <1>2, GoesOnPrepared
<1>6. OnFile'
  <2>1. receipt.clean /\ ~receipt.touched => Production(receipt.backup) /\ (Up(engine) => Production(engine))
    BY <1>0, <1>3 DEF OnFile
  <2>2. receipt'.clean /\ ~receipt'.touched => (Production(env) /\ (Up(engine) => Production(engine)) /\ Production(receipt.backup))'
    BY <1>2, <1>3, <2>1 DEF Production, Up
  <2>3. (runner /= "occupancy" => engine /= "stopped")' /\ (receipt.clean /\ ~receipt.disarmed => timers = TIMERS)'
    BY <1>0, <1>2 DEF OnFile
  <2> QED
    BY <1>2, <1>3, <2>2, <2>3 DEF OnFile
<1>7. Here'
  <2>1. ASSUME NEW d \in StepSet, Tied(Steps[pc], d), ~Loose(d) PROVE Found(d)'
    <3>1. BootsRestored(d) /\ d.op = "boot" /\ ~Measures(d)
      BY <1>1, <2>1 DEF Tied, Loose, BootsRestored, Measures
    <3> QED
      BY <1>2, <1>3, <3>1 DEF Found
  <2> QED
    BY <1>0, <1>1, <2>1, GoesOnFinds
<1>8. Undone'
  BY <1>0, <1>1, <1>2, GoesOnUndone
<1> QED
  BY <1>1, <1>4, <1>5, <1>6, <1>7, <1>8, GoesOnKeeps

LEMMA BootedFiles ==
    ASSUME Typed, NEW c, Booted(c)
    PROVE  receipt' \in Receipts /\ SameFile /\ engine' = c
<1> DEFINE b == [x \in Boots |-> IF receipt.boots[x] = "none" THEN "none" ELSE "stale"]
<1>1. receipt' = [receipt EXCEPT !.boots = b] /\ engine' = c
  BY DEF Booted
<1>2. b \in [Boots -> {"none", "current", "stale"}]
  OBVIOUS
<1> HIDE DEF b
<1> QED
  BY <1>1, <1>2, ReceiptParts DEF Receipts, SameFile

(* A boot of what .env says changes nothing the receipt does not know of.  *)
LEMMA BootOnFile ==
    ASSUME OnFile, SameFile, UNCHANGED <<runner, env, timers>>, engine' = env, env \in Configs
    PROVE  OnFile'
<1>1. Up(env) /\ env \notin Down /\ env /= "stopped"
  BY ConfigIsUp DEF Down
<1>2. receipt'.clean /\ ~receipt'.touched => (Production(env) /\ Production(engine))'
  BY DEF OnFile, Production, Up, SameFile
<1>3. receipt'.clean /\ ~receipt'.touched => (receipt.backup /= "none" => Production(receipt.backup))'
  BY DEF OnFile, Production, Up, SameFile
<1>4. (receipt.touched => receipt.backup /= "none")' /\ (receipt.clean /\ ~receipt.disarmed => timers = TIMERS)'
  BY DEF OnFile, SameFile
<1> QED
  BY <1>1, <1>2, <1>3, <1>4 DEF OnFile

LEMMA GuardedStartKeeps ==
    ASSUME KeptInv, GuardedStart
    PROVE  KeptInv'
<1>0. Typed /\ Prepared /\ OnFile /\ Here /\ Undone
  BY KeptParts
<1>1. GoesOn /\ UNCHANGED signals /\ Steps[pc].op \in {"boot", "boot_if_down"}
  BY NowGoesOn DEF GuardedStart, Restarts
<1>2. UNCHANGED <<env, timers, service, job, profiler, orphan, stopFailed, quiet, runner>>
  BY <1>1 DEF GuardedStart, GoesOn
<1>3. receipt' \in Receipts /\ SameFile /\ engine' = env
  BY <1>0, BootedFiles DEF GuardedStart
<1>4. env \in Configs /\ env \notin Down
  BY <1>0, ConfigIsUp DEF Typed
<1>5. Typed'
  <2>1. env' \in Configs /\ engine' \in Configs \cup Down /\ timers' \subseteq TIMERS
        /\ profiler' \in BOOLEAN /\ orphan' \in BOOLEAN /\ stopFailed' \in BOOLEAN /\ quiet' \in BOOLEAN
    BY <1>0, <1>2, <1>3 DEF Typed
  <2> QED
    BY <1>0, <1>1, <1>2, <1>3, <2>1, GoesOnTypes
<1>6. Prepared'
  BY <1>0, <1>1, <1>3, GoesOnPrepared DEF SameFile
<1>7. OnFile'
  BY <1>0, <1>2, <1>3, <1>4, BootOnFile
<1>8. Here'
  <2>1. ASSUME NEW d \in StepSet, Tied(Steps[pc], d), ~Loose(d) PROVE Found(d)'
    <3>1. d.op = "verify_restore" /\ BootsRestored(Steps[pc]) /\ ~Measures(d) /\ ~BootsRestored(d)
      BY <1>1, <2>1 DEF Tied, Loose, BootsRestored, Measures
    <3>2. env = receipt.backup
      BY <1>0, <1>1, <3>1, HereFinds DEF Found
    <3> QED
      BY <1>2, <1>3, <3>1, <3>2 DEF Found, SameFile
  <2> QED
    BY <1>0, <1>1, <2>1, GoesOnFinds
<1>9. Undone'
  <2>1. engine' /= "stopped" /\ receipt'.clean = receipt.clean
    BY <1>3, <1>4 DEF Down, SameFile
  <2> QED
    BY <1>0, <1>1, <2>1, GoesOnUndone
<1> QED
  BY <1>1, <1>5, <1>6, <1>7, <1>8, <1>9, GoesOnKeeps

LEMMA VerifyBootKeeps ==
    ASSUME KeptInv, VerifyBoot
    PROVE  KeptInv'
<1>0. Typed /\ Prepared /\ OnFile /\ Here /\ Undone
  BY KeptParts
<1>1. GoesOn /\ UNCHANGED signals /\ Steps[pc].op = "verify_boot"
  BY NowGoesOn DEF VerifyBoot
<1>2. UNCHANGED <<stopFailed, quiet, receipt>> /\ UNCHANGED outside /\ UNCHANGED runner
  BY <1>1 DEF VerifyBoot, GoesOn
<1>3. UNCHANGED <<env, engine, timers>> /\ SameFile
  BY <1>0, <1>2, OutsideStays, ReceiptStays
<1>4. ImageOf(engine) = ImageOf(Steps[pc].arg) /\ receipt.boots[Steps[pc].arg] = "current"
  BY DEF VerifyBoot, arg
<1>5. Typed'
  BY <1>0, <1>1, <1>2, OutsideStays, ReceiptStays, ReceiptParts, GoesOnTypes
<1>6. Prepared'
  BY <1>0, <1>1, <1>2, GoesOnPrepared
<1>7. OnFile'
  BY <1>0, <1>2, <1>3, SameOnFile
<1>8. Here'
  <2>1. ASSUME NEW d \in StepSet, Tied(Steps[pc], d), ~Loose(d) PROVE Found(d)'
    <3>1. Measures(d) /\ d.op = "lanes" /\ d.arg = Steps[pc].arg /\ ~BootsRestored(d)
      BY <1>1, <2>1 DEF Tied, Loose, BootsRestored, Measures
    <3>2. ImageOf(engine') = ImageOf(d.arg) /\ receipt'.boots[d.arg] = "current"
      BY <1>2, <1>3, <1>4, <3>1
    <3> QED
      BY <3>1, <3>2 DEF Found
  <2> QED
    BY <1>0, <1>1, <2>1, GoesOnFinds
<1>9. Undone'
  BY <1>0, <1>1, <1>2, GoesOnUndone
<1> QED
  BY <1>1, <1>5, <1>6, <1>7, <1>8, <1>9, GoesOnKeeps

(* The pair that is verified runs what was restored, so what was restored  *)
(* is production and the intent may be forgotten.                          *)
LEMMA VerifyRestoreKeeps ==
    ASSUME KeptInv, VerifyRestore
    PROVE  KeptInv'
<1>0. Typed /\ Prepared /\ OnFile /\ Here /\ Undone
  BY KeptParts
<1>1. GoesOn /\ UNCHANGED signals /\ Steps[pc].op = "verify_restore"
  BY NowGoesOn DEF VerifyRestore
<1>2. UNCHANGED <<env, engine, timers, service, job, profiler, orphan, stopFailed, quiet, runner>>
  BY <1>1 DEF VerifyRestore, outside, GoesOn
<1>3. receipt \in Receipts
  BY <1>0, ReceiptParts
<1>4. /\ receipt' \in Receipts /\ receipt'.backup = receipt.backup
      /\ receipt'.disarmed = receipt.disarmed /\ receipt'.clean = receipt.clean
      /\ receipt'.touched => receipt.touched
  BY <1>3 DEF Receipts, VerifyRestore
<1>5. Production(engine) /\ Up(engine)
  <2>1. Production(engine) /\ runner \in Runners
    BY <1>0 DEF VerifyRestore, Typed
  <2> QED
    BY <2>1 DEF Production, Runners
<1>6. env = receipt.backup /\ engine = env
  BY <1>0, <1>1, <1>5, HereFinds DEF Found
<1>7. (Production(env) /\ Production(engine) /\ Production(receipt.backup))'
  BY <1>2, <1>4, <1>5, <1>6 DEF Production, Up
<1>8. Typed'
  <2>1. env' \in Configs /\ engine' \in Configs \cup Down /\ timers' \subseteq TIMERS
        /\ profiler' \in BOOLEAN /\ orphan' \in BOOLEAN /\ stopFailed' \in BOOLEAN /\ quiet' \in BOOLEAN
    BY <1>0, <1>2 DEF Typed
  <2> QED
    BY <1>0, <1>1, <1>2, <1>4, <2>1, GoesOnTypes
<1>9. Prepared'
  BY <1>0, <1>1, <1>4, GoesOnPrepared
<1>10. OnFile'
  BY <1>0, <1>2, <1>4, <1>7 DEF OnFile
<1>11. Here'
  <2>1. ASSUME NEW d \in StepSet, Tied(Steps[pc], d), ~Loose(d) PROVE Found(d)'
    BY <1>1, <2>1, LooseFollows DEF BootsRestored
  <2> QED
    BY <1>0, <1>1, <2>1, GoesOnFinds
<1>12. Undone'
  BY <1>0, <1>1, <1>4, <1>7, GoesOnUndone
<1> QED
  BY <1>1, <1>8, <1>9, <1>10, <1>11, <1>12, GoesOnKeeps

LEMMA TakeDownKeeps ==
    ASSUME KeptInv, TakeDown
    PROVE  KeptInv'
<1>0. Typed /\ Prepared /\ OnFile /\ Here /\ Undone
  BY KeptParts
<1>1. GoesOn /\ UNCHANGED signals /\ Steps[pc].op = "take_down"
  BY NowGoesOn DEF TakeDown
<1>2. UNCHANGED <<env, timers, service, job, profiler, orphan, stopFailed, quiet, receipt, runner>>
  BY <1>1 DEF TakeDown, GoesOn
<1>3. engine' = "stopped" /\ ~Up(engine') /\ engine' \in Down
  BY DownIsNotUp DEF TakeDown, Down
<1>4. runner = "occupancy"
  BY <1>0, <1>1, CurrentStep DEF Fits, GoesOn, Prepared
<1>5. Typed'
  <2>1. env' \in Configs /\ timers' \subseteq TIMERS
        /\ profiler' \in BOOLEAN /\ orphan' \in BOOLEAN /\ stopFailed' \in BOOLEAN /\ quiet' \in BOOLEAN
    BY <1>0, <1>2 DEF Typed
  <2> QED
    BY <1>0, <1>1, <1>2, <1>3, <2>1, ReceiptStays, GoesOnTypes
<1>6. Prepared'
  BY <1>0, <1>1, <1>2, GoesOnPrepared
<1>7. OnFile'
  <2>1. /\ (Production(env))' <=> Production(env)
        /\ (Production(receipt.backup))' <=> Production(receipt.backup)
    BY <1>2 DEF Production, Up
  <2>2. ~(Up(engine)')
    BY <1>3
  <2> QED
    BY <1>0, <1>2, <1>4, <2>1, <2>2 DEF OnFile
<1>8. Here'
  <2>1. ASSUME NEW d \in StepSet, Tied(Steps[pc], d), ~Loose(d) PROVE Found(d)'
    BY <1>1, <2>1, LooseFollows DEF BootsRestored
  <2> QED
    BY <1>0, <1>1, <2>1, GoesOnFinds
<1>9. Undone'
  BY <1>0, <1>1, <1>2, GoesOnUndone
<1> QED
  BY <1>1, <1>5, <1>6, <1>7, <1>8, <1>9, GoesOnKeeps

LEMMA AlreadyUpKeeps ==
    ASSUME KeptInv, AlreadyUp
    PROVE  KeptInv'
<1>0. Typed /\ Prepared /\ OnFile /\ Here /\ Undone
  BY KeptParts
<1>1. GoesOn /\ UNCHANGED signals /\ Steps[pc].op = "boot_if_down"
  BY NowGoesOn DEF AlreadyUp, Restarts
<1>2. UNCHANGED <<stopFailed, quiet, receipt>> /\ UNCHANGED outside /\ UNCHANGED runner
  BY <1>1 DEF AlreadyUp, GoesOn
<1>3. UNCHANGED <<env, engine, timers>> /\ SameFile
  BY <1>0, <1>2, OutsideStays, ReceiptStays
<1>4. engine' /= "stopped"
  BY <1>3, DownIsNotUp DEF AlreadyUp
<1>5. Typed'
  BY <1>0, <1>1, <1>2, OutsideStays, ReceiptStays, ReceiptParts, GoesOnTypes
<1>6. Prepared'
  BY <1>0, <1>1, <1>2, GoesOnPrepared
<1>7. OnFile'
  BY <1>0, <1>2, <1>3, SameOnFile
<1>8. Here'
  <2>1. ASSUME NEW d \in StepSet, Tied(Steps[pc], d), ~Loose(d) PROVE Found(d)'
    BY <1>1, <2>1, LooseFollows DEF BootsRestored
  <2> QED
    BY <1>0, <1>1, <2>1, GoesOnFinds
<1>9. Undone'
  BY <1>0, <1>1, <1>2, <1>4, GoesOnUndone
<1> QED
  BY <1>1, <1>5, <1>6, <1>7, <1>8, <1>9, GoesOnKeeps

LEMMA ReadJobsKeeps ==
    ASSUME KeptInv, ReadJobs
    PROVE  KeptInv'
<1>0. Typed /\ Prepared /\ OnFile /\ Here /\ Undone
  BY KeptParts
<1>1. UNCHANGED receipt /\ UNCHANGED outside /\ UNCHANGED stopFailed /\ UNCHANGED quiet
  BY DEF ReadJobs
<1>2. Moving /\ ~AtEnd /\ Steps[pc].op = "jobs"
  BY DEF ReadJobs, Now, Moving
<1>3. CASE Advance
  <2>1. GoesOn /\ UNCHANGED signals
    BY <1>3, NowGoesOn DEF ReadJobs
  <2>2. Typed'
    BY <1>0, <1>1, <2>1, OutsideStays, ReceiptStays, ReceiptParts, GoesOnTypes
  <2> QED
    BY <1>0, <1>1, <1>2, <2>1, <2>2, OutsideStays, ReceiptStays, IdleKeeps
<1>4. CASE Goto(pc - 1)
  <2>1. pc' = pc - 1 /\ UNCHANGED <<mode, outcome, runner, signals>>
    BY <1>4 DEF Goto, control
  <2>2. mode = "window" /\ mode' = "window"
    BY <1>0, <1>2, <2>1, WindowOperation
  <2>3. pc \in Nat /\ pc >= 1 /\ Linked(runner, Steps) /\ Len(Steps) \in Nat /\ pc \in 1..Len(Steps)
    BY <1>0, <1>2, StepsLinked, CurrentStep DEF Typed, Prepared
  <2>4. LinkedAt(runner, Steps, pc)
    BY <2>3 DEF Linked
  <2>5. pc > 1 /\ Steps[pc - 1].op = "services"
    BY <1>2, <2>4 DEF LinkedAt, Loose, Tied
  <2>6. Typed'
    BY <1>0, <1>1, <2>1, <2>3, <2>5 DEF Typed, outside
  <2>7. Prepared'
    BY <1>0, <1>1, <2>1, <2>2, <2>3, <2>5 DEF Prepared, Undoing
  <2>8. OnFile'
    BY <1>0, <1>1, <2>1, OutsideStays, ReceiptStays, SameOnFile
  <2>9. Here'
    <3>1. Steps' = Steps
      BY <2>1 DEF Steps
    <3>2. PICK d : d = Steps[pc - 1]
      OBVIOUS
    <3>3. Loose(d)
      BY <2>5, <3>2 DEF Loose, Measures, BootsRestored
    <3>4. Found(d)'
      BY <3>3, LooseFinds
    <3>5. (Found(Steps[pc]))'
      BY <2>1, <3>1, <3>2, <3>4
    <3> QED
      BY <3>5 DEF Here
  <2>10. Undone' /\ FailureIsUndone'
    BY <2>2 DEF Undone, Undoing, FailureIsUndone
  <2> QED
    BY <2>6, <2>7, <2>8, <2>9, <2>10 DEF KeptInv
<1> QED
  BY <1>3, <1>4 DEF ReadJobs

LEMMA LeaveKeeps ==
    ASSUME KeptInv, LeaveAsItIs
    PROVE  KeptInv'
<1>0. Typed /\ Prepared /\ OnFile /\ Here /\ Undone
  BY KeptParts
<1>1. UNCHANGED receipt /\ UNCHANGED outside /\ UNCHANGED stopFailed /\ UNCHANGED quiet
  BY DEF LeaveAsItIs
<1>2. /\ Moving /\ ~AtEnd /\ Steps[pc].op = "boot_if_down" /\ mode /= "window"
      /\ ~receipt.disarmed
  BY DEF LeaveAsItIs, Restarts, Now, Moving
<1>3. pc' = Len(Steps) + 1 /\ UNCHANGED <<mode, outcome, runner, signals>>
  BY DEF LeaveAsItIs, Goto, control
<1>4. Undoing /\ Steps = RecoverScript(runner)
  BY <1>2 DEF Moving, Undoing, Steps
<1>5. runner = "occupancy"
  <2>1. pc \in Nat /\ pc >= 1
    BY <1>0 DEF Typed, Prepared
  <2> QED
    BY <1>0, <1>2, <1>4, <2>1, UndoingStep
<1>6. Len(Steps) \in Nat
  BY <1>0, StepsLinked
<1>7. UNCHANGED <<env, engine, timers>> /\ SameFile
  BY <1>0, <1>1, OutsideStays, ReceiptStays
<1>8. Typed'
  BY <1>0, <1>1, <1>3, <1>6 DEF Typed, outside
<1>9. Prepared'
  <2>1. pc' >= 1 /\ mode' /= "window" /\ runner' = "occupancy"
    BY <1>2, <1>3, <1>5, <1>6
  <2>2. outcome' \in {"failed", "alert"}
    BY <1>0, <1>3, <1>4 DEF Prepared
  <2> QED
    BY <2>1, <2>2 DEF Prepared
<1>10. OnFile'
  BY <1>0, <1>3, <1>7, SameOnFile
<1>11. Here'
  <2>1. Steps' = Steps
    BY <1>3 DEF Steps
  <2>2. AtEnd'
    BY <1>3, <1>6, <2>1 DEF AtEnd
  <2> QED
    BY <2>2 DEF Here
<1>12. Undone'
  <2>1. (receipt'.clean => timers' = TIMERS) /\ ~receipt'.disarmed
    BY <1>0, <1>1, <1>2, <1>7 DEF OnFile
  <2> QED
    BY <1>3, <1>5, <2>1 DEF Undone
<1>13. FailureIsUndone'
  BY <1>2, <1>3, MovingIsNotOver DEF Moving
<1> QED
  BY <1>8, <1>9, <1>10, <1>11, <1>12, <1>13 DEF KeptInv

-----------------------------------------------------------------------------
(* Operations that fail.                                                   *)
LEMMA RaiseTypes ==
    ASSUME Typed, OnFile, Moving, Raise, receipt' \in Receipts, profiler' \in BOOLEAN, orphan' \in BOOLEAN,
           UNCHANGED <<env, timers, service, job>>, engine' \in {engine, "unbooted"}
    PROVE  Typed'
<1>1. /\ UNCHANGED <<runner, signals, quiet>> /\ stopFailed' = FALSE
      /\ outcome' \in {"failed", "alert"}
      /\ mode' \in {"window", "recover", "atexit"}
  BY DEF Raise, control, Undo, Moving
<1>2. pc' \in {UndoStart, FirstTimerStep(runner), Len(RecoverScript(runner)) + 1}
  BY DEF Raise, Undo
<1>3. UndoStart \in Nat /\ Len(RecoverScript(runner)) \in Nat
  BY UndoStartIs, StepsLinked
<1>4. FirstTimerStep(runner) \in Nat
  BY RestoringScript, StartingScript
<1>5. pc' \in Nat
  BY <1>2, <1>3, <1>4
<1>6. engine' \in Configs \cup Down
  BY DEF Typed, Down
<1> QED
  BY <1>1, <1>5, <1>6 DEF Typed, Receipts

LEMMA FailingKeeps ==
    ASSUME KeptInv, Moving, ~AtEnd, Raise, receipt' \in Receipts, SameFile, profiler' \in BOOLEAN, orphan' \in BOOLEAN,
           UNCHANGED <<env, timers, service, job>>, engine' \in {engine, "unbooted"}
    PROVE  KeptInv'
<1>1. Typed /\ OnFile
  BY KeptParts
<1>2. Typed'
  BY <1>1, RaiseTypes
<1>3. Prepared' /\ OnFile' /\ Here' /\ Undone' /\ FailureIsUndone'
  BY RaiseKeeps
<1> QED
  BY <1>2, <1>3 DEF KeptInv

LEMMA RaiseOnlyKeeps ==
    ASSUME KeptInv, Moving, ~AtEnd, RaiseOnly
    PROVE  KeptInv'
<1>1. Typed /\ Raise /\ UNCHANGED receipt /\ UNCHANGED outside
  BY KeptParts DEF RaiseOnly
<1> QED
  BY <1>1, OutsideStays, ReceiptStays, FailingKeeps

LEMMA FailuresKeep ==
    ASSUME KeptInv,
           \/ CheckFails \/ TimersUnproved \/ QuiescenceTimesOut \/ VerifyArmFails \/ VerifyBootFails
           \/ LanesFail \/ VerifyRestoreFails \/ CopyBackupFails \/ GatesFail \/ TakeDownFails \/ WaitMemoryFails
           \/ CleanupFails \/ GuardedStartFails \/ NcuFails
    PROVE  KeptInv'
<1>0. Typed
  BY KeptParts
<1>1. CASE \/ CheckFails \/ TimersUnproved \/ QuiescenceTimesOut \/ VerifyArmFails \/ VerifyBootFails
           \/ LanesFail \/ VerifyRestoreFails \/ CopyBackupFails \/ GatesFail \/ TakeDownFails \/ WaitMemoryFails
           \/ CleanupFails
  <2>1. Moving /\ ~AtEnd /\ RaiseOnly
    BY <1>1 DEF CheckFails, TimersUnproved, QuiescenceTimesOut, VerifyArmFails, VerifyBootFails,
                LanesFail, VerifyRestoreFails, CopyBackupFails, GatesFail, TakeDownFails, WaitMemoryFails, CleanupFails,
                Now, Moving
  <2> QED
    BY <2>1, RaiseOnlyKeeps
<1>2. CASE GuardedStartFails
  <2>1. Moving /\ ~AtEnd /\ Raise /\ UNCHANGED <<env, timers, service, job, profiler, orphan>>
    BY <1>2 DEF GuardedStartFails, Restarts, Now, Moving
  <2>2. receipt' \in Receipts /\ SameFile /\ engine' = "unbooted"
    BY <1>0, <1>2, BootedFiles DEF GuardedStartFails
  <2>3. profiler' \in BOOLEAN /\ orphan' \in BOOLEAN
    BY <1>0, <2>1 DEF Typed
  <2> QED
    BY <2>1, <2>2, <2>3, FailingKeeps
<1>3. CASE NcuFails
  <2>1. Moving /\ ~AtEnd /\ Raise /\ UNCHANGED <<receipt, env, engine, timers, service, job>>
    BY <1>3 DEF NcuFails, Now, Moving
  <2>2. profiler' \in BOOLEAN /\ orphan' \in BOOLEAN
    BY <1>0, <1>3 DEF NcuFails, Typed
  <2> QED
    BY <1>0, <2>1, <2>2, ReceiptStays, FailingKeeps
<1> QED
  BY <1>1, <1>2, <1>3

LEMMA SystemctlFailsKeeps ==
    ASSUME KeptInv, SystemctlFails
    PROVE  KeptInv'
<1>0. Typed /\ Moving /\ ~AtEnd
  BY KeptParts DEF SystemctlFails, Now, Moving
<1>1. CASE runner = "qualify"
  <2>1. /\ stopFailed' = TRUE /\ UNCHANGED quiet /\ UNCHANGED receipt /\ UNCHANGED outside
        /\ Advance
    BY <1>1 DEF SystemctlFails
  <2>2. GoesOn /\ UNCHANGED signals /\ Steps[pc].op \in {"stop", "start"}
    BY <2>1, NowGoesOn DEF SystemctlFails
  <2>3. Typed'
    BY <1>0, <2>1, <2>2, OutsideStays, ReceiptStays, ReceiptParts, GoesOnTypes
  <2> QED
    BY <1>0, <2>1, <2>2, <2>3, OutsideStays, ReceiptStays, IdleKeeps
<1>2. CASE runner /= "qualify"
  BY <1>0, <1>2, RaiseOnlyKeeps DEF SystemctlFails
<1> QED
  BY <1>1, <1>2

-----------------------------------------------------------------------------
(* Ways in and out of an invocation.                                       *)
LEMMA SignalRange ==
    ASSUME Typed
    PROVE  Tolerated[runner] \in Nat /\ 0 \in 0..Tolerated[runner]
  BY ToleratedAssumption DEF Typed, Runners

LEMMA ExitKeeps ==
    ASSUME KeptInv, NEW o \in {"ok", "failed", "alert", "kept", "killed", "interrupted"}, Exit(o),
           UNCHANGED receipt, UNCHANGED outside,
           o = "failed" /\ receipt.clean => AsProduction /\ (engine = "stopped" => ~receipt.disarmed)
    PROVE  KeptInv'
<1>0. Typed /\ OnFile
  BY KeptParts
<1>1. /\ mode' = "exited" /\ outcome' = o /\ pc' = 1 /\ signals' = 0 /\ stopFailed' = FALSE
      /\ quiet' = FALSE /\ runner' = runner
  BY DEF Exit
<1>2. UNCHANGED <<env, engine, timers, service, job, profiler, orphan>> /\ SameFile
  BY <1>0, OutsideStays, ReceiptStays
<1>3. Typed'
  <2>1. 0 \in 0..Tolerated[runner'] /\ 1 \in Nat
    BY <1>0, <1>1, SignalRange
  <2>2. receipt' \in Receipts
    BY <1>0, ReceiptStays
  <2> QED
    BY <1>0, <1>1, <1>2, <2>1, <2>2 DEF Typed, Receipts
<1>4. Prepared'
  BY <1>1 DEF Prepared, Undoing
<1>5. OnFile'
  BY <1>0, <1>1, <1>2, SameOnFile
<1>6. Here' /\ Undone'
  BY <1>1 DEF Here, Moving, Undone, Undoing
<1>7. FailureIsUndone'
  <2>1. o = "failed" /\ receipt'.clean => (AsProduction /\ (engine = "stopped" => ~receipt.disarmed))'
    BY <1>1, <1>2 DEF AsProduction, Production, Up, SameFile
  <2> QED
    BY <1>1, <2>1 DEF FailureIsUndone
<1> QED
  BY <1>3, <1>4, <1>5, <1>6, <1>7 DEF KeptInv

LEMMA UndoTypes ==
    ASSUME Typed, OnFile, NEW m \in {"recover", "atexit"}, Undo(m), outcome' = "failed",
           signals' \in 0..Tolerated[runner], UNCHANGED <<runner, quiet, receipt>>, UNCHANGED outside
    PROVE  Typed'
<1>1. pc' = UndoStart /\ UndoStart \in Nat /\ mode' = m /\ stopFailed' = FALSE
  BY UndoStartIs DEF Undo
<1> QED
  BY <1>1 DEF Typed, outside

(* A recovery that came to its end without a failure has undone the        *)
(* window.                                                                 *)
LEMMA EndIsUndone ==
    ASSUME KeptInv, Undoing, AtEnd, outcome = "failed", receipt.clean
    PROVE  AsProduction /\ (engine = "stopped" => ~receipt.disarmed)
<1>0. Typed /\ OnFile /\ Undone
  BY KeptParts
<1>1. pc \in Nat /\ pc > Len(RecoverScript(runner)) /\ runner \in Runners
  BY <1>0 DEF Undoing, AtEnd, Steps, Typed
<1>2. CASE runner /= "occupancy"
  <2>1. pc >= 4
    BY <1>1, <1>2, RestoringScript
  <2>2. engine /= "stopped"
    BY <1>0, <1>2 DEF OnFile
  <2> QED
    BY <1>0, <1>1, <1>2, <2>1, <2>2 DEF Undone, AsProduction
<1>3. CASE runner = "occupancy"
  <2>1. pc >= 3
    BY <1>1, <1>3, StartingScript
  <2>2. Production(env)
    BY <1>0, <1>3, ConfigIsUp DEF Production, Typed
  <2>3. Up(engine) => Production(engine)
    BY <1>3 DEF Production
  <2> QED
    BY <1>0, <1>1, <1>3, <2>1, <2>2, <2>3 DEF Undone, AsProduction
<1> QED
  BY <1>2, <1>3

LEMMA FinishKeeps ==
    ASSUME KeptInv, Finish
    PROVE  KeptInv'
<1>0. Typed /\ Prepared /\ OnFile
  BY KeptParts
<1>1. UNCHANGED receipt /\ UNCHANGED outside /\ Moving /\ AtEnd
  BY DEF Finish, Moving
<1>2. CASE mode = "recover" /\ runner = "qualify" /\ outcome = "alert"
  <2>1. Undo("atexit") /\ outcome' = "failed" /\ UNCHANGED <<runner, signals, quiet>>
    BY <1>2 DEF Finish, control
  <2>2. signals' \in 0..Tolerated[runner]
    BY <1>0, <2>1 DEF Typed
  <2>3. Typed'
    BY <1>0, <1>1, <2>1, <2>2, UndoTypes
  <2>4. Prepared' /\ OnFile' /\ Here' /\ Undone' /\ FailureIsUndone'
    BY <1>0, <1>1, <2>1, OutsideStays, ReceiptStays, UndoKeeps
  <2> QED
    BY <2>3, <2>4 DEF KeptInv
<1>3. CASE ~(mode = "recover" /\ runner = "qualify" /\ outcome = "alert")
  <2>1. PICK o : o = IF outcome = "none" THEN "ok" ELSE outcome
    OBVIOUS
  <2>2. Exit(o)
    BY <1>3, <2>1 DEF Finish
  <2>3. o \in {"ok", "failed", "alert", "kept", "killed", "interrupted"}
    BY <1>0, <2>1 DEF Typed
  <2>4. o = "failed" => Undoing /\ outcome = "failed"
    BY <1>0, <1>1, <2>1 DEF Prepared, Moving, Undoing
  <2>5. o = "failed" /\ receipt.clean => AsProduction /\ (engine = "stopped" => ~receipt.disarmed)
    BY <1>1, <2>4, EndIsUndone
  <2> QED
    BY <1>1, <2>2, <2>3, <2>5, ExitKeeps
<1> QED
  BY <1>2, <1>3

LEMMA LeavingKeeps ==
    ASSUME KeptInv, StopAfterPhase \/ KeepArmed \/ Kill \/ SignalEnds
    PROVE  KeptInv'
<1>1. UNCHANGED receipt /\ UNCHANGED outside
  BY DEF StopAfterPhase, KeepArmed, Kill, SignalEnds
<1>2. Exit("ok") \/ Exit("kept") \/ Exit("killed") \/ Exit("interrupted")
  BY DEF StopAfterPhase, KeepArmed, Kill, SignalEnds
<1> QED
  BY <1>1, <1>2, ExitKeeps

LEMMA SignalKeeps ==
    ASSUME KeptInv, SignalInWindow \/ SignalInRecovery
    PROVE  KeptInv'
<1>0. Typed /\ OnFile
  BY KeptParts
<1>1. PICK m \in {"recover", "atexit"} : Undo(m)
  BY DEF SignalInWindow, SignalInRecovery
<1>2. /\ outcome' = "failed" /\ signals' = signals + 1 /\ signals < Tolerated[runner]
      /\ UNCHANGED <<runner, quiet, receipt>> /\ UNCHANGED outside
  BY DEF SignalInWindow, SignalInRecovery
<1>3. signals' \in 0..Tolerated[runner]
  BY <1>0, <1>2, SignalRange DEF Typed
<1>4. Typed'
  BY <1>0, <1>1, <1>2, <1>3, UndoTypes
<1>5. Prepared' /\ OnFile' /\ Here' /\ Undone' /\ FailureIsUndone'
  BY <1>0, <1>1, <1>2, OutsideStays, ReceiptStays, UndoKeeps
<1> QED
  BY <1>4, <1>5 DEF KeptInv

(* A phase begins: it relies on nothing that is not on file.               *)
LEMMA LaunchKeeps ==
    ASSUME Typed, NEW first \in PhaseStarts(Script(runner)), Launch(first), OnFile',
           receipt' \in Receipts, first /= 1 => receipt'.backup /= "none",
           UNCHANGED <<env, engine, timers, service, job>>, profiler' \in BOOLEAN, orphan' \in BOOLEAN
    PROVE  KeptInv'
<1> DEFINE s == Script(runner)
<1>1. /\ pc' = first /\ mode' = "window" /\ signals' = 0 /\ outcome' = "none"
      /\ stopFailed' = FALSE /\ quiet' = FALSE /\ runner' = runner
  BY DEF Launch
<1>2. Linked(runner, s)
  BY ScriptLinked DEF Typed
<1>3. Len(s) \in Nat /\ first \in 1..Len(s) /\ (first = 1 \/ s[first - 1].phase /= s[first].phase)
  BY <1>2 DEF Linked, PhaseStarts
<1>4. Loose(s[first])
  BY <1>2, <1>3 DEF Linked, LinkedAt, Tied
<1>6. Steps' = s
  BY <1>1 DEF Steps, Script
<1> HIDE DEF s
<1>7. Typed'
  <2>1. first \in Nat
    BY <1>3
  <2>2. signals' \in 0..Tolerated[runner']
    BY <1>1, SignalRange
  <2> QED
    BY <1>1, <2>1, <2>2 DEF Typed, Receipts
<1>8. Prepared'
  BY <1>1, <1>3 DEF Prepared, Undoing
<1>10. Here'
  <2>1. PICK d : d = s[first]
    OBVIOUS
  <2>2. Found(d)'
    BY <1>4, <2>1, LooseFinds
  <2>3. (Found(Steps[pc]))'
    BY <1>1, <1>6, <2>1, <2>2
  <2> QED
    BY <2>3 DEF Here
<1>11. Undone' /\ FailureIsUndone'
  BY <1>1 DEF Undone, Undoing, FailureIsUndone
<1> QED
  BY <1>7, <1>8, <1>10, <1>11 DEF KeptInv

LEMMA ResumeKeeps ==
    ASSUME KeptInv, NEW first \in PhaseStarts(Script(runner)), Resume(first)
    PROVE  KeptInv'
<1>0. Typed /\ OnFile
  BY KeptParts
<1>1. /\ Launch(first) /\ UNCHANGED receipt /\ UNCHANGED outside
      /\ first /= 1 => receipt'.backup /= "none"
  BY DEF Resume
<1>2. UNCHANGED runner
  BY <1>1 DEF Launch
<1>3. OnFile'
  BY <1>0, <1>1, <1>2, OutsideStays, ReceiptStays, SameOnFile
<1> QED
  BY <1>0, <1>1, <1>3, OutsideStays, ReceiptStays, LaunchKeeps

(* A fresh receipt knows of nothing; if it is begun clean there is nothing *)
(* to know.                                                                *)
LEMMA BeginKeeps ==
    ASSUME KeptInv, Begin
    PROVE  KeptInv'
<1>0. Typed /\ OnFile
  BY KeptParts
<1>1. /\ Launch(1) /\ UNCHANGED runner /\ UNCHANGED <<env, engine, timers, service, job>>
      /\ receipt' = [NoReceipt EXCEPT !.clean = AsProduction]
  BY DEF Begin, Launch
<1>2. AsProduction \in BOOLEAN
  BY <1>0 DEF AsProduction, Production, Typed, Runners
<1>3. /\ receipt' \in Receipts /\ receipt'.backup = "none" /\ receipt'.touched = FALSE
      /\ receipt'.disarmed = FALSE /\ receipt'.clean = AsProduction
  BY <1>1, <1>2 DEF NoReceipt, Receipts
<1>4. profiler' \in BOOLEAN /\ orphan' \in BOOLEAN
  BY <1>0 DEF Begin, Rename, Typed
<1>5. OnFile'
  <2>1. receipt'.clean => (timers = TIMERS /\ Production(env) /\ (Up(engine) => Production(engine)))'
    BY <1>1, <1>3 DEF AsProduction, Production, Up
  <2>2. (runner /= "occupancy" => engine /= "stopped")'
    BY <1>0, <1>1 DEF OnFile
  <2> QED
    BY <1>3, <2>1, <2>2 DEF OnFile
<1>6. 1 \in PhaseStarts(Script(runner))
  <2>1. Opens(Script(runner))
    BY <1>0, ScriptOpens DEF Typed
  <2> QED
    BY <2>1 DEF Opens, PhaseStarts
<1> QED
  BY <1>0, <1>1, <1>3, <1>4, <1>5, <1>6, LaunchKeeps

-----------------------------------------------------------------------------
(* The world: the pair is what it was, or down, or booted with .env where  *)
(* nothing is being measured.                                              *)
LEMMA AroundKeeps ==
    ASSUME KeptInv, receipt' \in Receipts, SameFile, service' \in BOOLEAN, job' \in BOOLEAN,
           profiler' \in BOOLEAN, orphan' \in BOOLEAN,
           UNCHANGED <<runner, mode, pc, signals, outcome, stopFailed, quiet, env, timers>>,
           \/ engine' \in {engine, "down"} /\ receipt'.boots = receipt.boots
           \/ engine' \in {env, "down"} /\ (Moving /\ ~AtEnd => ~Measures(Steps[pc]))
    PROVE  KeptInv'
<1>0. Typed /\ Prepared /\ OnFile /\ Here /\ Undone /\ FailureIsUndone
  BY DEF KeptInv
<1>1. env \in Configs /\ Up(env) /\ env \notin Down
  BY <1>0, ConfigIsUp DEF Typed
<1>2. engine' \in Configs \cup Down
  BY <1>0, <1>1 DEF Typed, Down
<1>3. Typed'
  BY <1>0, <1>2 DEF Typed, Receipts
<1>4. Prepared'
  BY <1>0 DEF Prepared, Undoing, SameFile
<1>5. OnFile'
  <2>1. CASE engine' \in {engine, "down"}
    BY <1>0, <2>1, SameOnFile
  <2>2. CASE engine' = env
    BY <1>0, <1>1, <2>2, BootOnFile
  <2> QED
    BY <2>1, <2>2
<1>6. Steps' = Steps /\ AtEnd' = AtEnd /\ Moving' = Moving /\ Undoing' = Undoing
  BY DEF Steps, AtEnd, Moving, Undoing
<1>7. Here'
  <2> SUFFICES ASSUME Moving, ~AtEnd
               PROVE  (Found(Steps[pc]))'
    BY <1>6 DEF Here
  <2>1. PICK d : d = Steps[pc]
    OBVIOUS
  <2>2. Found(d)
    BY <1>0, <2>1 DEF Here
  <2>3. Up(engine') => engine' = engine \/ (engine' = env /\ ~Measures(d))
    BY <2>1, DownIsNotUp
  <2>5. Measures(d) => receipt'.boots = receipt.boots
    BY <2>1
  <2>4. Found(d)'
    BY <2>2, <2>3, <2>5 DEF Found, SameFile, Up
  <2> QED
    BY <1>6, <2>1, <2>4
<1>8. /\ Production(env) => (Production(env))'
      /\ Production(env) /\ (Up(engine) => Production(engine)) => (Up(engine) => Production(engine))'
  <2>1. Up(engine') => engine' = engine \/ engine' = env
    BY DownIsNotUp
  <2> QED
    BY <2>1 DEF Production, Up
<1>9. (engine' = "stopped" => engine = "stopped") /\ receipt'.disarmed = receipt.disarmed
      /\ receipt'.clean = receipt.clean
  BY <1>1 DEF Down, SameFile
<1>10. RecoverScript(runner)' = RecoverScript(runner)
  BY DEF RecoverScript
<1>11. Undone'
  BY <1>0, <1>6, <1>8, <1>9, <1>10 DEF Undone
<1>12. FailureIsUndone'
  BY <1>0, <1>8, <1>9 DEF FailureIsUndone, AsProduction
<1> QED
  BY <1>3, <1>4, <1>5, <1>7, <1>11, <1>12 DEF KeptInv

(* No restart is queued where an arm is measured.                          *)
LEMMA NoJobWhileMeasuring ==
    ASSUME KeptInv, QuietInv, job, Moving, ~AtEnd
    PROVE  ~Measures(Steps[pc])
<1> SUFFICES ASSUME Measures(Steps[pc]) PROVE FALSE
  OBVIOUS
<1>0. Typed /\ Prepared
  BY KeptParts
<1>1. Steps[pc].op = "lanes" /\ runner = "qualify" /\ ArmPhase(Steps[pc].phase) /\ pc \in 1..Len(Steps)
  BY <1>0, CurrentStep DEF Measures, Fits, Prepared
<1>2. mode = "window"
  BY <1>0, <1>1, WindowOperation
<1>3. Qualifying /\ Steps = QualifyScript
  BY <1>1, <1>2, StepsOfWindow DEF Qualifying
<1>4. pc <= Len(QualifyScript)
  BY <1>1, <1>3, LenIsNat
<1> QED
  BY <1>1, <1>3, <1>4 DEF QuietInv, QuietAt

LEMMA WorldKeeps ==
    ASSUME KeptInv, QuietInv, World
    PROVE  KeptInv'
<1>0. Typed
  BY KeptParts
<1>1. CASE TimerFires \/ ServiceEnds \/ Crash \/ ContainerExits
  <2>1. /\ UNCHANGED <<runner, mode, pc, signals, outcome, stopFailed, quiet, env, timers>>
        /\ UNCHANGED receipt /\ engine' \in {engine, "down"}
        /\ service' \in BOOLEAN /\ job' \in BOOLEAN /\ profiler' \in BOOLEAN /\ orphan' \in BOOLEAN
    BY <1>0, <1>1 DEF TimerFires, ServiceEnds, Crash, ContainerExits, process, Typed
  <2> QED
    BY <1>0, <2>1, ReceiptStays, AroundKeeps
<1>2. CASE JobRuns
  <2>1. /\ UNCHANGED <<runner, mode, pc, signals, outcome, stopFailed, quiet, env, timers, profiler,
                      orphan, service>>
        /\ job /\ job' = FALSE
    BY <1>2 DEF JobRuns, process
  <2>2. service' \in BOOLEAN /\ job' \in BOOLEAN /\ profiler' \in BOOLEAN /\ orphan' \in BOOLEAN
    BY <1>0, <2>1 DEF Typed
  <2>3. Booted(env) \/ Booted("down")
    BY <1>2 DEF JobRuns
  <2>4. receipt' \in Receipts /\ SameFile /\ engine' \in {env, "down"}
    BY <1>0, <2>3, BootedFiles
  <2>5. Moving /\ ~AtEnd => ~Measures(Steps[pc])
    BY <2>1, NoJobWhileMeasuring
  <2> QED
    BY <2>1, <2>2, <2>4, <2>5, AroundKeeps
<1> QED
  BY <1>1, <1>2 DEF World

LEMMA StepKeepsKept == KeptInv /\ QuietInv /\ [Next]_vars => KeptInv'
<1> SUFFICES ASSUME KeptInv, QuietInv, [Next]_vars PROVE KeptInv'
  OBVIOUS
<1>1. CASE UNCHANGED vars
  <2>1. UNCHANGED <<runner, mode, pc, signals, outcome, stopFailed, quiet, receipt, env, engine, timers,
                    service, job, profiler, orphan>>
    BY <1>1 DEF vars
  <2>2. /\ Typed /\ service' \in BOOLEAN /\ job' \in BOOLEAN
        /\ profiler' \in BOOLEAN /\ orphan' \in BOOLEAN
    BY <2>1, KeptParts DEF Typed
  <2> QED
    BY <2>1, <2>2, ReceiptStays, AroundKeeps
<1>2. CASE Begin \/ \E first \in PhaseStarts(Script(runner)) : Resume(first)
  BY <1>2, BeginKeeps, ResumeKeeps
<1>3. CASE Signal \/ Kill \/ World
  BY <1>3, SignalKeeps, LeavingKeeps, WorldKeeps DEF Signal
<1>4. CASE Operation
  <2>1. CASE \/ Check \/ ProveTimers \/ ReadServices \/ Lanes \/ Gates \/ WaitMemory
             \/ VerifyArm \/ Register \/ RunNcu \/ NcuEnds \/ Cleanup
    BY <2>1, ReadingKeeps, NotingKeeps, ContainerKeeps
  <2>2. CASE Backup \/ IntendDisarm \/ IntendArm \/ Systemctl \/ SetEnv \/ CopyBackup
    BY <2>2, BackupKeeps, IntendKeeps, SystemctlKeeps, SetEnvKeeps, CopyBackupKeeps
  <2>3. CASE GuardedStart \/ VerifyBoot \/ VerifyRestore \/ TakeDown \/ AlreadyUp \/ ReadJobs \/ LeaveAsItIs
    BY <2>3, GuardedStartKeeps, VerifyBootKeeps, VerifyRestoreKeeps, TakeDownKeeps, AlreadyUpKeeps,
       ReadJobsKeeps, LeaveKeeps
  <2>4. CASE \/ CheckFails \/ TimersUnproved \/ QuiescenceTimesOut \/ VerifyArmFails \/ VerifyBootFails
             \/ LanesFail \/ VerifyRestoreFails \/ CopyBackupFails \/ GatesFail \/ TakeDownFails \/ WaitMemoryFails
             \/ CleanupFails \/ GuardedStartFails \/ NcuFails
    BY <2>4, FailuresKeep
  <2>5. CASE SystemctlFails \/ Finish \/ StopAfterPhase \/ KeepArmed
    BY <2>5, SystemctlFailsKeeps, FinishKeeps, LeavingKeeps
  <2> QED
    BY <1>4, <2>1, <2>2, <2>3, <2>4, <2>5 DEF Operation
<1> QED
  BY <1>1, <1>2, <1>3, <1>4 DEF Next

LEMMA InitIsKept == Init => KeptInv
<1> SUFFICES ASSUME Init PROVE KeptInv
  OBVIOUS
<1>1. /\ runner \in Runners /\ mode = "exited" /\ pc = 1 /\ signals = 0 /\ outcome = "none"
      /\ stopFailed = FALSE /\ quiet = FALSE /\ receipt = NoReceipt
      /\ env = "prod" /\ engine = "prod" /\ timers = TIMERS
      /\ service = FALSE /\ job = FALSE /\ profiler = FALSE /\ orphan = FALSE
  BY DEF Init
<1>2. receipt \in Receipts /\ receipt.backup = "none" /\ receipt.touched = FALSE /\ receipt.disarmed = FALSE
  BY <1>1 DEF NoReceipt, Receipts
<1>3. env \in Configs /\ engine \in Configs
  BY <1>1 DEF Configs
<1>4. Typed
  <2>1. 0 \in 0..Tolerated[runner]
    BY <1>1, ToleratedAssumption DEF Runners
  <2> QED
    BY <1>1, <1>2, <1>3, <2>1 DEF Typed, Receipts
<1>5. Prepared /\ Here /\ Undone /\ FailureIsUndone
  BY <1>1 DEF Prepared, Here, Undone, FailureIsUndone, Moving, Undoing
<1>6. Production("prod")
  BY <1>1 DEF Production, Up, Down, ImageOf, Runners
<1>7. OnFile
  BY <1>1, <1>2, <1>6 DEF OnFile
<1> QED
  BY <1>4, <1>5, <1>7 DEF KeptInv

LEMMA KeptAlways == Spec => []KeptInv
<1>1. Init => KeptInv /\ QuietInv
  BY InitIsKept DEF Init, QuietInv, Qualifying
<1> QED
  BY <1>1, StepKeepsKept, StepKeepsQuiet, PTL DEF Spec

(* The variables keep their types, whatever is signalled, killed, resumed  *)
(* or restarted.                                                           *)
THEOREM TypeCorrect == Spec => []TypeOK
<1>1. KeptInv => TypeOK
  BY DEF KeptInv, Prepared, TypeOK
<1> QED
  BY <1>1, KeptAlways, PTL

(* A runner that failed and reports no failed recovery has put .env, the   *)
(* pair and the timers back: the recovery of main(), and the one atexit    *)
(* starts over after a signal or a failed recovery.                        *)
THEOREM FailureStaysUndone == Spec => []FailureIsUndone
<1>1. KeptInv => FailureIsUndone
  BY DEF KeptInv
<1> QED
  BY <1>1, KeptAlways, PTL

(* Whenever a runner is killed or signalled, the receipt names what it has *)
(* stopped, edited or started and not undone: each intent is saved before  *)
(* the deed, and forgotten after it was verified that it is undone.        *)
THEOREM DebtsStayOnFile == Spec => []DebtsAreOnFile
<1>1. ASSUME KeptInv, ProfilerInv
      PROVE  DebtsAreOnFile
  <2>1. OnFile /\ receipt.touched \in BOOLEAN /\ receipt.disarmed \in BOOLEAN
    BY <1>1, KeptParts, ReceiptParts DEF Typed, KeptInv
  <2>2. runner = "occupancy" /\ profiler => receipt.container = TRUE
    BY <1>1 DEF ProfilerInv
  <2> QED
    BY <2>1, <2>2 DEF OnFile, DebtsAreOnFile
<1> QED
  BY <1>1, KeptAlways, InitIsSafe, StepIsSafe, PTL DEF Spec

(* Whatever is filed under an arm was measured on a pair that runs it.     *)
THEOREM EvidenceStaysOfItsArm == Spec => EvidenceIsOfItsArm
<1>1. ASSUME KeptInv, Lanes
      PROVE  /\ ImageOf(engine) = ImageOf(arg)
             /\ IF arg = "prof" THEN engine = "prof" ELSE receipt.boots[arg] = "current"
  <2>1. Moving /\ ~AtEnd /\ Steps[pc].op = "lanes" /\ Up(engine) /\ (arg = "prof" => engine = "prof")
    BY <1>1 DEF Lanes, Now, Moving
  <2>2. CASE arg = "prof"
    BY <2>1, <2>2
  <2>3. CASE arg /= "prof"
    <3>1. Measures(Steps[pc])
      BY <2>1, <2>3 DEF Measures, arg
    <3>2. Found(Steps[pc])
      BY <1>1, <2>1, KeptParts DEF Here
    <3> QED
      BY <2>1, <2>3, <3>1, <3>2 DEF Found, arg
  <2> QED
    BY <2>2, <2>3
<1>2. KeptInv => [Lanes => /\ ImageOf(engine) = ImageOf(arg)
                           /\ IF arg = "prof" THEN engine = "prof"
                              ELSE receipt.boots[arg] = "current"]_vars
  BY <1>1
<1> QED
  BY <1>2, KeptAlways, PTL DEF EvidenceIsOfItsArm

=============================================================================
