---------------------------- MODULE Overlay_proofs ----------------------------
(***************************************************************************)
(* For any installers, recipes and images that keep the discipline Overlay *)
(* assumes: an installer that prepares its files first and refuses leaves  *)
(* the tree as it found it, a container serves the wanted text or nothing, *)
(* and no installer refuses what another one or an earlier release left.   *)
(***************************************************************************)
EXTENDS Overlay, TLAPS

(* The place of the running script, and what TypeOK says of it.            *)
Placed ==
    /\ script \in DOMAIN Recipes \cup {"boot"}
    /\ at \in Nat

(* Before its first file an installer has changed nothing, and one with a  *)
(* preflight is past it once it has written.                               *)
WritesFollowThePlan ==
    /\ at = 0 => text = base
    /\ pc <= Len(order) /\ order[pc].preflight /\ at > 0 => plan /= NoPlan
    /\ job = "refused" => plan = NoPlan /\ pc <= Len(order)

IInv == TypeOK /\ Placed /\ WritesFollowThePlan

LEMMA OrderIsAnOrder == Placed => order \in Orders
  BY DEF Placed, order, Orders, Scripts

LEMMA OrderFacts ==
    ASSUME NEW o \in Orders
    PROVE  /\ Len(o) \in Nat
           /\ \A k \in 1..Len(o) : Len(o[k].edits) \in Nat \ {0} /\ o[k].preflight \in BOOLEAN
  BY OrdersAssumption DEF Orders, InstallersOf

(* A fresh container stands before the first installer.                    *)
LEMMA BeginKeepsIInv ==
    ASSUME NEW tree, NEW f, NEW s \in DOMAIN Recipes \cup {"boot"}, Begin(tree, f, s),
           job' \in {"build", "boot"}
    PROVE  IInv'
<1>1. script' = s /\ text' = base' /\ pc' = 1 /\ at' = 0 /\ plan' = NoPlan
  BY DEF Begin
<1>2. Placed'
  BY <1>1 DEF Placed
<1>3. order' \in Orders
  BY <1>1 DEF order, Orders, Scripts
<1>4. /\ Len(order') \in Nat
      /\ \A k \in 1..Len(order') : Len(order'[k].edits) \in Nat \ {0}
  BY <1>3, OrderFacts
<1>5. TypeOK'
  BY <1>1, <1>4 DEF TypeOK
<1>6. WritesFollowThePlan'
  BY <1>1 DEF WritesFollowThePlan
<1> QED
  BY <1>2, <1>5, <1>6 DEF IInv

LEMMA DiscardKeepsIInv ==
    ASSUME Discard
    PROVE  IInv'
<1>1. job' = "none" /\ script' = "boot" /\ text' = base' /\ pc' = 1 /\ at' = 0 /\ plan' = NoPlan
  BY DEF Discard
<1>2. Placed'
  BY <1>1 DEF Placed
<1>3. order' \in Orders
  BY <1>1 DEF order, Orders, Scripts
<1>4. Len(order') \in Nat
  BY <1>3, OrderFacts
<1>5. TypeOK' /\ WritesFollowThePlan'
  BY <1>1, <1>4 DEF TypeOK, WritesFollowThePlan
<1> QED
  BY <1>2, <1>5 DEF IInv

(* The step to the next installer.                                         *)
LEMMA NextInstallerKeepsIInv ==
    ASSUME IInv, Running, NextInstaller, base' = text', UNCHANGED <<job, script>>
    PROVE  IInv'
<1>1. order' = order /\ order \in Orders
  BY OrderIsAnOrder DEF order, IInv
<1>2. pc' = pc + 1 /\ at' = 0 /\ plan' = NoPlan
  BY DEF NextInstaller
<1>3. /\ Len(order) \in Nat
      /\ \A k \in 1..Len(order) : Len(order[k].edits) \in Nat \ {0}
  BY <1>1, OrderFacts
<1>4. pc \in 1..Len(order) /\ job \in {"build", "boot"}
  BY <1>3 DEF Running, IInv, TypeOK
<1>5. TypeOK'
  BY <1>1, <1>2, <1>3, <1>4 DEF TypeOK, IInv
<1>6. Placed'
  BY <1>2 DEF Placed, IInv
<1>7. WritesFollowThePlan'
  BY <1>2, <1>4 DEF WritesFollowThePlan
<1> QED
  BY <1>5, <1>6, <1>7 DEF IInv

(* A file more, by an installer that may write.                            *)
LEMMA WriteStepKeepsIInv ==
    ASSUME IInv, Running, NEW e, NEW write, WriteStep(e, write),
           order[pc].preflight => plan /= NoPlan
    PROVE  IInv'
<1>1. UNCHANGED <<job, script>>
  BY DEF WriteStep
<1>2. CASE at + 1 = Len(order[pc].edits)
  BY <1>1, <1>2, NextInstallerKeepsIInv DEF WriteStep
<1>3. CASE at + 1 /= Len(order[pc].edits)
  <2>1. at' = at + 1 /\ UNCHANGED <<pc, plan, base>>
    BY <1>3 DEF WriteStep
  <2>2. order' = order /\ order \in Orders
    BY <1>1, OrderIsAnOrder DEF order, IInv
  <2>3. /\ Len(order) \in Nat
        /\ \A k \in 1..Len(order) : Len(order[k].edits) \in Nat \ {0}
    BY <2>2, OrderFacts
  <2>4. pc \in 1..Len(order) /\ job \in {"build", "boot"} /\ at \in Nat /\ at < Len(order[pc].edits)
    BY <2>3 DEF Running, IInv, TypeOK
  <2>5. TypeOK'
    BY <1>1, <1>3, <2>1, <2>2, <2>3, <2>4 DEF TypeOK, IInv
  <2>6. Placed'
    BY <1>1, <2>1 DEF Placed, IInv
  <2>7. WritesFollowThePlan'
    BY <1>1, <2>1, <2>2, <2>4 DEF WritesFollowThePlan
  <2> QED
    BY <2>5, <2>6, <2>7 DEF IInv
<1> QED
  BY <1>2, <1>3

LEMMA InitIsIInv == Init => IInv
<1> SUFFICES ASSUME Init PROVE IInv
  OBVIOUS
<1>1. Placed /\ job = "none" /\ pc = 1 /\ at = 0 /\ plan = NoPlan /\ text = base
  BY DEF Init, Placed
<1>2. Len(order) \in Nat
  BY <1>1, OrderIsAnOrder, OrderFacts
<1> QED
  BY <1>1, <1>2 DEF IInv, TypeOK, WritesFollowThePlan

LEMMA StepKeepsIInv == IInv /\ [Next]_vars => IInv'
<1> SUFFICES ASSUME IInv, [Next]_vars PROVE IInv'
  OBVIOUS
<1>1. ASSUME NEW f \in FlagSets, Launch(f) PROVE IInv'
  BY <1>1, BeginKeepsIInv DEF Launch
<1>2. ASSUME NEW s \in DOMAIN Recipes, Build(s) PROVE IInv'
  BY <1>2, BeginKeepsIInv DEF Build
<1>3. CASE SkipInstaller
  BY <1>3, NextInstallerKeepsIInv DEF SkipInstaller
<1>4. CASE Preflight
  <2>1. UNCHANGED <<job, script, pc, at, text, base>> /\ at = 0 /\ Running
    BY <1>4 DEF Preflight
  <2>2. order' = order
    BY <2>1 DEF order
  <2>3. plan' \subseteq 1..Len(order[pc].edits)
    BY <1>4 DEF Preflight
  <2>4. TypeOK' /\ Placed'
    BY <2>1, <2>2, <2>3 DEF IInv, TypeOK, Placed
  <2>5. WritesFollowThePlan'
    BY <2>1, <2>2 DEF IInv, WritesFollowThePlan, Running
  <2> QED
    BY <2>4, <2>5 DEF IInv
<1>5. CASE WritePrepared
  BY <1>5, WriteStepKeepsIInv DEF WritePrepared
<1>6. CASE PrepareAndWrite
  BY <1>6, WriteStepKeepsIInv DEF PrepareAndWrite
<1>7. CASE Refuse
  <2>1. /\ UNCHANGED <<script, pc, at, plan, text, base>>
        /\ job' = "refused" /\ Running /\ plan = NoPlan
    BY <1>7 DEF Refuse
  <2>2. order' = order
    BY <2>1 DEF order
  <2> QED
    BY <2>1, <2>2 DEF IInv, TypeOK, Placed, WritesFollowThePlan, Running
<1>8. CASE Serve
  <2>1. UNCHANGED <<script, pc, at, plan, text, base>> /\ job' = "serving"
    BY <1>8 DEF Serve
  <2>2. order' = order
    BY <2>1 DEF order
  <2> QED
    BY <2>1, <2>2 DEF IInv, TypeOK, Placed, WritesFollowThePlan
<1>9. CASE Tag
  BY <1>9, DiscardKeepsIInv DEF Tag
<1>10. CASE Remove
  BY <1>10, DiscardKeepsIInv DEF Remove
<1>11. CASE UNCHANGED vars
  <2>1. UNCHANGED <<job, script, pc, at, plan, text, base>>
    BY <1>11 DEF vars
  <2>2. order' = order
    BY <2>1 DEF order
  <2> QED
    BY <2>1, <2>2 DEF IInv, TypeOK, Placed, WritesFollowThePlan
<1> QED
  BY <1>1, <1>2, <1>3, <1>4, <1>5, <1>6, <1>7, <1>8, <1>9, <1>10, <1>11 DEF Next, Step

(* The script never runs past its installers or an installer past its      *)
(* files, whatever is skipped, refused, built or removed.                  *)
THEOREM TypeCorrect == Spec => []TypeOK
<1>1. IInv => TypeOK
  BY DEF IInv
<1> QED
  BY <1>1, InitIsIInv, StepKeepsIInv, PTL DEF Spec

(* An installer that prepares all its files before the first write and     *)
(* refuses one of them leaves the tree as it found it.                     *)
THEOREM RefusalIsClean == Spec => []RefusalLeavesNoTrace
<1>1. IInv => RefusalLeavesNoTrace
  BY DEF IInv, TypeOK, WritesFollowThePlan, RefusalLeavesNoTrace
<1> QED
  BY <1>1, InitIsIInv, StepKeepsIInv, PTL DEF Spec

-----------------------------------------------------------------------------
(* What the installers make of a tree.                                     *)

(* The sites that edits es leave or put in tree t, before any of them      *)
(* spoils another.                                                         *)
Plain(t, es) == (t \ UNION {e.older : e \in es}) \cup AddsOf(es)

(* It was complete in t, or has been made so.                              *)
Present(e, t, es) == e \in es \/ (e.adds \subseteq t /\ e.older \cap t = {})

LEMMA InAdds ==
    ASSUME NEW es, NEW x
    PROVE  x \in AddsOf(es) <=> \E e \in es : x \in e.adds
  BY DEF AddsOf

LEMMA InSpoilt ==
    ASSUME NEW S, NEW x
    PROVE  x \in Spoilt(S) <=> \E s \in S : x \in Spoils(s)
  BY DEF Spoilt

LEMMA InPlain ==
    ASSUME NEW t, NEW es, NEW x
    PROVE  x \in Plain(t, es) <=> \/ x \in t /\ \A e \in es : x \notin e.older
                                  \/ \E e \in es : x \in e.adds
  BY DEF Plain, AddsOf

LEMMA LaidIsPlain ==
    ASSUME NEW t, NEW es
    PROVE  Laid(t, es) = Plain(t, es) \ Spoilt(Plain(t, es))
  BY DEF Laid, Plain

(* Only the edits spoil anything in a tree in which nothing does.          *)
LEMMA PlainSpoils ==
    ASSUME NEW t, NEW es, Spoilt(t) = {}
    PROVE  Spoilt(Plain(t, es)) = Spoilt(AddsOf(es))
<1>1. \A x : x \in Spoilt(Plain(t, es)) <=> \E s \in Plain(t, es) : x \in Spoils(s)
  BY InSpoilt
<1>2. \A x : x \in Spoilt(AddsOf(es)) <=> \E s \in AddsOf(es) : x \in Spoils(s)
  BY InSpoilt
<1>3. \A x : \A s \in t : x \notin Spoils(s)
  BY InSpoilt
<1>4. \A s : s \in Plain(t, es) => s \in t \/ s \in AddsOf(es)
  BY DEF Plain
<1>5. \A s : s \in AddsOf(es) => s \in Plain(t, es)
  BY DEF Plain
<1>6. \A x : x \in Spoilt(Plain(t, es)) <=> x \in Spoilt(AddsOf(es))
  BY <1>1, <1>2, <1>3, <1>4, <1>5
<1> QED
  BY <1>6

LEMMA InLaid ==
    ASSUME NEW t, NEW es, Spoilt(t) = {}, NEW x
    PROVE  x \in Laid(t, es) <=> x \in Plain(t, es) /\ x \notin Spoilt(AddsOf(es))
  BY LaidIsPlain, PlainSpoils

LEMMA PlainMore ==
    ASSUME NEW t, NEW es \in SUBSET AllEdits, NEW e \in AllEdits
    PROVE  Plain(t, es \cup {e}) = (Plain(t, es) \ e.older) \cup e.adds
<1>1. \A d \in es : d.adds \cap e.older = {}
  BY EditsAssumption
<1>2. \A x : x \in Plain(t, es \cup {e}) <=> \/ x \in t /\ x \notin e.older /\ \A d \in es : x \notin d.older
                                            \/ x \in e.adds \/ \E d \in es : x \in d.adds
  BY InPlain
<1>3. \A x : x \in Plain(t, es) <=> \/ x \in t /\ \A d \in es : x \notin d.older
                                    \/ \E d \in es : x \in d.adds
  BY InPlain
<1>4. \A x : x \in Plain(t, es \cup {e}) <=> x \in (Plain(t, es) \ e.older) \cup e.adds
  BY <1>1, <1>2, <1>3
<1> QED
  BY <1>4

LEMMA AddsMore ==
    ASSUME NEW es, NEW e
    PROVE  /\ AddsOf(es \cup {e}) = AddsOf(es) \cup e.adds
           /\ Spoilt(AddsOf(es \cup {e})) = Spoilt(AddsOf(es)) \cup Spoilt(e.adds)
<1>1. AddsOf(es \cup {e}) = AddsOf(es) \cup e.adds
  BY DEF AddsOf
<1>2. Spoilt(AddsOf(es) \cup e.adds) = Spoilt(AddsOf(es)) \cup Spoilt(e.adds)
  BY DEF Spoilt
<1> QED
  BY <1>1, <1>2

(* Writing an edit is laying it, when nothing laid so far writes into it.  *)
LEMMA PatchedIsLaid ==
    ASSUME NEW t, Spoilt(t) = {}, NEW es \in SUBSET AllEdits, NEW e \in AllEdits,
           Spoilt(AddsOf(es \cup {e})) \cap e.adds = {}
    PROVE  Patched(e, Laid(t, es)) = Laid(t, es \cup {e})
<1>1. \A x : x \in Laid(t, es) <=> x \in Plain(t, es) /\ x \notin Spoilt(AddsOf(es))
  BY InLaid
<1>2. \A x : x \in Laid(t, es \cup {e}) <=> /\ x \in (Plain(t, es) \ e.older) \cup e.adds
                                           /\ x \notin Spoilt(AddsOf(es \cup {e}))
  BY InLaid, PlainMore
<1>3. Spoilt(AddsOf(es \cup {e})) = Spoilt(AddsOf(es)) \cup Spoilt(e.adds)
  BY AddsMore
<1>4. \A x : x \in Patched(e, Laid(t, es)) <=>
        \/ x \in Laid(t, es) /\ x \notin e.older /\ x \notin Spoilt(e.adds)
        \/ x \in e.adds
  BY DEF Patched
<1>5. \A x : x \in Patched(e, Laid(t, es)) <=> x \in Laid(t, es \cup {e})
  BY <1>1, <1>2, <1>3, <1>4
<1> QED
  BY <1>5

(* Leaving a complete edit alone is laying it.                             *)
LEMMA PresentIsLaid ==
    ASSUME NEW t, Spoilt(t) = {}, NEW es \in SUBSET AllEdits, NEW e \in AllEdits,
           Present(e, t, es)
    PROVE  Laid(t, es \cup {e}) = Laid(t, es)
<1>1. CASE e \in es
  <2>1. es \cup {e} = es
    BY <1>1
  <2> QED
    BY <2>1
<1>2. CASE e.adds \subseteq t /\ e.older \cap t = {}
  <2>1. \A d \in es : d.adds \cap e.older = {} /\ e.adds \cap d.older = {}
    BY EditsAssumption
  <2>2. e.adds \subseteq Plain(t, es)
    BY <1>2, <2>1, InPlain
  <2>3. e.older \cap Plain(t, es) = {}
    BY <1>2, <2>1, InPlain
  <2>4. Plain(t, es \cup {e}) = Plain(t, es)
    BY <2>2, <2>3, PlainMore
  <2> QED
    BY <2>4, LaidIsPlain
<1> QED
  BY <1>1, <1>2 DEF Present

(* What is older than an edit is never written into, and only that edit    *)
(* takes it away.                                                          *)
LEMMA OlderIsLaid ==
    ASSUME NEW t, Spoilt(t) = {}, NEW es \in SUBSET AllEdits, NEW e \in AllEdits, e \notin es
    PROVE  e.older \cap Laid(t, es) = e.older \cap t
<1>1. \A d \in es : d.adds \cap e.older = {} /\ e.older \cap d.older = {}
  BY EditsAssumption
<1>2. \A d \in es : Spoilt(d.adds) \cap e.older = {}
  BY SpoilsAssumption
<1>3. Spoilt(AddsOf(es)) \cap e.older = {}
  <2>1. SUFFICES ASSUME NEW x, x \in Spoilt(AddsOf(es)), x \in e.older PROVE FALSE
    OBVIOUS
  <2>2. PICK s \in AddsOf(es) : x \in Spoils(s)
    BY <2>1, InSpoilt
  <2>3. PICK d \in es : s \in d.adds
    BY <2>2, InAdds
  <2>4. x \in Spoilt(d.adds)
    BY <2>2, <2>3, InSpoilt
  <2> QED
    BY <1>2, <2>1, <2>3, <2>4
<1>4. \A x : x \in Laid(t, es) <=> x \in Plain(t, es) /\ x \notin Spoilt(AddsOf(es))
  BY InLaid
<1>5. \A x : x \in Plain(t, es) <=> \/ x \in t /\ \A d \in es : x \notin d.older
                                    \/ \E d \in es : x \in d.adds
  BY InPlain
<1>6. \A x : x \in e.older => (x \in Laid(t, es) <=> x \in t)
  BY <1>1, <1>3, <1>4, <1>5
<1> QED
  BY <1>6

(* The own text of an edit that was not laid is the tree's.                *)
LEMMA OwnIsOfTree ==
    ASSUME NEW t, Spoilt(t) = {}, NEW es \in SUBSET AllEdits, NEW e \in AllEdits, e \notin es
    PROVE  Own(e) \cap Laid(t, es) \subseteq t
<1>1. \A d \in es : Own(e) \cap d.adds = {}
  BY EditsAssumption
<1>2. \A x : x \in Laid(t, es) => x \in t \/ \E d \in es : x \in d.adds
  BY InLaid, InPlain
<1> QED
  BY <1>1, <1>2

LEMMA VerdictIsOne ==
    ASSUME NEW e, NEW t
    PROVE  Verdict(e, t) \in {"apply", "already", "die"}
  BY DEF Verdict

(* An edit is found installed only where it is complete.                   *)
LEMMA AlreadyIsPresent ==
    ASSUME NEW t, Spoilt(t) = {}, NEW es \in SUBSET AllEdits, NEW e \in AllEdits, Known(e, t),
           Verdict(e, Laid(t, es)) = "already"
    PROVE  Present(e, t, es)
<1> SUFFICES ASSUME e \notin es PROVE e.adds \subseteq t /\ e.older \cap t = {}
  BY DEF Present
<1>1. e.older \cap Laid(t, es) = {} /\ Own(e) \cap Laid(t, es) /= {}
  BY DEF Verdict
<1>2. e.older \cap t = {}
  BY <1>1, OlderIsLaid
<1>3. Own(e) \cap t /= {}
  BY <1>1, OwnIsOfTree
<1> QED
  BY <1>2, <1>3 DEF Known

(* An edit whose anchors stand and that is not half there is not refused   *)
(* in upstream text the repository knows.                                  *)
LEMMA NothingToRefuse ==
    ASSUME NEW t, Spoilt(t) = {}, NEW es \in SUBSET AllEdits, NEW e \in AllEdits, Known(e, t),
           drift = {},
           e.needs \subseteq AddsOf(es), Spoilt(AddsOf(es)) \cap e.needs = {},
           Spoilt(AddsOf(es)) \cap e.adds = {},
           e.bars \cap t = {}, e.bars \cap AddsOf(es) = {},
           e.check = "fresh" => Own(e) \cap t = {} /\ e \notin es
    PROVE  Verdict(e, Laid(t, es)) /= "die"
<1> DEFINE now == Laid(t, es)
<1>1. AddsOf(es) \subseteq Plain(t, es)
  BY DEF Plain
<1>2. e.needs \subseteq now
  BY <1>1, InLaid
<1>3. e.bars \cap now = {}
  BY InLaid DEF Plain
<1>4. e.file \notin drift
  OBVIOUS
<1>5. ASSUME e.older \cap now = {}, Own(e) \cap now /= {} PROVE e.check /= "fresh" /\ Own(e) \subseteq now
  <2>1. e.check /= "fresh"
    BY <1>5, OwnIsOfTree
  <2>2. CASE e \in es
    <3>1. e.adds \subseteq Plain(t, es)
      BY <1>1, <2>2, InAdds
    <3> QED
      BY <2>1, <3>1, InLaid DEF Own
  <2>3. CASE e \notin es
    <3>1. e.older \cap t = {} /\ Own(e) \cap t /= {}
      BY <1>5, <2>3, OlderIsLaid, OwnIsOfTree
    <3>2. e.adds \subseteq t
      BY <3>1 DEF Known
    <3>3. \A d \in es : e.adds \cap d.older = {}
      BY EditsAssumption
    <3>4. e.adds \subseteq Plain(t, es)
      BY <3>2, <3>3, InPlain
    <3> QED
      BY <2>1, <3>4, InLaid DEF Own
  <2> QED
    BY <2>2, <2>3
<1>6. e.check \in {"verbatim", "marker", "fresh", "rewrite"}
  BY EditsAssumption
<1> HIDE DEF now
<1>7. Verdict(e, now) /= "die"
  <2>1. CASE e.older \cap now /= {} \/ Own(e) \cap now = {}
    BY <1>2, <1>3, <1>4, <2>1 DEF Verdict
  <2>2. CASE e.older \cap now = {} /\ Own(e) \cap now /= {}
    BY <1>5, <1>6, <2>2 DEF Verdict
  <2> QED
    BY <2>1, <2>2
<1> QED
  BY <1>7 DEF now

LEMMA AbsentIsApplied ==
    ASSUME NEW t, Spoilt(t) = {}, NEW es \in SUBSET AllEdits, NEW e \in AllEdits,
           Own(e) \cap t = {}, e \notin es
    PROVE  Verdict(e, Laid(t, es)) /= "already"
<1>1. Own(e) \cap Laid(t, es) = {}
  BY OwnIsOfTree
<1> QED
  BY <1>1 DEF Verdict

-----------------------------------------------------------------------------
(* Scripts and how far they have come.                                     *)

LEMMA EditOfOrder ==
    ASSUME NEW o \in Orders, NEW p \in 1..Len(o), NEW k \in 1..Len(o[p].edits)
    PROVE  o[p].edits[k] \in AllEdits /\ o[p].edits[k] \in EditsOf({o[p]})
           /\ o[p].edits[k] \in EditsOf(InstallersOf(o))
  BY DEF AllEdits, EditsOf, InstallersOf

LEMMA InEdits ==
    ASSUME NEW is, NEW e
    PROVE  e \in EditsOf(is) <=> \E i \in is : \E k \in 1..Len(i.edits) : e = i.edits[k]
  BY DEF EditsOf

(* The edits laid by the script at installer p after n files.              *)
DoneAt(o, f, p, n) == Installed(o, f, p - 1) \cup {o[p].edits[k] : k \in 1..n}

LEMMA InInstalled ==
    ASSUME NEW o, NEW f, NEW n, NEW e
    PROVE  e \in Installed(o, f, n) <=>
             \E j \in 1..n : Enabled(o[j], f) /\ \E k \in 1..Len(o[j].edits) : e = o[j].edits[k]
  BY InEdits DEF Installed

LEMMA DoneAtFirst ==
    ASSUME NEW o, NEW f
    PROVE  DoneAt(o, f, 1, 0) = {}
  BY InInstalled DEF DoneAt

LEMMA DoneAtNextFile ==
    ASSUME NEW o, NEW f, NEW p, NEW n \in Nat
    PROVE  DoneAt(o, f, p, n + 1) = DoneAt(o, f, p, n) \cup {o[p].edits[n + 1]}
<1>1. {o[p].edits[k] : k \in 1..(n + 1)} = {o[p].edits[k] : k \in 1..n} \cup {o[p].edits[n + 1]}
  <2>1. 1..(n + 1) = 1..n \cup {n + 1}
    OBVIOUS
  <2> QED
    BY <2>1
<1> QED
  BY <1>1 DEF DoneAt

LEMMA DoneAtNext ==
    ASSUME NEW o, NEW f, NEW p \in Nat \ {0}
    PROVE  /\ Enabled(o[p], f) => DoneAt(o, f, p + 1, 0) = DoneAt(o, f, p, Len(o[p].edits))
           /\ ~Enabled(o[p], f) => DoneAt(o, f, p + 1, 0) = DoneAt(o, f, p, 0)
<1>1. (p + 1) - 1 = p /\ 1..p = 1..(p - 1) \cup {p}
  OBVIOUS
<1>2. \A n : DoneAt(o, f, n, 0) = Installed(o, f, n - 1)
  BY DEF DoneAt
<1>3. DoneAt(o, f, p + 1, 0) = Installed(o, f, p)
  BY <1>1, <1>2
<1>4. \A e : e \in Installed(o, f, p) <=>
        \/ e \in Installed(o, f, p - 1)
        \/ Enabled(o[p], f) /\ \E k \in 1..Len(o[p].edits) : e = o[p].edits[k]
  BY <1>1, InInstalled
<1>5. ASSUME Enabled(o[p], f) PROVE DoneAt(o, f, p + 1, 0) = DoneAt(o, f, p, Len(o[p].edits))
  <2>1. \A e : e \in Installed(o, f, p) <=> e \in DoneAt(o, f, p, Len(o[p].edits))
    BY <1>4, <1>5 DEF DoneAt
  <2> QED
    BY <1>3, <1>5, <2>1
<1>6. ASSUME ~Enabled(o[p], f) PROVE DoneAt(o, f, p + 1, 0) = DoneAt(o, f, p, 0)
  <2>1. \A e : e \in Installed(o, f, p) <=> e \in Installed(o, f, p - 1)
    BY <1>4, <1>6
  <2> QED
    BY <1>2, <1>3, <1>6, <2>1
<1> QED
  BY <1>5, <1>6

LEMMA DoneIsBefore ==
    ASSUME NEW o \in Orders, NEW f, NEW p \in 1..(Len(o) + 1), NEW n \in Nat,
           p <= Len(o) => n <= Len(o[p].edits), p > Len(o) => n = 0
    PROVE  /\ DoneAt(o, f, p, n) \subseteq Before(o, p, n)
           /\ DoneAt(o, f, p, n) \in SUBSET AllEdits
<1>0. Len(o) \in Nat
  BY OrderFacts
<1>1. \A e : e \in Installed(o, f, p - 1) => \E j \in 1..(p - 1) : \E k \in 1..Len(o[j].edits) : e = o[j].edits[k]
  BY InInstalled
<1>2. \A e : e \in Installed(o, f, p - 1) => e \in EditsOf({o[k] : k \in 1..(p - 1)})
  <2>1. SUFFICES ASSUME NEW e, e \in Installed(o, f, p - 1) PROVE e \in EditsOf({o[k] : k \in 1..(p - 1)})
    OBVIOUS
  <2>2. PICK j \in 1..(p - 1) : \E k \in 1..Len(o[j].edits) : e = o[j].edits[k]
    BY <1>1, <2>1
  <2>3. o[j] \in {o[q] : q \in 1..(p - 1)}
    BY <2>2
  <2> QED
    BY <2>2, <2>3, InEdits
<1>3. Installed(o, f, p - 1) \subseteq AllEdits
  <2>1. SUFFICES ASSUME NEW e, e \in Installed(o, f, p - 1) PROVE e \in AllEdits
    OBVIOUS
  <2>2. PICK j \in 1..(p - 1) : \E k \in 1..Len(o[j].edits) : e = o[j].edits[k]
    BY <1>1, <2>1
  <2>3. j \in 1..Len(o)
    BY <1>0, <2>2
  <2> QED
    BY <2>2, <2>3, EditOfOrder
<1>4. {o[p].edits[k] : k \in 1..n} \subseteq AllEdits
  <2>1. CASE p > Len(o)
    BY <2>1
  <2>2. CASE p <= Len(o)
    <3>1. p \in 1..Len(o) /\ 1..n \subseteq 1..Len(o[p].edits)
      BY <1>0, <2>2, OrderFacts
    <3> QED
      BY <3>1, EditOfOrder
  <2> QED
    BY <1>0, <2>1, <2>2
<1> QED
  BY <1>2, <1>3, <1>4 DEF DoneAt, Before

(* All of an order whose installers are all enabled, and the wanted edits. *)
LEMMA DoneAtEnd ==
    ASSUME NEW o \in Orders, NEW f
    PROVE  /\ DoneAt(o, f, Len(o) + 1, 0) = EditsOf({i \in InstallersOf(o) : Enabled(i, f)})
           /\ (\A i \in InstallersOf(o) : Enabled(i, f))
                => DoneAt(o, f, Len(o) + 1, 0) = EditsOf(InstallersOf(o))
<1>1. Len(o) \in Nat /\ (Len(o) + 1) - 1 = Len(o)
  BY OrderFacts
<1>2. DoneAt(o, f, Len(o) + 1, 0) = Installed(o, f, Len(o))
  BY <1>1 DEF DoneAt
<1>3. {o[k] : k \in {j \in 1..Len(o) : Enabled(o[j], f)}} = {i \in InstallersOf(o) : Enabled(i, f)}
  BY DEF InstallersOf
<1>4. (\A i \in InstallersOf(o) : Enabled(i, f)) => {i \in InstallersOf(o) : Enabled(i, f)} = InstallersOf(o)
  OBVIOUS
<1> QED
  BY <1>2, <1>3, <1>4 DEF Installed

LEMMA AddsGrow ==
    ASSUME NEW es, NEW fs, es \subseteq fs
    PROVE  AddsOf(es) \subseteq AddsOf(fs) /\ Spoilt(AddsOf(es)) \subseteq Spoilt(AddsOf(fs))
<1>1. AddsOf(es) \subseteq AddsOf(fs)
  BY InAdds
<1> QED
  BY <1>1, InSpoilt

-----------------------------------------------------------------------------
(* Images.                                                                 *)

LEMMA ScriptsHaveOrders == \A s \in Scripts : OrderOf(s) \in Orders
  BY DEF Orders

LEMMA RecipeIsScript ==
    ASSUME NEW s \in DOMAIN Recipes
    PROVE  s \in Scripts /\ s /= "boot" /\ OrderOf(s) = Recipes[s].order
  BY OrdersAssumption DEF Scripts, OrderOf

LEMMA SpoilsLess ==
    ASSUME NEW S, NEW T, S \subseteq T, Spoilt(T) = {}
    PROVE  Spoilt(S) = {}
  BY InSpoilt

(* The tree a script starts from has what the image has.                   *)
LEMMA OriginIsSound ==
    ASSUME NEW img, Sound(img), NEW s \in Scripts
    PROVE  /\ Spoilt(Origin(s, img)) = {}
           /\ \A e \in AllEdits : Known(e, Origin(s, img))
           /\ Origin(s, img) \cap Unwelcome(OrderOf(s)) = {}
<1>1. Origin(s, img) \subseteq img
  BY DEF Origin
<1>2. Spoilt(Origin(s, img)) = {}
  BY <1>1, SpoilsLess DEF Sound
<1>3. ASSUME NEW e \in AllEdits PROVE Known(e, Origin(s, img))
  <2>1. Known(e, img)
    BY DEF Sound
  <2>2. CASE s = "boot"
    BY <2>1, <2>2 DEF Origin
  <2>3. CASE s /= "boot"
    <3>1. s \in DOMAIN Recipes
      BY <2>3 DEF Scripts
    <3>2. CASE Recipes[s].fromBase
      <4>1. Origin(s, img) = {}
        BY <2>3, <3>2 DEF Origin
      <4> QED
        BY <4>1 DEF Known
    <3>3. CASE ~Recipes[s].fromBase
      <4>1. Origin(s, img) = img \ Recipes[s].refetched
        BY <2>3, <3>3 DEF Origin
      <4>2. \/ e.adds \cup e.older \subseteq Recipes[s].refetched
            \/ (e.adds \cup e.older) \cap Recipes[s].refetched = {}
        BY <3>1, RecipesAssumption
      <4> QED
        BY <2>1, <4>1, <4>2 DEF Known, Own
    <3> QED
      BY <3>1, <3>2, <3>3, RecipesAssumption
  <2> QED
    BY <2>2, <2>3
<1>4. Origin(s, img) \cap Unwelcome(OrderOf(s)) = {}
  BY DEF Sound
<1> QED
  BY <1>2, <1>3, <1>4

(* A build gives an image that scripts can start from, which is the full   *)
(* one or holds all of the image under it.                                 *)
LEMMA BuiltIsSound ==
    ASSUME NEW img, Sound(img), NEW s \in DOMAIN Recipes,
           NEW es, es = EditsOf(InstallersOf(Recipes[s].order)),
           NEW new, new = Laid(Origin(s, img), es)
    PROVE  Sound(new) /\ (new = Full \/ img \subseteq new)
<1> DEFINE t == Origin(s, img)
<1>1. /\ s \in Scripts /\ s /= "boot" /\ OrderOf(s) = Recipes[s].order /\ OrderOf(s) \in Orders
  BY RecipeIsScript, ScriptsHaveOrders
<1>2. Spoilt(t) = {} /\ \A e \in AllEdits : Known(e, t)
  BY <1>1, OriginIsSound
<1>3. /\ Spoilt(AddsOf(es)) = {}
      /\ Recipes[s].fromBase \in BOOLEAN
      /\ Recipes[s].fromBase => AddsOf(es) = Full
      /\ ~Recipes[s].fromBase => Recipes[s].refetched \subseteq AddsOf(es) /\ \A e \in es : e.older = {}
      /\ \A q \in Scripts : Origin(q, AddsOf(es)) \cap Unwelcome(OrderOf(q)) = {}
  BY RecipesAssumption
<1>4. es \in SUBSET AllEdits
  BY <1>1 DEF AllEdits
<1> HIDE DEF t
<1>5. new = Plain(t, es)
  BY <1>2, <1>3, LaidIsPlain, PlainSpoils DEF t
<1>6. new \subseteq img \cup AddsOf(es)
  BY <1>5 DEF Plain, t, Origin
<1>7. Spoilt(new) = {}
  <2>1. \A x : \A y \in img : x \notin Spoils(y)
    BY InSpoilt DEF Sound
  <2>2. \A x : \A y \in AddsOf(es) : x \notin Spoils(y)
    BY <1>3, InSpoilt
  <2> QED
    BY <1>6, <2>1, <2>2, InSpoilt
<1>8. ASSUME NEW e \in AllEdits PROVE Known(e, new)
  <2>1. CASE e \in es
    <3>1. e.adds \subseteq new
      BY <1>5, <2>1, InPlain
    <3> QED
      BY <3>1 DEF Known
  <2>2. CASE e \notin es
    <3>1. new = Laid(t, es)
      BY DEF t
    <3>2. e.older \cap new = e.older \cap t /\ Own(e) \cap new \subseteq t
      BY <1>2, <1>4, <2>2, <3>1, OlderIsLaid, OwnIsOfTree
    <3>3. \A d \in es : e.adds \cap d.older = {}
      BY <1>4, EditsAssumption
    <3>4. e.adds \subseteq t => e.adds \subseteq new
      BY <1>5, <3>3, InPlain
    <3> QED
      BY <1>2, <3>2, <3>4 DEF Known
  <2> QED
    BY <2>1, <2>2
<1>9. ASSUME NEW q \in Scripts PROVE Origin(q, new) \cap Unwelcome(OrderOf(q)) = {}
  <2>1. Origin(q, new) \subseteq Origin(q, img) \cup Origin(q, AddsOf(es))
    BY <1>6 DEF Origin
  <2>2. Origin(q, img) \cap Unwelcome(OrderOf(q)) = {}
    BY DEF Sound
  <2> QED
    BY <1>3, <2>1, <2>2
<1>10. Sound(new)
  BY <1>7, <1>8, <1>9 DEF Sound
<1>11. CASE Recipes[s].fromBase
  <2>1. t = {}
    BY <1>1, <1>11 DEF t, Origin
  <2>2. new = AddsOf(es)
    BY <1>5, <2>1 DEF Plain
  <2> QED
    BY <1>3, <1>10, <1>11, <2>2
<1>12. CASE ~Recipes[s].fromBase
  <2>1. t = img \ Recipes[s].refetched
    BY <1>1, <1>12 DEF t, Origin
  <2>2. \A x \in t : x \in new
    BY <1>3, <1>5, <1>12, InPlain
  <2>3. AddsOf(es) \subseteq new
    BY <1>5 DEF Plain
  <2>4. img \subseteq new
    BY <1>3, <1>12, <2>1, <2>2, <2>3
  <2> QED
    BY <1>10, <2>4
<1> QED
  BY <1>3, <1>11, <1>12

-----------------------------------------------------------------------------
(* The invariant: the container's tree is what the edits done so far make  *)
(* of the tree its script started from.                                    *)

Tree == Origin(script, image)
Done == DoneAt(order, flags, pc, at)

TextIsLaid == job /= "none" => text = Laid(Tree, Done)

(* An installer that has prepared or written is enabled.                   *)
BegunIsEnabled == at > 0 \/ plan /= NoPlan => pc <= Len(order) /\ Enabled(order[pc], flags)

(* What the plan leaves alone is complete.                                 *)
PlanIsRight ==
    plan /= NoPlan =>
        \A k \in 1..Len(order[pc].edits) : k \notin plan => Present(order[pc].edits[k], Tree, Done)

JobIsOfScript ==
    /\ job \in {"boot", "serving"} => script = "boot"
    /\ job = "build" => script \in DOMAIN Recipes
    /\ script \in DOMAIN Recipes => flags = Recipes[script].flags
    /\ job /= "none" /\ script = "boot" => flags \in FlagSets

LaidInv == IInv /\ Sound(image) /\ JobIsOfScript /\ TextIsLaid /\ BegunIsEnabled /\ PlanIsRight

(* What the invariant says of the running script.                          *)
LEMMA LaidFacts ==
    ASSUME LaidInv
    PROVE  /\ script \in Scripts /\ order \in Orders
           /\ Len(order) \in Nat /\ pc \in 1..(Len(order) + 1) /\ at \in Nat
           /\ Spoilt(Tree) = {}
           /\ \A e \in AllEdits : Known(e, Tree)
           /\ Tree \cap Unwelcome(order) = {}
<1>1. script \in Scripts
  BY DEF LaidInv, IInv, Placed, Scripts
<1>2. order \in Orders
  BY <1>1, ScriptsHaveOrders DEF order
<1>3. Len(order) \in Nat /\ pc \in 1..(Len(order) + 1) /\ at \in Nat
  BY <1>2, OrderFacts DEF LaidInv, IInv, TypeOK
<1> QED
  BY <1>1, <1>2, <1>3, OriginIsSound DEF LaidInv, Tree, order

(* The place of a running installer.                                       *)
LEMMA RunningFacts ==
    ASSUME LaidInv, Running
    PROVE  /\ pc \in 1..Len(order) /\ Len(order[pc].edits) \in Nat \ {0}
           /\ order[pc].preflight \in BOOLEAN
           /\ at + 1 \in 1..Len(order[pc].edits)
           /\ Done \in SUBSET AllEdits /\ Done \subseteq Before(order, pc, at)
           /\ text = Laid(Tree, Done)
<1>1. order \in Orders /\ Len(order) \in Nat /\ pc \in 1..Len(order) /\ at \in Nat
  BY LaidFacts DEF Running
<1>2. Len(order[pc].edits) \in Nat \ {0} /\ order[pc].preflight \in BOOLEAN
  BY <1>1, OrderFacts
<1>3. at < Len(order[pc].edits)
  BY DEF LaidInv, IInv, TypeOK, Running
<1>4. text = Laid(Tree, Done)
  BY DEF LaidInv, TextIsLaid, Running
<1>5. Done \in SUBSET AllEdits /\ Done \subseteq Before(order, pc, at)
  BY <1>1, <1>2, <1>3, DoneIsBefore DEF Done
<1> QED
  BY <1>1, <1>2, <1>3, <1>4, <1>5

LEMMA PresentGrows ==
    ASSUME NEW e, NEW t, NEW es, NEW fs, es \subseteq fs, Present(e, t, es)
    PROVE  Present(e, t, fs)
  BY DEF Present

(* One file more, written or rightly left alone.                           *)
LEMMA WriteStepKeepsLaid ==
    ASSUME LaidInv, Running, Enabled(order[pc], flags),
           NEW write \in BOOLEAN, WriteStep(order[pc].edits[at + 1], write),
           order[pc].preflight => plan /= NoPlan,
           write \/ Present(order[pc].edits[at + 1], Tree, Done)
    PROVE  LaidInv'
<1> DEFINE e == order[pc].edits[at + 1]
           more == DoneAt(order, flags, pc, at + 1)
<1>1. /\ order \in Orders /\ pc \in 1..Len(order) /\ at \in Nat /\ at + 1 \in 1..Len(order[pc].edits)
      /\ Len(order[pc].edits) \in Nat \ {0} /\ Len(order) \in Nat
      /\ Spoilt(Tree) = {} /\ Done \in SUBSET AllEdits /\ text = Laid(Tree, Done)
  BY LaidFacts, RunningFacts
<1>2. e \in AllEdits
  BY <1>1, EditOfOrder
<1>3. more = Done \cup {e}
  BY <1>1, DoneAtNextFile DEF Done
<1>4. more \subseteq Before(order, pc, at + 1)
  BY <1>1, DoneIsBefore
<1>5. Spoilt(AddsOf(Before(order, pc, at + 1))) \cap e.adds = {}
  BY <1>1, SpoilsAssumption
<1>6. Spoilt(AddsOf(more)) \cap e.adds = {}
  BY <1>4, <1>5, AddsGrow
<1>7. text' = Laid(Tree, more)
  <2>1. CASE write
    <3>1. text' = Patched(e, text)
      BY <2>1 DEF WriteStep
    <3> HIDE DEF e, more
    <3> QED
      BY <1>1, <1>2, <1>3, <1>6, <3>1, PatchedIsLaid
  <2>2. CASE ~write
    <3>1. text' = text
      BY <2>2 DEF WriteStep
    <3>2. Present(e, Tree, Done)
      BY <2>2
    <3> HIDE DEF e, more
    <3> QED
      BY <1>1, <1>2, <1>3, <3>1, <3>2, PresentIsLaid
  <2> QED
    BY <2>1, <2>2
<1>8. UNCHANGED <<image, drift, job, script, flags>>
  BY DEF WriteStep
<1>9. Tree' = Tree /\ order' = order
  BY <1>8 DEF Tree, order
<1>10. IInv' /\ Sound(image)' /\ JobIsOfScript'
  <2>1. IInv'
    BY WriteStepKeepsIInv DEF LaidInv
  <2>2. Sound(image)'
    BY <1>8 DEF LaidInv
  <2> QED
    BY <1>8, <2>1, <2>2 DEF LaidInv, JobIsOfScript
<1>11. CASE at + 1 = Len(order[pc].edits)
  <2>1. pc' = pc + 1 /\ at' = 0 /\ plan' = NoPlan
    BY <1>11 DEF WriteStep, NextInstaller
  <2>2. Done' = DoneAt(order, flags, pc + 1, 0)
    BY <1>8, <1>9, <2>1 DEF Done
  <2>3. Done' = more
    <3>1. pc \in Nat \ {0}
      BY <1>1
    <3>2. DoneAt(order, flags, pc + 1, 0) = DoneAt(order, flags, pc, Len(order[pc].edits))
      BY <3>1, DoneAtNext
    <3> QED
      BY <1>11, <2>2, <3>2
  <2>4. TextIsLaid'
    BY <1>7, <1>9, <2>3 DEF TextIsLaid
  <2>5. BegunIsEnabled' /\ PlanIsRight'
    BY <2>1 DEF BegunIsEnabled, PlanIsRight
  <2> QED
    BY <1>10, <2>4, <2>5 DEF LaidInv
<1>12. CASE at + 1 /= Len(order[pc].edits)
  <2>1. at' = at + 1 /\ pc' = pc /\ plan' = plan
    BY <1>12 DEF WriteStep
  <2>2. Done' = more
    BY <1>8, <1>9, <2>1 DEF Done
  <2>3. TextIsLaid'
    BY <1>7, <1>9, <2>2 DEF TextIsLaid
  <2>4. BegunIsEnabled'
    BY <1>1, <1>8, <1>9, <2>1 DEF BegunIsEnabled, Enabled
  <2>5. PlanIsRight'
    <3>1. Done \subseteq Done'
      BY <1>3, <2>2
    <3>2. SUFFICES ASSUME plan /= NoPlan, NEW k \in 1..Len(order[pc].edits), k \notin plan
                   PROVE  Present(order[pc].edits[k], Tree, Done')
      BY <1>9, <2>1 DEF PlanIsRight
    <3>3. Present(order[pc].edits[k], Tree, Done)
      BY <3>2 DEF LaidInv, PlanIsRight
    <3> QED
      BY <3>1, <3>3, PresentGrows
  <2> QED
    BY <1>10, <2>3, <2>4, <2>5 DEF LaidInv
<1> QED
  BY <1>11, <1>12

(* A fresh container holds the tree its script starts from.                *)
LEMMA BeginKeepsLaid ==
    ASSUME LaidInv, NEW f, NEW s \in Scripts, Begin(Origin(s, image), f, s),
           image' = image, job' \in {"build", "boot"},
           JobIsOfScript'
    PROVE  LaidInv'
<1>1. script' = s /\ flags' = f /\ text' = Origin(s, image) /\ pc' = 1 /\ at' = 0 /\ plan' = NoPlan
  BY DEF Begin
<1>2. IInv'
  BY BeginKeepsIInv DEF Scripts
<1>3. Sound(image)'
  BY DEF LaidInv
<1>4. Tree' = Origin(s, image)
  BY <1>1 DEF Tree
<1>5. Done' = {}
  BY <1>1, DoneAtFirst DEF Done
<1>6. Spoilt(Origin(s, image)) = {}
  BY OriginIsSound DEF LaidInv
<1>7. Laid(Origin(s, image), {}) = Origin(s, image)
  <2>1. Plain(Origin(s, image), {}) = Origin(s, image)
    BY DEF Plain, AddsOf
  <2> QED
    BY <1>6, <2>1, LaidIsPlain
<1>8. TextIsLaid'
  BY <1>1, <1>4, <1>5, <1>7 DEF TextIsLaid
<1>9. BegunIsEnabled' /\ PlanIsRight'
  BY <1>1 DEF BegunIsEnabled, PlanIsRight
<1> QED
  BY <1>2, <1>3, <1>8, <1>9 DEF LaidInv

(* No container is left.                                                   *)
LEMMA DiscardKeepsLaid ==
    ASSUME LaidInv, Discard, Sound(image')
    PROVE  LaidInv'
<1>1. job' = "none" /\ script' = "boot" /\ at' = 0 /\ plan' = NoPlan
  BY DEF Discard
<1>2. IInv'
  BY DiscardKeepsIInv
<1>3. JobIsOfScript'
  BY <1>1, OrdersAssumption DEF JobIsOfScript
<1>4. TextIsLaid' /\ BegunIsEnabled' /\ PlanIsRight'
  BY <1>1 DEF TextIsLaid, BegunIsEnabled, PlanIsRight
<1> QED
  BY <1>2, <1>3, <1>4 DEF LaidInv

(* The tree does not move.                                                 *)
LEMMA SameTree ==
    ASSUME UNCHANGED <<image, script, flags, pc, at>>
    PROVE  Tree' = Tree /\ order' = order /\ Done' = Done
<1>1. Tree' = Tree /\ order' = order
  BY DEF Tree, order
<1> QED
  BY <1>1 DEF Done

LEMMA UnwelcomeHolds ==
    ASSUME NEW o, NEW e \in EditsOf(InstallersOf(o))
    PROVE  /\ e.bars \subseteq Unwelcome(o)
           /\ e.check = "fresh" \/ e \in EditsOf({i \in InstallersOf(o) : i.unmixed})
                => Own(e) \subseteq Unwelcome(o)
<1> DEFINE es == EditsOf(InstallersOf(o))
           us == EditsOf({i \in InstallersOf(o) : i.unmixed})
           owns == {Own(d) : d \in {c \in es : c.check = "fresh"} \cup us}
           bars == {d.bars : d \in es}
<1>1. Unwelcome(o) = (UNION bars) \cup (UNION owns)
  BY DEF Unwelcome
<1>2. e.check = "fresh" \/ e \in us => Own(e) \in owns
  <2> HIDE DEF us
  <2> QED
    OBVIOUS
<1>3. e.bars \in bars
  OBVIOUS
<1> HIDE DEF owns, bars, us
<1>4. e.bars \subseteq Unwelcome(o)
  BY <1>1, <1>3
<1>5. e.check = "fresh" \/ e \in us => Own(e) \subseteq Unwelcome(o)
  BY <1>1, <1>2
<1> QED
  BY <1>4, <1>5 DEF us

(* No edit of an installer is refused when all it stands on was laid and   *)
(* upstream is known; an installer that looks at its files together finds  *)
(* none of them edited.                                                    *)
LEMMA GroundedIsPrepared ==
    ASSUME LaidInv, Running, Enabled(order[pc], flags), drift = {}, Grounded(order, flags),
           NEW k \in (at + 1)..Len(order[pc].edits)
    PROVE  /\ Verdict(order[pc].edits[k], text) /= "die"
           /\ order[pc].unmixed => Verdict(order[pc].edits[k], text) /= "already"
<1> DEFINE e == order[pc].edits[k]
<1>1. /\ order \in Orders /\ pc \in 1..Len(order) /\ at \in Nat /\ Len(order) \in Nat
      /\ Len(order[pc].edits) \in Nat
      /\ Spoilt(Tree) = {} /\ Tree \cap Unwelcome(order) = {} /\ \A d \in AllEdits : Known(d, Tree)
      /\ Done \in SUBSET AllEdits /\ Done \subseteq Before(order, pc, at) /\ text = Laid(Tree, Done)
  BY LaidFacts, RunningFacts
<1>2. k \in 1..Len(order[pc].edits) /\ k - 1 >= at
  BY <1>1
<1>3. e \in AllEdits /\ e \in EditsOf({order[pc]}) /\ e \in EditsOf(InstallersOf(order))
  BY <1>1, <1>2, EditOfOrder
<1>4. Done \subseteq Before(order, pc, k - 1) /\ Done \subseteq Before(order, pc, k)
  <2>1. 1..at \subseteq 1..(k - 1) /\ 1..at \subseteq 1..k
    BY <1>1, <1>2
  <2> QED
    BY <1>1, <2>1 DEF Before
<1>5. /\ Spoilt(AddsOf(Before(order, pc, k))) \cap e.adds = {}
      /\ Spoilt(AddsOf(Before(order, pc, k - 1))) \cap e.needs = {}
  BY <1>1, <1>2, SpoilsAssumption
<1>6. /\ AddsOf(Before(order, pc, k - 1)) \cap e.bars = {}
      /\ e.check = "fresh" \/ order[pc].unmixed => e \notin Before(order, pc, k - 1)
  BY <1>1, <1>2, AnchorsAssumption
<1>7. e.needs \subseteq AddsOf(Done)
  <2>1. e.needs \subseteq AddsOf(Installed(order, flags, pc - 1))
    BY <1>1, <1>3 DEF Grounded
  <2>2. Installed(order, flags, pc - 1) \subseteq Done
    BY DEF Done, DoneAt
  <2> QED
    BY <2>1, <2>2, AddsGrow
<1>8. e.bars \subseteq Unwelcome(order)
  BY <1>3, UnwelcomeHolds
<1>9. e.check = "fresh" => Own(e) \subseteq Unwelcome(order)
  BY <1>3, UnwelcomeHolds
<1>10. order[pc].unmixed => Own(e) \subseteq Unwelcome(order)
  <2> SUFFICES ASSUME order[pc].unmixed PROVE Own(e) \subseteq Unwelcome(order)
    OBVIOUS
  <2>1. order[pc] \in {i \in InstallersOf(order) : i.unmixed}
    BY <1>1 DEF InstallersOf
  <2>2. e \in EditsOf({i \in InstallersOf(order) : i.unmixed})
    BY <1>2, <2>1, InEdits
  <2> QED
    BY <1>3, <2>2, UnwelcomeHolds
<1> HIDE DEF e
<1>11. /\ Spoilt(AddsOf(Done)) \cap e.adds = {} /\ Spoilt(AddsOf(Done)) \cap e.needs = {}
       /\ e.bars \cap AddsOf(Done) = {}
  BY <1>4, <1>5, <1>6, AddsGrow
<1>12. e.bars \cap Tree = {} /\ (e.check = "fresh" => Own(e) \cap Tree = {} /\ e \notin Done)
  BY <1>1, <1>4, <1>6, <1>8, <1>9
<1>13. Verdict(e, text) /= "die"
  BY <1>1, <1>3, <1>7, <1>11, <1>12, NothingToRefuse
<1>14. ASSUME order[pc].unmixed PROVE Verdict(e, text) /= "already"
  <2>1. Own(e) \cap Tree = {} /\ e \notin Done
    BY <1>1, <1>4, <1>6, <1>10, <1>14
  <2> QED
    BY <1>1, <1>3, <2>1, AbsentIsApplied
<1> QED
  BY <1>13, <1>14 DEF e

Caused == job = "refused" => drift /= {} \/ ~Grounded(order, flags)

LEMMA RefuseIsCaused ==
    ASSUME LaidInv, Refuse
    PROVE  Caused'
<1>1. UNCHANGED <<drift, script, flags>> /\ Running /\ plan = NoPlan /\ Enabled(order[pc], flags)
  BY DEF Refuse
<1>2. order' = order
  BY <1>1 DEF order
<1>3. SUFFICES ASSUME drift = {}, Grounded(order, flags) PROVE FALSE
  <2>1. Grounded(order, flags)' <=> Grounded(order, flags)
    BY <1>1, <1>2
  <2> QED
    BY <1>1, <2>1 DEF Caused
<1>4. /\ pc \in 1..Len(order) /\ Len(order[pc].edits) \in Nat \ {0} /\ at \in Nat
      /\ order[pc].preflight \in BOOLEAN /\ at + 1 \in 1..Len(order[pc].edits)
      /\ order \in Orders /\ Len(order) \in Nat
  BY <1>1, LaidFacts, RunningFacts
<1>5. CASE order[pc].preflight
  <2>1. at = 0
    BY <1>1, <1>4, <1>5 DEF LaidInv, IInv, WritesFollowThePlan
  <2>2. \A k \in 1..Len(order[pc].edits) :
          /\ Verdict(order[pc].edits[k], text) /= "die"
          /\ order[pc].unmixed => Verdict(order[pc].edits[k], text) /= "already"
    BY <1>1, <1>3, <2>1, GroundedIsPrepared
  <2>3. \A k \in 1..Len(order[pc].edits) :
          Verdict(order[pc].edits[k], text) \in {"apply", "already", "die"}
    BY VerdictIsOne
  <2>4. Prepares(order[pc], text)
    BY <2>2, <2>3 DEF Prepares, Verdicts
  <2> QED
    BY <1>5, <2>4 DEF Refuse
<1>6. CASE ~order[pc].preflight
  <2>1. at + 1 \in (at + 1)..Len(order[pc].edits)
    BY <1>4
  <2>2. Verdict(order[pc].edits[at + 1], text) /= "die"
    BY <1>1, <1>3, <2>1, GroundedIsPrepared
  <2> QED
    BY <1>6, <2>2 DEF Refuse
<1> QED
  BY <1>4, <1>5, <1>6

LEMMA InitIsLaid == Init => LaidInv /\ Caused
<1> SUFFICES ASSUME Init PROVE LaidInv /\ Caused
  OBVIOUS
<1>1. job = "none" /\ script = "boot" /\ at = 0 /\ plan = NoPlan /\ image \in Images
  BY DEF Init
<1>2. Sound(image)
  BY <1>1, ImagesAssumption
<1>3. JobIsOfScript
  BY <1>1, OrdersAssumption DEF JobIsOfScript
<1>4. TextIsLaid /\ BegunIsEnabled /\ PlanIsRight /\ Caused
  BY <1>1 DEF TextIsLaid, BegunIsEnabled, PlanIsRight, Caused
<1> QED
  BY <1>2, <1>3, <1>4, InitIsIInv DEF LaidInv

(* When a build is done its tree is the image its recipe is meant to make. *)
LEMMA TagPublishes ==
    ASSUME LaidInv, Tag
    PROVE  Sound(image') /\ (image' = Full \/ image \subseteq image')
<1>1. job = "build" /\ pc > Len(order) /\ image' = text
  BY DEF Tag
<1>2. /\ script \in DOMAIN Recipes /\ flags = Recipes[script].flags
      /\ text = Laid(Tree, Done) /\ Sound(image)
  BY <1>1 DEF LaidInv, JobIsOfScript, TextIsLaid
<1>3. order \in Orders /\ Len(order) \in Nat /\ pc = Len(order) + 1
  BY <1>1, LaidFacts
<1>4. at = 0
  BY <1>1, <1>3, LaidFacts DEF LaidInv, BegunIsEnabled
<1>5. order = Recipes[script].order
  BY <1>2, RecipeIsScript DEF order
<1>6. \A i \in InstallersOf(order) : Enabled(i, flags)
  BY <1>2, <1>5, RecipesAssumption
<1>7. Done = EditsOf(InstallersOf(order))
  BY <1>3, <1>4, <1>6, DoneAtEnd DEF Done
<1>8. image' = Laid(Origin(script, image), EditsOf(InstallersOf(Recipes[script].order)))
  BY <1>1, <1>2, <1>5, <1>7 DEF Tree
<1> QED
  BY <1>2, <1>8, BuiltIsSound

(* A container that is about to serve holds the wanted text.               *)
LEMMA ServesTheWanted ==
    ASSUME LaidInv, Serve
    PROVE  text' = Wanted(image, flags)
<1>1. job = "boot" /\ pc > Len(order) /\ text' = text
  BY DEF Serve
<1>2. script = "boot" /\ text = Laid(Tree, Done)
  BY <1>1 DEF LaidInv, JobIsOfScript, TextIsLaid
<1>3. order \in Orders /\ Len(order) \in Nat /\ pc = Len(order) + 1
  BY <1>1, LaidFacts
<1>4. at = 0
  BY <1>1, <1>3, LaidFacts DEF LaidInv, BegunIsEnabled
<1>5. order = Boot /\ Tree = image
  BY <1>2 DEF order, OrderOf, Tree, Origin
<1>6. Done = EditsOf({i \in InstallersOf(Boot) : Enabled(i, flags)})
  BY <1>3, <1>4, <1>5, DoneAtEnd DEF Done
<1> QED
  BY <1>1, <1>2, <1>5, <1>6 DEF Wanted

LEMMA StepKeepsLaid == LaidInv /\ Caused /\ [Next]_vars => LaidInv' /\ Caused'
<1> SUFFICES ASSUME LaidInv, Caused, [Next]_vars PROVE LaidInv' /\ Caused'
  OBVIOUS
<1>1. ASSUME NEW f \in FlagSets, Launch(f) PROVE LaidInv' /\ Caused'
  <2>1. job' = "boot" /\ image' = image /\ Begin(image, f, "boot")
    BY <1>1 DEF Launch
  <2>2. "boot" \in Scripts /\ Origin("boot", image) = image
    BY DEF Scripts, Origin
  <2>3. script' = "boot" /\ flags' = f
    BY <2>1 DEF Begin
  <2>4. JobIsOfScript'
    BY <2>1, <2>3, OrdersAssumption DEF JobIsOfScript
  <2> QED
    BY <2>1, <2>2, <2>4, BeginKeepsLaid DEF Caused
<1>2. ASSUME NEW s \in DOMAIN Recipes, Build(s) PROVE LaidInv' /\ Caused'
  <2>1. s \in Scripts /\ s /= "boot"
    BY RecipeIsScript
  <2>2. job' = "build" /\ image' = image /\ Begin(Origin(s, image), Recipes[s].flags, s)
    BY <1>2, <2>1 DEF Build, Origin
  <2>3. script' = s /\ flags' = Recipes[s].flags
    BY <2>2 DEF Begin
  <2>4. JobIsOfScript'
    BY <2>1, <2>2, <2>3 DEF JobIsOfScript
  <2> QED
    BY <2>1, <2>2, <2>4, BeginKeepsLaid DEF Caused
<1>3. CASE SkipInstaller
  <2>1. /\ Running /\ at = 0 /\ ~Enabled(order[pc], flags) /\ NextInstaller
        /\ UNCHANGED <<image, drift, job, script, flags, text>> /\ base' = text
    BY <1>3 DEF SkipInstaller
  <2>2. pc' = pc + 1 /\ at' = 0 /\ plan' = NoPlan
    BY <2>1 DEF NextInstaller
  <2>3. Tree' = Tree /\ order' = order
    BY <2>1 DEF Tree, order
  <2>4. IInv'
    BY <2>1, NextInstallerKeepsIInv DEF LaidInv
  <2>5. pc \in Nat \ {0}
    BY <2>1, LaidFacts
  <2>6. DoneAt(order, flags, pc + 1, 0) = DoneAt(order, flags, pc, 0)
    BY <2>1, <2>5, DoneAtNext
  <2>7. Done' = Done
    BY <2>1, <2>2, <2>3, <2>6 DEF Done
  <2>8. TextIsLaid'
    BY <2>1, <2>3, <2>7 DEF LaidInv, TextIsLaid
  <2>9. BegunIsEnabled' /\ PlanIsRight'
    BY <2>2 DEF BegunIsEnabled, PlanIsRight
  <2>10. Sound(image)' /\ JobIsOfScript'
    <3>1. Sound(image)'
      BY <2>1 DEF LaidInv
    <3> QED
      BY <2>1, <3>1 DEF LaidInv, JobIsOfScript
  <2>11. Caused'
    BY <2>1 DEF Caused, Running
  <2> QED
    BY <2>4, <2>8, <2>9, <2>10, <2>11 DEF LaidInv
<1>4. CASE Preflight
  <2>1. /\ Running /\ at = 0 /\ Enabled(order[pc], flags) /\ Prepares(order[pc], text)
        /\ plan' = {k \in 1..Len(order[pc].edits) : Verdict(order[pc].edits[k], text) = "apply"}
        /\ UNCHANGED <<image, drift, job, script, flags, pc, at, text, base>>
    BY <1>4 DEF Preflight
  <2>2. Tree' = Tree /\ order' = order /\ Done' = Done
    BY <2>1, SameTree
  <2>3. IInv'
    BY StepKeepsIInv, <1>4 DEF LaidInv, Next, Step
  <2>4. TextIsLaid'
    BY <2>1, <2>2 DEF LaidInv, TextIsLaid
  <2>5. BegunIsEnabled'
    BY <2>1, <2>2 DEF BegunIsEnabled, Running, Enabled
  <2>6. PlanIsRight'
    <3>1. SUFFICES ASSUME NEW k \in 1..Len(order[pc].edits), k \notin plan'
                   PROVE  Present(order[pc].edits[k], Tree, Done)
      BY <2>1, <2>2 DEF PlanIsRight
    <3>2. Verdict(order[pc].edits[k], text) /= "die"
      BY <2>1, <3>1 DEF Prepares, Verdicts
    <3>3. Verdict(order[pc].edits[k], text) = "already"
      BY <2>1, <3>1, <3>2, VerdictIsOne
    <3>4. /\ order \in Orders /\ pc \in 1..Len(order) /\ Spoilt(Tree) = {}
          /\ \A d \in AllEdits : Known(d, Tree)
          /\ Done \in SUBSET AllEdits /\ text = Laid(Tree, Done)
      BY <2>1, LaidFacts, RunningFacts
    <3>5. order[pc].edits[k] \in AllEdits
      BY <3>1, <3>4, EditOfOrder
    <3> QED
      BY <3>3, <3>4, <3>5, AlreadyIsPresent
  <2>7. Sound(image)' /\ JobIsOfScript'
    <3>1. Sound(image)'
      BY <2>1 DEF LaidInv
    <3> QED
      BY <2>1, <3>1 DEF LaidInv, JobIsOfScript
  <2>8. Caused'
    BY <2>1 DEF Caused, Running
  <2> QED
    BY <2>3, <2>4, <2>5, <2>6, <2>7, <2>8 DEF LaidInv
<1>5. CASE WritePrepared
  <2>1. Running /\ plan /= NoPlan /\ WriteStep(order[pc].edits[at + 1], at + 1 \in plan)
    BY <1>5 DEF WritePrepared
  <2>2. Enabled(order[pc], flags)
    BY <2>1 DEF LaidInv, BegunIsEnabled
  <2>3. at + 1 \in plan \/ Present(order[pc].edits[at + 1], Tree, Done)
    BY <2>1, RunningFacts DEF LaidInv, PlanIsRight
  <2>4. LaidInv'
    <3> DEFINE write == at + 1 \in plan
    <3>1. write \in BOOLEAN
      OBVIOUS
    <3>2. WriteStep(order[pc].edits[at + 1], write) /\ (write \/ Present(order[pc].edits[at + 1], Tree, Done))
      BY <2>1, <2>3
    <3> HIDE DEF write
    <3> QED
      BY <2>1, <2>2, <3>1, <3>2, WriteStepKeepsLaid
  <2>5. Caused'
    BY <2>1 DEF Caused, Running, WriteStep
  <2> QED
    BY <2>4, <2>5
<1>6. CASE PrepareAndWrite
  <2> DEFINE e == order[pc].edits[at + 1]
  <2>1. /\ Running /\ Enabled(order[pc], flags) /\ ~order[pc].preflight
        /\ Verdict(e, text) /= "die" /\ WriteStep(e, Verdict(e, text) = "apply")
    BY <1>6 DEF PrepareAndWrite
  <2>2. /\ order \in Orders /\ pc \in 1..Len(order) /\ Spoilt(Tree) = {}
        /\ \A d \in AllEdits : Known(d, Tree)
        /\ Done \in SUBSET AllEdits /\ text = Laid(Tree, Done)
        /\ at + 1 \in 1..Len(order[pc].edits)
    BY <2>1, LaidFacts, RunningFacts
  <2>3. e \in AllEdits
    BY <2>2, EditOfOrder
  <2>4. Verdict(e, text) = "apply" \/ Present(e, Tree, Done)
    <3>1. Verdict(e, text) \in {"apply", "already", "die"}
      BY VerdictIsOne
    <3> HIDE DEF e
    <3> QED
      BY <2>1, <2>2, <2>3, <3>1, AlreadyIsPresent
  <2>5. LaidInv'
    BY <2>1, <2>4, WriteStepKeepsLaid
  <2>6. Caused'
    BY <2>1 DEF Caused, Running, WriteStep
  <2> QED
    BY <2>5, <2>6
<1>7. CASE Refuse
  <2>1. /\ UNCHANGED <<image, drift, script, flags, pc, at, plan, text, base>>
        /\ job' = "refused" /\ Running
    BY <1>7 DEF Refuse
  <2>2. Caused'
    BY <1>7, RefuseIsCaused
  <2>3. Tree' = Tree /\ order' = order /\ Done' = Done
    BY <2>1, SameTree
  <2>4. IInv'
    BY StepKeepsIInv, <1>7 DEF LaidInv, Next, Step
  <2>5. TextIsLaid' /\ BegunIsEnabled' /\ PlanIsRight'
    BY <2>1, <2>3 DEF LaidInv, TextIsLaid, BegunIsEnabled, PlanIsRight, Running, Enabled
  <2>6. Sound(image)'
    BY <2>1 DEF LaidInv
  <2>7. JobIsOfScript'
    BY <2>1 DEF LaidInv, JobIsOfScript, Running
  <2> QED
    BY <2>2, <2>4, <2>5, <2>6, <2>7 DEF LaidInv
<1>8. CASE Serve
  <2>1. /\ UNCHANGED <<image, drift, script, flags, pc, at, plan, text, base>>
        /\ job' = "serving" /\ job = "boot"
    BY <1>8 DEF Serve
  <2>2. Tree' = Tree /\ order' = order /\ Done' = Done
    BY <2>1, SameTree
  <2>3. IInv'
    BY StepKeepsIInv, <1>8 DEF LaidInv, Next, Step
  <2>4. TextIsLaid' /\ BegunIsEnabled' /\ PlanIsRight'
    BY <2>1, <2>2 DEF LaidInv, TextIsLaid, BegunIsEnabled, PlanIsRight, Enabled
  <2>5. Sound(image)'
    BY <2>1 DEF LaidInv
  <2>6. JobIsOfScript'
    BY <2>1 DEF LaidInv, JobIsOfScript
  <2>7. Caused'
    BY <2>1 DEF Caused
  <2> QED
    BY <2>3, <2>4, <2>5, <2>6, <2>7 DEF LaidInv
<1>9. CASE Tag
  <2>1. Discard /\ job' = "none"
    BY <1>9 DEF Tag, Discard
  <2>2. Sound(image')
    BY <1>9, TagPublishes
  <2> QED
    BY <2>1, <2>2, DiscardKeepsLaid DEF Caused
<1>10. CASE Remove
  <2>1. Discard /\ job' = "none" /\ image' = image
    BY <1>10 DEF Remove, Discard
  <2>2. Sound(image')
    BY <2>1 DEF LaidInv
  <2> QED
    BY <2>1, <2>2, DiscardKeepsLaid DEF Caused
<1>11. CASE UNCHANGED vars
  <2>1. UNCHANGED <<image, drift, job, script, flags, pc, at, plan, text, base>>
    BY <1>11 DEF vars
  <2>2. Tree' = Tree /\ order' = order /\ Done' = Done
    BY <2>1, SameTree
  <2>3. IInv'
    BY StepKeepsIInv DEF LaidInv
  <2>4. TextIsLaid' /\ BegunIsEnabled' /\ PlanIsRight'
    BY <2>1, <2>2 DEF LaidInv, TextIsLaid, BegunIsEnabled, PlanIsRight, Enabled
  <2>5. Sound(image)'
    BY <2>1 DEF LaidInv
  <2>6. JobIsOfScript'
    BY <2>1 DEF LaidInv, JobIsOfScript
  <2>7. Caused'
    BY <2>1, <2>2 DEF Caused
  <2> QED
    BY <2>3, <2>4, <2>5, <2>6, <2>7 DEF LaidInv
<1> QED
  BY <1>1, <1>2, <1>3, <1>4, <1>5, <1>6, <1>7, <1>8, <1>9, <1>10, <1>11 DEF Next, Step

-----------------------------------------------------------------------------
(* The contract, without its fairness: the initial states are the          *)
(* contract's, and every step is one of its steps or leaves what its user  *)
(* sees alone.  A container serves exactly the wanted text or nothing, and *)
(* a tagged build is the full image or holds all of the one under it,      *)
(* whatever image is there at first and whatever is killed, refused or     *)
(* built in between.                                                       *)
THEOREM ContractIsKept == Spec => Contract!Init /\ [][Contract!Next]_(Contract!vars)
<1>1. Init => Contract!Init
  BY DEF Init, Contract!Init, Phase
<1>2. LaidInv /\ [Next]_vars => [Contract!Next]_(Contract!vars)
  <2> SUFFICES ASSUME LaidInv, [Next]_vars PROVE [Contract!Next]_(Contract!vars)
    OBVIOUS
  <2>0. job \in {"none", "build", "boot", "serving", "refused"}
    BY DEF LaidInv, IInv, TypeOK
  <2>1. ASSUME NEW f \in FlagSets, Launch(f) PROVE Contract!Start
    BY <2>1 DEF Launch, Begin, Contract!Start, Phase
  <2>2. ASSUME NEW s \in DOMAIN Recipes, Build(s) PROVE UNCHANGED Contract!vars
    BY <2>2 DEF Build, Begin, Contract!vars, Phase
  <2>3. ASSUME Running, UNCHANGED <<image, job, script, flags>> PROVE UNCHANGED Contract!vars
    BY <2>3 DEF Running, Contract!vars, Phase
  <2>4. CASE SkipInstaller \/ Preflight \/ WritePrepared \/ PrepareAndWrite
    <3>1. Running /\ UNCHANGED <<image, job, script, flags>>
      BY <2>4 DEF SkipInstaller, Preflight, WritePrepared, PrepareAndWrite, WriteStep
    <3> QED
      BY <2>3, <3>1
  <2>5. CASE Refuse
    <3>1. job' = "refused" /\ UNCHANGED <<image, script, flags>> /\ job \in {"build", "boot"}
      BY <2>5 DEF Refuse, Running
    <3>2. CASE job = "boot"
      <4>1. script = "boot"
        BY <3>2 DEF LaidInv, JobIsOfScript
      <4>2. Contract!Fail
        BY <3>1, <3>2, <4>1 DEF Contract!Fail, Phase
      <4> QED
        BY <4>2 DEF Contract!Next
    <3>3. CASE job = "build"
      <4>1. script /= "boot"
        BY <3>3, OrdersAssumption DEF LaidInv, JobIsOfScript
      <4>2. UNCHANGED Contract!vars
        BY <3>1, <3>3, <4>1 DEF Contract!vars, Phase
      <4> QED
        BY <4>2
    <3> QED
      BY <3>1, <3>2, <3>3
  <2>6. CASE Serve
    <3>1. text' = Wanted(image, flags)
      BY <2>6, ServesTheWanted
    <3>2. job = "boot" /\ job' = "serving" /\ UNCHANGED <<image, script, flags>>
      BY <2>6 DEF Serve
    <3>3. Contract!Serve
      BY <3>1, <3>2 DEF Contract!Serve, Phase
    <3> QED
      BY <3>3 DEF Contract!Next
  <2>7. CASE Tag
    <3>1. image' = Full \/ image \subseteq image'
      BY <2>7, TagPublishes
    <3>2. job = "build" /\ job' = "none"
      BY <2>7 DEF Tag, Discard
    <3>3. Contract!Publish
      BY <3>1, <3>2 DEF Contract!Publish, Phase
    <3> QED
      BY <3>3 DEF Contract!Next
  <2>8. CASE Remove
    <3>1. job' = "none" /\ image' = image
      BY <2>8 DEF Remove, Discard
    <3>2. CASE Phase = "idle"
      <4>1. UNCHANGED Contract!vars
        BY <3>1, <3>2 DEF Contract!vars, Phase
      <4> QED
        BY <4>1
    <3>3. CASE Phase /= "idle"
      <4>1. Contract!Stop
        BY <3>1, <3>3 DEF Contract!Stop, Phase
      <4> QED
        BY <4>1 DEF Contract!Next
    <3> QED
      BY <3>2, <3>3
  <2>9. CASE UNCHANGED vars
    BY <2>9 DEF vars, Contract!vars, Phase
  <2> QED
    BY <2>1, <2>2, <2>4, <2>5, <2>6, <2>7, <2>8, <2>9 DEF Next, Step, Contract!Next
<1> QED
  BY <1>1, <1>2, InitIsLaid, StepKeepsLaid, PTL DEF Spec

(* A build is never without its ground, so a refusal without drift is a    *)
(* start's.                                                                *)
LEMMA CauseIsGround ==
    ASSUME LaidInv, Caused, job = "refused", drift = {}
    PROVE  script = "boot" /\ ~Grounded(Boot, flags)
<1>1. ~Grounded(order, flags)
  BY DEF Caused
<1>2. script = "boot"
  <2>1. SUFFICES ASSUME script /= "boot" PROVE FALSE
    OBVIOUS
  <2>2. script \in DOMAIN Recipes /\ flags = Recipes[script].flags
    BY <2>1, LaidFacts DEF Scripts, LaidInv, JobIsOfScript
  <2>3. Grounded(Recipes[script].order, Recipes[script].flags)
    BY <2>2, RecipesAssumption
  <2> QED
    BY <1>1, <2>1, <2>2, <2>3 DEF order, OrderOf
<1> QED
  BY <1>1, <1>2 DEF order, OrderOf

(* An installer refuses only upstream text it does not know, or an edit    *)
(* whose ground no enabled installer lays: never what an earlier           *)
(* installer, an earlier release or a build has left behind, and a build   *)
(* refuses nothing but unknown text.                                       *)
THEOREM RefusalIsCaused ==
    Spec => [](job = "refused" => drift /= {} \/ (script = "boot" /\ ~Grounded(Boot, flags)))
<1>1. LaidInv /\ Caused => (job = "refused" => drift /= {} \/ (script = "boot" /\ ~Grounded(Boot, flags)))
  BY CauseIsGround
<1> QED
  BY <1>1, InitIsLaid, StepKeepsLaid, PTL DEF Spec
=============================================================================
