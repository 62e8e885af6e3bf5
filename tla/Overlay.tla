------------------------------- MODULE Overlay -------------------------------
(***************************************************************************)
(* How the edits of overlay/ reach the code that serves: a Dockerfile runs *)
(* installers on a base image and tags the result; start.sh removes the    *)
(* old container, runs a fresh one from the tagged image, and its inner    *)
(* script runs every installer again (set -e) before `exec vllm serve`.    *)
(* An installer reads its files, decides for each one whether it is        *)
(* already edited, can be edited, or must be refused, and writes.  A       *)
(* process may die anywhere: what it wrote goes with its container.        *)
(*                                                                         *)
(* The installers themselves are the parameters Boot and Recipes; the ones *)
(* of this repository are in OverlayPatches.                               *)
(***************************************************************************)
EXTENDS Naturals, Sequences

CONSTANTS
    Boot,         \* installers the inner scripts run, in order
    Recipes,      \* what the Dockerfiles run, by name
    Spoils(_),    \* sites that no longer stand verbatim once a site is written
    FlagSets,     \* settings of the environment flags
    Images,       \* trees of the images there may be at first; {}: none yet
    Drifts        \* sets of files whose upstream text has moved on

Scripts == DOMAIN Recipes \cup {"boot"}
OrderOf(s) == IF s = "boot" THEN Boot ELSE Recipes[s].order
Orders == {OrderOf(s) : s \in Scripts}

InstallersOf(o) == {o[k] : k \in 1..Len(o)}
EditsOf(is) == UNION {{i.edits[k] : k \in 1..Len(i.edits)} : i \in is}
AllEdits == UNION {EditsOf(InstallersOf(o)) : o \in Orders}
AddsOf(es) == UNION {e.adds : e \in es}
Spoilt(sites) == UNION {Spoils(s) : s \in sites}

(* The sites that mark an installation of e.                               *)
Own(e) == e.adds \ e.shares

Enabled(i, f) == i.flag = "always" \/ i.flag \in f

(* The edits of the first n installers that flags f enable.                *)
Installed(o, f, n) == EditsOf({o[k] : k \in {j \in 1..n : Enabled(o[j], f)}})

(* The edits of all installers before the p-th, and its first n.           *)
Before(o, p, n) == EditsOf({o[k] : k \in 1..(p - 1)}) \cup {o[p].edits[k] : k \in 1..n}

(* What an image built from scratch is meant to hold.                      *)
Full == UNION {AddsOf(EditsOf(InstallersOf(Recipes[s].order))) :
               s \in {q \in DOMAIN Recipes : Recipes[q].fromBase}}

(* The tree that script s starts from when the tagged image is img.        *)
Origin(s, img) ==
    IF s = "boot" THEN img
    ELSE (IF Recipes[s].fromBase THEN {} ELSE img) \ Recipes[s].refetched

(* Every edit stands on sites that an earlier enabled installer writes.    *)
Grounded(o, f) ==
    \A k \in 1..Len(o) : Enabled(o[k], f) =>
        \A e \in EditsOf({o[k]}) : e.needs \subseteq AddsOf(Installed(o, f, k - 1))

(* Sites that would make an installer of order o refuse its first tree: no *)
(* anchor, an installation that must not be there or would be half there.  *)
Unwelcome(o) ==
    LET es == EditsOf(InstallersOf(o))
        unmixed == EditsOf({i \in InstallersOf(o) : i.unmixed})
    IN  (UNION {e.bars : e \in es}) \cup
        (UNION {Own(e) : e \in {d \in es : d.check = "fresh"} \cup unmixed})

(* An edit is of an earlier release, absent or complete in tree t.         *)
Known(e, t) == e.older \cap t /= {} \/ Own(e) \cap t = {} \/ e.adds \subseteq t

(* An image that the scripts can start from.                               *)
Sound(img) ==
    /\ Spoilt(img) = {}
    /\ \A e \in AllEdits : Known(e, img)
    /\ \A s \in Scripts : Origin(s, img) \cap Unwelcome(OrderOf(s)) = {}

(* Lists of installers, and installers of one or more files.               *)
ASSUME OrdersAssumption ==
    /\ "boot" \notin DOMAIN Recipes
    /\ \A o \in Orders :
         /\ DOMAIN o = 1..Len(o) /\ Len(o) \in Nat
         /\ \A i \in InstallersOf(o) :
              /\ Len(i.edits) \in Nat \ {0}
              /\ i.preflight \in BOOLEAN /\ i.unmixed \in BOOLEAN

(* No site is both written and an earlier release's, no two edits have an  *)
(* own or an older site in common, and an installer that looks for its own *)
(* text writes some.                                                       *)
ASSUME EditsAssumption ==
    \A e \in AllEdits :
        /\ e.check \in {"verbatim", "marker"} => Own(e) /= {}
        /\ e.check \in {"verbatim", "marker", "fresh", "rewrite"}
        /\ \A d \in AllEdits :
             /\ e.adds \cap d.older = {}
             /\ d /= e => Own(e) \cap d.adds = {} /\ e.older \cap d.older = {}

(* Who writes into another edit's text comes after it; the text of earlier *)
(* releases is neither written into nor inside another's.                  *)
ASSUME SpoilsAssumption ==
    /\ \A d, e \in AllEdits : Spoilt(d.older) = {} /\ Spoilt(d.adds) \cap e.older = {}
    /\ \A o \in Orders : \A p \in 1..Len(o) : \A k \in 1..Len(o[p].edits) :
         LET e == o[p].edits[k]
         IN  /\ Spoilt(AddsOf(Before(o, p, k))) \cap e.adds = {}
             /\ Spoilt(AddsOf(Before(o, p, k - 1))) \cap e.needs = {}

(* No earlier edit of a script takes a later one's anchors away, or makes  *)
(* one of those that must find none of their own text.                     *)
ASSUME AnchorsAssumption ==
    \A o \in Orders : \A p \in 1..Len(o) : \A k \in 1..Len(o[p].edits) :
        LET e == o[p].edits[k]
        IN  /\ AddsOf(Before(o, p, k - 1)) \cap e.bars = {}
            /\ e.check = "fresh" \/ o[p].unmixed => e \notin Before(o, p, k - 1)

(* A Dockerfile runs all its installers, on what they stand on.  It makes  *)
(* the full image, or replaces nothing of the one under it but sources it  *)
(* edits again; a source is fetched with all edits in it.                  *)
ASSUME RecipesAssumption ==
    \A s \in DOMAIN Recipes :
        LET r == Recipes[s]
            es == EditsOf(InstallersOf(r.order))
        IN  /\ \A i \in InstallersOf(r.order) : Enabled(i, r.flags)
            /\ Grounded(r.order, r.flags)
            /\ Spoilt(AddsOf(es)) = {}
            /\ r.fromBase \in BOOLEAN
            /\ r.fromBase => AddsOf(es) = Full
            /\ ~r.fromBase => r.refetched \subseteq AddsOf(es) /\ \A e \in es : e.older = {}
            /\ \A e \in AllEdits :
                 e.adds \cup e.older \subseteq r.refetched
                 \/ (e.adds \cup e.older) \cap r.refetched = {}
            /\ \A q \in Scripts : Origin(q, AddsOf(es)) \cap Unwelcome(OrderOf(q)) = {}

ASSUME ImagesAssumption == \A img \in Images : Sound(img)

VARIABLES
    image,     \* sites of the tagged image
    drift,     \* files in which no anchor of this repository is found
    job,       \* "none", "build", "boot", "serving" or "refused"
    script,    \* the recipe that is built, or "boot"
    flags,     \* environment of the running job
    pc,        \* installer that runs
    at,        \* files of it that are done
    plan,      \* its prepared files, by index; NoPlan before it has prepared
    text,      \* sites of the container's tree
    base       \* text when the installer started (history)

vars == <<image, drift, job, script, flags, pc, at, plan, text, base>>

NoPlan == {0}

(* Mutant: the text of an earlier release is not looked for.               *)
VerdictNoUpgrade(e, t) ==
    IF e.check = "rewrite" THEN "apply"
    ELSE IF Own(e) \cap t = {}
    THEN IF e.needs \subseteq t /\ e.bars \cap t = {} /\ e.file \notin drift
         THEN "apply" ELSE "die"
    ELSE IF e.check = "marker" \/ (e.check = "verbatim" /\ Own(e) \subseteq t)
    THEN "already"
    ELSE "die"

(* What an installer decides about one file of tree t.                     *)
Verdict(e, t) ==
    IF e.check = "rewrite" THEN "apply"
    ELSE IF e.older \cap t /= {} \/ Own(e) \cap t = {}
    THEN IF e.needs \subseteq t /\ e.bars \cap t = {} /\ e.file \notin drift
         THEN "apply" ELSE "die"
    ELSE IF e.check = "marker" \/ (e.check = "verbatim" /\ Own(e) \subseteq t)
    THEN "already"
    ELSE "die"

(* Mutant: the sites of earlier releases stay.                             *)
PatchedKeepsOld(e, t) == (t \ Spoilt(e.adds)) \cup e.adds

(* The replacements, on the text in memory and then on disk.               *)
Patched(e, t) == ((t \ e.older) \ Spoilt(e.adds)) \cup e.adds

Verdicts(i, t) == [k \in 1..Len(i.edits) |-> Verdict(i.edits[k], t)]

(* Every file can be prepared, and no file is ahead of the others where    *)
(* the installer looks at them together.                                   *)
Prepares(i, t) ==
    LET v == Verdicts(i, t)
    IN  /\ \A k \in DOMAIN v : v[k] /= "die"
        /\ i.unmixed => \A k, l \in DOMAIN v : v[k] = v[l]

-----------------------------------------------------------------------------
Init ==
    /\ image \in Images
    /\ drift \in Drifts
    /\ image /= {} => drift = {}
    /\ job = "none" /\ script = "boot" /\ flags = {}
    /\ pc = 1 /\ at = 0 /\ plan = NoPlan /\ text = {} /\ base = {}

Begin(tree, f, s) ==
    /\ script' = s /\ flags' = f
    /\ text' = tree /\ base' = tree
    /\ pc' = 1 /\ at' = 0 /\ plan' = NoPlan

(* docker rm -f, then docker run of the tagged image.                      *)
Launch(f) ==
    /\ job = "none" /\ image /= {}
    /\ job' = "boot"
    /\ Begin(image, f, "boot")
    /\ UNCHANGED <<image, drift>>

(* docker build: the full image from upstream, or a layer on the tagged    *)
(* one, with its sources fetched anew.                                     *)
Build(s) ==
    LET r == Recipes[s]
    IN  /\ job = "none" /\ (r.fromBase \/ image /= {})
        /\ job' = "build"
        /\ Begin((IF r.fromBase THEN {} ELSE image) \ r.refetched, r.flags, s)
        /\ UNCHANGED <<image, drift>>

order == OrderOf(script)

Running == job \in {"build", "boot"} /\ pc <= Len(order)

NextInstaller == pc' = pc + 1 /\ at' = 0 /\ plan' = NoPlan

(* A flag that is off: the installer leaves every file alone.              *)
SkipInstaller ==
    /\ Running /\ at = 0
    /\ ~Enabled(order[pc], flags)
    /\ NextInstaller
    /\ base' = text
    /\ UNCHANGED <<image, drift, job, script, flags, text>>

(* Mutant: the file after the last one is looked for.                      *)
WriteStepPastEnd(e, write) ==
    /\ text' = IF write THEN Patched(e, text) ELSE text
    /\ IF at = Len(order[pc].edits)
       THEN NextInstaller /\ base' = text'
       ELSE at' = at + 1 /\ UNCHANGED <<pc, plan, base>>
    /\ UNCHANGED <<image, drift, job, script, flags>>

(* One file is written or left alone; after the last one the next          *)
(* installer is up.                                                        *)
WriteStep(e, write) ==
    /\ text' = IF write THEN Patched(e, text) ELSE text
    /\ IF at + 1 = Len(order[pc].edits)
       THEN NextInstaller /\ base' = text'
       ELSE at' = at + 1 /\ UNCHANGED <<pc, plan, base>>
    /\ UNCHANGED <<image, drift, job, script, flags>>

(* Mutant: the first file is written before the others are prepared.       *)
PreflightInPlace ==
    /\ Running /\ plan = NoPlan
    /\ Enabled(order[pc], flags) /\ order[pc].preflight
    /\ Verdict(order[pc].edits[at + 1], text) /= "die"
    /\ WriteStep(order[pc].edits[at + 1],
                 Verdict(order[pc].edits[at + 1], text) = "apply")

(* Read and prepare every file; nothing is written yet.                    *)
Preflight ==
    /\ Running /\ at = 0 /\ plan = NoPlan
    /\ Enabled(order[pc], flags) /\ order[pc].preflight
    /\ Prepares(order[pc], text)
    /\ plan' = {k \in 1..Len(order[pc].edits) : Verdict(order[pc].edits[k], text) = "apply"}
    /\ UNCHANGED <<image, drift, job, script, flags, pc, at, text, base>>

(* The next prepared file is replaced, or left as it was found.            *)
WritePrepared ==
    /\ Running /\ plan /= NoPlan
    /\ WriteStep(order[pc].edits[at + 1], at + 1 \in plan)

(* An installer without a preflight prepares and writes file by file.      *)
PrepareAndWrite ==
    /\ Running /\ Enabled(order[pc], flags) /\ ~order[pc].preflight
    /\ Verdict(order[pc].edits[at + 1], text) /= "die"
    /\ WriteStep(order[pc].edits[at + 1],
                 Verdict(order[pc].edits[at + 1], text) = "apply")

(* Non-zero exit: set -e ends the script, the RUN step fails.              *)
Refuse ==
    /\ Running /\ plan = NoPlan /\ Enabled(order[pc], flags)
    /\ \/ order[pc].preflight /\ ~Prepares(order[pc], text)
       \/ ~order[pc].preflight /\ Verdict(order[pc].edits[at + 1], text) = "die"
    /\ job' = "refused"
    /\ UNCHANGED <<image, drift, script, flags, pc, at, plan, text, base>>

(* exec vllm serve.                                                        *)
Serve ==
    /\ job = "boot" /\ pc > Len(order)
    /\ job' = "serving"
    /\ UNCHANGED <<image, drift, script, flags, pc, at, plan, text, base>>

Discard ==
    /\ job' = "none" /\ script' = "boot" /\ flags' = {} /\ text' = {} /\ base' = {}
    /\ pc' = 1 /\ at' = 0 /\ plan' = NoPlan

(* The last RUN succeeded: the build is tagged.                            *)
Tag ==
    /\ job = "build" /\ pc > Len(order)
    /\ image' = text
    /\ Discard
    /\ UNCHANGED drift

(* docker rm -f, a crash, a full disk, a failed build: the tree is gone.   *)
Remove ==
    /\ job /= "none"
    /\ Discard
    /\ UNCHANGED <<image, drift>>

Step == SkipInstaller \/ Preflight \/ WritePrepared \/ PrepareAndWrite \/ Refuse
        \/ Serve \/ Tag

Next ==
    \/ \E f \in FlagSets : Launch(f)
    \/ \E s \in DOMAIN Recipes : Build(s)
    \/ Step
    \/ Remove

(* The installers are run by a shell that goes on by itself.               *)
Spec == Init /\ [][Next]_vars /\ WF_vars(Step)

-----------------------------------------------------------------------------
(* What edits es make of tree t, whatever the order: every edit is there   *)
(* in its current form, and no more than the tree already had.             *)
Laid(t, es) ==
    LET all == (t \ UNION {e.older : e \in es}) \cup AddsOf(es)
    IN  all \ Spoilt(all)

(* What a container of image img under flags f is meant to hold.           *)
Wanted(img, f) == Laid(img, EditsOf({i \in InstallersOf(Boot) : Enabled(i, f)}))

TypeOK ==
    /\ job \in {"none", "build", "boot", "serving", "refused"}
    /\ pc \in 1..(Len(order) + 1)
    /\ at \in Nat
    /\ job \in {"build", "boot"} /\ pc <= Len(order) => at < Len(order[pc].edits)
    /\ plan = NoPlan \/ plan \subseteq 1..Len(order[pc].edits)

(* An installer that prepares all its files first and refuses one of them  *)
(* has written none: the tree is the one it found.                         *)
RefusalLeavesNoTrace ==
    job = "refused" /\ order[pc].preflight => text = base

(* The user of a container sees no build and no tree of a container that   *)
(* is still starting.                                                      *)
Phase == CASE job \in {"none", "build"} -> "idle"
           [] job = "boot" -> "starting"
           [] job = "serving" -> "serving"
           [] job = "refused" -> IF script = "boot" THEN "failed" ELSE "idle"

Contract == INSTANCE OverlayContract WITH
    phase <- Phase,
    flags <- IF Phase = "idle" THEN {} ELSE flags,
    tree <- IF job = "serving" THEN text ELSE {}

(* A container serves exactly the wanted text or nothing: no older release *)
(* of an edit survives, no edit is half there, no later edit has undone an *)
(* earlier one, whichever image it was started from; starts end, and a     *)
(* layer build keeps every edit of the image it extends.                   *)
ImplementsContract == Contract!Spec
=============================================================================
