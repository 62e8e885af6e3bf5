-------------------------- MODULE Scheduler_proofs --------------------------
(***************************************************************************)
(* Proofs about Scheduler, for every number of requests and every prompt,  *)
(* page size, cap and age.                                                 *)
(*                                                                         *)
(* The argument: Min and Max exist where the split, the hold and the       *)
(* prefix cache take them, so the helpers return numbers within their      *)
(* bounds, and with those the types are inductive.  A running request at   *)
(* its last token then asks for exactly one token, which the allocation    *)
(* grants or the preemption of that same request makes moot.               *)
(*                                                                         *)
(* On top of the types, no request is in two queues or twice in one, so a  *)
(* visit is to one request and a step visits none twice.  With that,       *)
(*   - a tail mark changes only for a request that is not running;         *)
(*   - what a request was passed over is paid for by its deferrals and the *)
(*     age of its hold, which only grows;                                  *)
(*   - the pages of the running requests stay in the cache, so a waiter    *)
(*     whose longest share is computed finds it.                           *)
(***************************************************************************)
EXTENDS Scheduler, WellFoundedInduction, SequenceTheorems, TLAPS

-----------------------------------------------------------------------------
(***************************************************************************)
(* Least and greatest elements, queues                                     *)
(***************************************************************************)

\* Min of a nonempty set of naturals is its least element.
LEMMA MinIsLeast ==
    ASSUME NEW S, S \subseteq Nat, S # {}
    PROVE  Min(S) \in S /\ \A y \in S : Min(S) <= y
<1>1. \E x \in S : \A y \in S : ~(<<y, x>> \in OpToRel(<, Nat))
    BY NatLessThanWellFounded, WFMin
<1>2. PICK x \in S : \A y \in S : ~(<<y, x>> \in OpToRel(<, Nat))
    BY <1>1
<1>3. \A y \in S : ~(y < x)
    BY <1>2, Zenon DEF OpToRel
<1>4. \A y \in S : x <= y
    BY <1>3
<1> QED
    BY <1>4 DEF Min

\* Max of a nonempty set of naturals with a bound is its greatest element.
LEMMA MaxIsGreatest ==
    ASSUME NEW S, S \subseteq Nat, S # {}, NEW b \in Nat, \A y \in S : y <= b
    PROVE  Max(S) \in S /\ \A y \in S : Max(S) >= y
<1> DEFINE T == {b - y : y \in S}
<1>1. T \subseteq Nat /\ T # {}
    <2>1. PICK y \in S : TRUE
        OBVIOUS
    <2>2. b - y \in T
        OBVIOUS
    <2>3. \A z \in S : b - z \in Nat
        OBVIOUS
    <2> QED
        BY <2>2, <2>3
<1>2. Min(T) \in T /\ \A t \in T : Min(T) <= t
    BY <1>1, MinIsLeast
<1>3. PICK x \in S : Min(T) = b - x
    BY <1>2
<1>4. \A y \in S : x >= y
    <2> TAKE y \in S
    <2>1. b - x <= b - y
        BY <1>2, <1>3
    <2> QED
        BY <2>1
<1> QED
    BY <1>4 DEF Max

\* A queue without its first r is a queue of the same requests, and no longer
\* one.
LEMMA RemoveFirstType ==
    ASSUME NEW s \in Seq(Req), NEW r
    PROVE  RemoveFirst(s, r) \in Seq(Req)
<1>1. CASE \E i \in 1..Len(s) : s[i] = r
    <2> DEFINE I == {i \in 1..Len(s) : s[i] = r}
    <2>1. I \subseteq Nat /\ I # {}
        BY <1>1
    <2>2. Min(I) \in 1..Len(s)
        BY <2>1, MinIsLeast
    <2>3. RemoveFirst(s, r) = RemoveAt(s, Min(I))
        BY <1>1, <2>1 DEF RemoveFirst, SelectInSeq
    <2> HIDE DEF I
    <2>4. \A i \in 1..Len(s) : RemoveAt(s, i) \in Seq(Req)
        <3> TAKE i \in 1..Len(s)
        <3>1. SubSeq(s, 1, i - 1) \in Seq(Req) /\ SubSeq(s, i + 1, Len(s)) \in Seq(Req)
            BY SubSeqProperties
        <3> QED
            BY <3>1, ConcatProperties DEF RemoveAt
    <2> QED
        BY <2>2, <2>3, <2>4
<1>2. CASE ~ \E i \in 1..Len(s) : s[i] = r
    BY <1>2 DEF RemoveFirst
<1> QED
    BY <1>1, <1>2

-----------------------------------------------------------------------------
(***************************************************************************)
(* What the helpers return                                                 *)
(***************************************************************************)

\* The sizes the model is given, as the provers need them.
LEMMA Sizes ==
    /\ \A r \in Req : PromptIds[r] \in Seq(Nat) /\ Prompt(r) \in Nat /\ Prompt(r) > 0
    /\ Page \in Nat /\ Page > 0
    /\ HashPage \in Nat /\ HashPage > 0
    /\ Budget \in Nat /\ Budget > 0
    /\ MaxRunning \in Nat /\ MaxRunning > 0
    /\ Lptt \in Nat /\ Lptt > 0
    /\ LateCap \in Nat /\ LateCap > 0
    /\ LateCapMax \in Nat /\ LateCapMax > 0
    /\ WarmTokens \in Nat /\ MaxWait \in Nat /\ Escalate \in Nat
    /\ LateHorizon \in Nat /\ DeferFloor \in Nat
    /\ MixedCap \in Nat \cup {NoCap}
    /\ MaxOut \in Nat /\ MaxOut > 0
    /\ TailSteps \in Nat /\ MaxPreempt \in Nat
<1>0. \A r \in Req : PromptIds[r] \in Seq(Nat)
    BY SizesAssumption
<1>1. \A r \in Req : Prompt(r) \in Nat
    BY <1>0 DEF Prompt
<1> QED
    BY <1>1, SizesAssumption

\* Rounding down to a unit.
LEMMA FloorBounds ==
    ASSUME NEW n \in Nat, NEW unit \in Nat, unit > 0
    PROVE  Floor(n, unit) \in Nat /\ Floor(n, unit) <= n
BY DEF Floor

\* A quotient of sizes is a size.
LEMMA DivType ==
    ASSUME NEW n \in Nat, NEW unit \in Nat, unit > 0
    PROVE  n \div unit \in Nat
OBVIOUS

\* Multiplying keeps the order.
LEMMA TimesMonotonic ==
    ASSUME NEW a \in Nat, NEW b \in Nat, NEW c \in Nat, a <= b
    PROVE  a * c \in Nat /\ a * c <= b * c
OBVIOUS

\* A product of sizes is a size.
LEMMA TimesType ==
    ASSUME NEW a \in Nat, NEW b \in Nat
    PROVE  a * b \in Nat
OBVIOUS

\* The cache hit of a request is a number of tokens, short of its last one.
LEMMA CacheHitType ==
    ASSUME NEW r \in Req, out \in [Req -> Nat]
    PROVE  CacheHit(r) \in Nat /\ CacheHit(r) < NumTokens(r)
<1> DEFINE m == Lower(NumTokens(r) - 1, Prompt(r))
           K == m \div Page
           S == {n \in {k * Page : k \in 0..K} :
                    PagesUpTo(r, n) \subseteq cached /\ Checkpoint(r, n) \subseteq states}
<1>0. /\ Prompt(r) \in Nat /\ Prompt(r) > 0 /\ out[r] \in Nat
      /\ Page \in Nat /\ Page > 0
    BY Sizes
<1>9. NumTokens(r) \in Nat /\ m \in Nat /\ m < NumTokens(r)
    BY <1>0 DEF Lower, NumTokens
<1> HIDE DEF m
<1>1. K \in Nat
    BY <1>0, <1>9, DivType
<1>2. PagesUpTo(r, 0) = {} /\ Checkpoint(r, 0) = {}
    BY Sizes DEF PagesUpTo, Checkpoint, Lower
<1>3. 0 \in S
    <2>1. 0 = 0 * Page /\ 0 \in 0..K
        BY <1>1, Sizes
    <2> QED
        BY <1>2, <2>1
<1> HIDE DEF K
<1>4. \A k \in 0..K : k * Page \in Nat /\ k * Page <= K * Page
    <2> TAKE k \in 0..K
    <2>1. k \in Nat /\ k <= K
        BY <1>1
    <2> QED
        BY <1>0, <1>1, <2>1, TimesMonotonic
<1>5. S \subseteq Nat /\ K * Page \in Nat /\ \A y \in S : y <= K * Page
    BY <1>0, <1>1, <1>4, TimesType
<1>6. K * Page < NumTokens(r)
    <2>1. Floor(m, Page) <= m /\ Floor(m, Page) \in Nat
        BY <1>0, <1>9, FloorBounds
    <2>2. Floor(m, Page) = K * Page
        BY DEF Floor, K
    <2> QED
        BY <1>9, <2>1, <2>2
<1> HIDE DEF S
<1>7. Max(S) \in S
    BY <1>3, <1>5, MaxIsGreatest
<1>8. CacheHit(r) = Max(S)
    BY DEF CacheHit, S, K, m
<1>10. Max(S) \in Nat /\ Max(S) <= K * Page
    BY <1>5, <1>7
<1> QED
    BY <1>5, <1>6, <1>8, <1>9, <1>10

\* A cap never raises a chunk.
LEMMA CappedBounds ==
    ASSUME NEW n \in Nat, NEW cap \in Nat \cup {NoCap}
    PROVE  Capped(n, cap) \in 0..n
BY DEF Capped, Lower, NoCap

\* The split never raises a chunk, and leaves a request with one token to go
\* alone.
LEMMA SplitBounds ==
    ASSUME NEW r \in Req, out \in [Req -> Nat], NEW start \in Nat, NEW n \in Nat
    PROVE  /\ AlignedSplit(r, start, n) \in 0..n
           /\ start >= Prompt(r) /\ start = NumTokens(r) - 1
                 => AlignedSplit(r, start, n) = n
<1> DEFINE prefillEnd == Upper(Prompt(r), NumTokens(r) - 1)
           maxPrefill == Lower(Budget, Lptt)
           alignedEnd == Floor(start + n, Page)
           end == IF /\ start + n < prefillEnd
                     /\ alignedEnd > start \/ (Page <= maxPrefill /\ ~AlignFloor)
                  THEN alignedEnd ELSE start + n
           lastCache == Floor(NumTokens(r), Page)
           tailBoundary == IF PartialHit THEN Floor(Prompt(r) - 1, HashPage) ELSE 0
           stops == {IF start % Page # 0 THEN Floor(start, Page) + Page ELSE 0,
                     lastCache,
                     IF lastCache < tailBoundary THEN tailBoundary ELSE 0}
           cuts == {s \in stops : start < s /\ s < end}
<1>1. AlignedSplit(r, start, n) =
         IF start >= prefillEnd THEN n
         ELSE Upper(IF cuts = {} THEN end - start ELSE Min(cuts) - start, 0)
    BY DEF AlignedSplit
<1>2. /\ NumTokens(r) \in Nat /\ Prompt(r) \in Nat /\ Prompt(r) - 1 \in Nat
      /\ Page \in Nat /\ Page > 0 /\ HashPage \in Nat /\ HashPage > 0
    BY Sizes DEF NumTokens
<1>3. end \in Nat /\ end <= start + n
    <2>0. start + n \in Nat
        OBVIOUS
    <2>1. alignedEnd \in Nat /\ alignedEnd <= start + n
        BY <1>2, <2>0, FloorBounds, Zenon
    <2> HIDE DEF alignedEnd, prefillEnd, maxPrefill
    <2> QED
        BY <2>1
<1>4. stops \subseteq Nat
    <2>1. /\ Floor(start, Page) \in Nat /\ Floor(NumTokens(r), Page) \in Nat
          /\ Floor(Prompt(r) - 1, HashPage) \in Nat
        BY <1>2, FloorBounds
    <2> QED
        BY <1>2, <2>1
<1> HIDE DEF end, stops, prefillEnd
<1>5. cuts \subseteq Nat /\ \A s \in cuts : start < s /\ s < end
    BY <1>4
<1> HIDE DEF cuts
<1>6. cuts # {} => Min(cuts) \in cuts
    BY <1>5, MinIsLeast
<1> DEFINE x == IF cuts = {} THEN end - start ELSE Min(cuts) - start
<1>7. x \in Int /\ x <= n
    <2>1. CASE cuts = {}
        BY <1>3, <2>1
    <2>2. CASE cuts # {}
        <3>1. Min(cuts) \in Nat /\ Min(cuts) < end
            BY <1>5, <1>6, <2>2
        <3>2. x = Min(cuts) - start
            BY <2>2
        <3> QED
            BY <1>3, <3>1, <3>2
    <2> QED
        BY <2>1, <2>2
<1> HIDE DEF x
<1>8. AlignedSplit(r, start, n) \in 0..n
    <2>1. AlignedSplit(r, start, n) = IF start >= prefillEnd THEN n ELSE Upper(x, 0)
        BY <1>1 DEF x
    <2> QED
        BY <1>7, <2>1 DEF Upper
<1>9. start >= Prompt(r) /\ start = NumTokens(r) - 1 => start >= prefillEnd
    BY <1>2 DEF Upper, prefillEnd
<1> QED
    BY <1>1, <1>8, <1>9

\* The late cap is a number.
LEMMA LateCapType ==
    ASSUME NEW age \in Nat
    PROVE  LateCapAt(age) \in Int
<1>1. CASE Escalate = 0
    BY <1>1, Sizes DEF LateCapAt
<1>2. CASE Escalate # 0
    <2> DEFINE shift == <<1, 2, 4, 8, 16, 32, 64, 128, 256>>
               i == Lower(age \div Escalate, 8) + 1
    <2>1. age \div Escalate \in Nat
        BY <1>2, Sizes
    <2>2. i \in 1..9
        BY <2>1 DEF Lower
    <2>3. \A j \in 1..9 : shift[j] \in Nat
        OBVIOUS
    <2> HIDE DEF i, shift
    <2>4. LateCap * shift[i] \in Int
        <3>1. shift[i] \in Nat
            BY <2>2, <2>3
        <3> QED
            BY <3>1, Sizes, TimesType
    <2>5. LateCapAt(age) = Lower(LateCapMax, LateCap * shift[i])
        BY <1>2 DEF LateCapAt, i, shift
    <2> QED
        BY <2>4, <2>5, Sizes DEF Lower
<1> QED
    BY <1>1, <1>2

\* What the gate answers and leaves behind; a request with one token to go is
\* let through when the warm bypass is on.
LEMMA GateTypes ==
    ASSUME NEW r \in Req, NEW c \in Nat, out \in [Req -> Nat],
           seen \in [Req -> None..MaxWait], late \in [Req -> None..LateHorizon]
    PROVE  /\ Gate(r, c).cap \in Nat \cup {NoCap}
           /\ Gate(r, c).seen \in None..MaxWait
           /\ Gate(r, c).late \in None..LateHorizon
           /\ WarmTokens > 0 /\ c = NumTokens(r) - 1 => Gate(r, c).cap = NoCap
<1> DEFINE remaining == NumTokens(r) - c
           policy == MixedPrefillPolicy(r)
           known  == seen[r] # None
           late0  == IF known /\ c < last[r] THEN None ELSE late[r]
           seen1  == IF known THEN seen[r] ELSE 0
           late1  == IF late0 = None THEN 0 ELSE late0
           exempt == remaining <= WarmTokens \/ policy # 0 \/ MaxWait = 0
<1>0. WarmTokens \in Nat /\ NumTokens(r) \in Nat
    BY Sizes DEF NumTokens
<1>1. /\ remaining \in Int
      /\ WarmTokens > 0 /\ c = NumTokens(r) - 1 => remaining > 0 /\ remaining <= WarmTokens
    BY <1>0
<1>2. policy \in Nat \cup {NoCap}
    BY Sizes DEF MixedPrefillPolicy
<1>3. late0 \in None..LateHorizon /\ late1 \in 0..LateHorizon
    BY Sizes DEF None
<1>4. seen1 \in 0..MaxWait
    BY Sizes DEF None
<1>5. LateCapAt(late1) \in Int
    BY <1>3, LateCapType
<1>6. Upper(Lower(LateCapAt(late1), remaining), 1) \in Nat
    BY <1>1, <1>5 DEF Upper, Lower
<1>11. MaxWait \in Nat
    BY Sizes
<1> HIDE DEF policy, late0, late1, seen1
<1>7. CASE remaining <= 0
    <2>1. Gate(r, c) = [cap |-> NoCap, seen |-> seen[r], late |-> late[r], last |-> last[r]]
        BY <1>7, <1>1 DEF Gate
    <2>2. ~(WarmTokens > 0 /\ c = NumTokens(r) - 1)
        BY <1>7, <1>1
    <2> QED
        BY <2>1, <2>2
<1>8. CASE remaining > 0 /\ exempt
    <2>1. Gate(r, c) = [cap |-> IF remaining <= WarmTokens THEN NoCap ELSE policy,
                        seen |-> seen[r], late |-> late0,
                        last |-> IF known THEN c ELSE last[r]]
        BY <1>8, <1>1 DEF Gate, policy, late0
    <2> HIDE DEF remaining
    <2> QED
        BY <2>1, <1>2, <1>3, <1>1
<1>9. CASE remaining > 0 /\ ~exempt /\ seen1 < MaxWait
    <2>1. Gate(r, c) = [cap |-> 0, seen |-> seen1, late |-> late0, last |-> c]
        <3>1. ~(remaining <= 0) /\ ~(seen1 >= MaxWait) /\ ~exempt
            BY <1>9, <1>1, <1>4, <1>11
        <3> QED
            BY <1>9, <3>1, Zenon DEF Gate, policy, late0, seen1
    <2>2. ~(WarmTokens > 0 /\ c = NumTokens(r) - 1)
        BY <1>9, <1>1
    <2>3. seen1 \in None..MaxWait
        BY <1>4 DEF None
    <2> QED
        BY <2>1, <2>2, <2>3, <1>3
<1>10. CASE remaining > 0 /\ ~exempt /\ seen1 >= MaxWait
    <2>1. Gate(r, c) = [cap |-> Upper(Lower(LateCapAt(late1), remaining), 1),
                        seen |-> seen1, late |-> late1, last |-> c]
        <3>1. ~(remaining <= 0) /\ ~(seen1 < MaxWait) /\ ~exempt
            BY <1>10, <1>1, <1>4, <1>11
        <3> QED
            BY <1>10, <3>1 DEF Gate, policy, late0, late1, seen1
    <2>2. ~(WarmTokens > 0 /\ c = NumTokens(r) - 1)
        BY <1>10, <1>1
    <2>3. seen1 \in None..MaxWait /\ late1 \in None..LateHorizon
        BY <1>3, <1>4 DEF None
    <2> QED
        BY <2>1, <2>2, <2>3, <1>6
<1> QED
    BY <1>1, <1>4, <1>7, <1>8, <1>9, <1>10, <1>11

-----------------------------------------------------------------------------
(***************************************************************************)
(* Types                                                                   *)
(***************************************************************************)

\* The types of the variables; the context of a request is one token ahead of
\* what is computed of it.
Types ==
    /\ life \in [Req -> {"new", "live", "done"}]
    /\ waiting \in Seq(Req) /\ skipped \in Seq(Req)
    /\ running \in Seq(Req) /\ held \in Seq(Req)
    /\ computed \in [Req -> Nat]
    /\ out \in [Req -> 0..MaxOut]
    /\ \A r \in Req : computed[r] < NumTokens(r)
    /\ spc \in {"idle", "running", "waiting", "end"}
    /\ idx \in 1..(Len(running) + 1)
    /\ spc = "idle" => idx = 1
    /\ budget \in 0..Budget
    /\ sched \in [Req -> 0..Budget]
    /\ preempts \in 0..MaxPreempt
    /\ seen \in [Req -> None..MaxWait]
    /\ late \in [Req -> None..LateHorizon]
    /\ tail \in [Req -> {0, 1}]
    /\ defers \in [Req -> 0..TailSteps]
    /\ passed \in [Req -> 0..(MaxWait + TailSteps + 1)]
    /\ admitted \in [Req -> Nat]

\* The counts of tokens that follow from the types.
LEMMA TokenTypes ==
    ASSUME Types
    PROVE  /\ out \in [Req -> Nat]
           /\ \A r \in Req : /\ computed[r] \in Nat /\ sched[r] \in Nat
                             /\ NumTokens(r) \in Nat /\ computed[r] < NumTokens(r)
                             /\ Prompt(r) \in Nat /\ Prompt(r) > 0
           /\ budget \in Nat /\ budget <= Budget
           /\ idx \in Nat /\ idx >= 1 /\ idx <= Len(running) + 1 /\ Len(running) \in Nat
<1>1. MaxOut \in Nat /\ Budget \in Nat /\ \A r \in Req : Prompt(r) \in Nat /\ Prompt(r) > 0
    BY Sizes
<1>2. out \in [Req -> Nat]
    BY <1>1 DEF Types
<1>3. \A r \in Req : NumTokens(r) \in Nat
    BY <1>1, <1>2 DEF NumTokens
<1>4. \A r \in Req : computed[r] \in Nat /\ sched[r] \in Nat /\ computed[r] < NumTokens(r)
    BY <1>1 DEF Types
<1>5. budget \in Nat /\ budget <= Budget
    BY <1>1 DEF Types
<1>6. Len(running) \in Nat
    BY DEF Types
<1>7. idx \in Nat /\ idx >= 1 /\ idx <= Len(running) + 1
    BY <1>6 DEF Types
<1> QED
    BY <1>1, <1>2, <1>3, <1>4, <1>5, <1>6, <1>7

\* The chunk the running loop asks for r.
RunChunk(r) ==
    AlignedSplit(r, computed[r],
        Capped(Lower(LongPrefillCap(NumTokens(r) - computed[r],
                                    TailStillOpen(r, computed[r])), budget),
               Gate(r, computed[r]).cap))

\* The chunk the waiting loop asks for r.
WaitChunk(r) ==
    AlignedSplit(r, CacheHit(r),
        Lower(Capped(LongPrefillCap(NumTokens(r) - CacheHit(r),
                                    IsResidentTail(CacheHit(r), Prompt(r))),
                     Gate(r, CacheHit(r)).cap), budget))

\* A running request asks for what the step has left, at most; a decode asks
\* for its token.
LEMMA RunChunkBounds ==
    ASSUME Types, NEW r \in Req
    PROVE  /\ RunChunk(r) \in 0..budget
           /\ WarmTokens > 0 /\ budget > 0 /\ AtLastToken(r) => RunChunk(r) = 1
<1> DEFINE c == computed[r]
           open == TailStillOpen(r, c)
           n0 == Lower(LongPrefillCap(NumTokens(r) - c, open), budget)
           n1 == Capped(n0, Gate(r, c).cap)
<1>1. out \in [Req -> Nat] /\ c \in Nat /\ NumTokens(r) \in Nat /\ c < NumTokens(r)
    BY TokenTypes
<1>2. budget \in Nat /\ Lptt \in Nat /\ Lptt > 0
    BY TokenTypes, Sizes
<1>3. Gate(r, c).cap \in Nat \cup {NoCap}
    BY <1>1, GateTypes DEF Types
<1> HIDE DEF open, c
<1>4. n0 \in 0..budget
    BY <1>1, <1>2 DEF LongPrefillCap, Lower
<1> HIDE DEF n0
<1>5. n0 \in Nat /\ n1 \in 0..n0
    <2>1. n0 \in Nat
        BY <1>2, <1>4
    <2> QED
        BY <1>3, <2>1, CappedBounds, Zenon
<1>6. n1 \in Nat
    BY <1>5
<1> HIDE DEF n1
<1>7. RunChunk(r) = AlignedSplit(r, c, n1)
    BY DEF RunChunk, n1, n0, open, c
<1>8. AlignedSplit(r, c, n1) \in 0..n1
    BY <1>1, <1>6, SplitBounds
<1>9. ASSUME WarmTokens > 0, budget > 0, AtLastToken(r)
      PROVE  RunChunk(r) = 1
    <2>1. c = NumTokens(r) - 1 /\ c >= Prompt(r)
        BY <1>9 DEF AtLastToken, Decoding, c
    <2>2. Gate(r, c).cap = NoCap
        BY <2>1, <1>1, <1>9, GateTypes DEF Types
    <2>3. n0 = 1
        BY <2>1, <1>1, <1>2, <1>9 DEF n0, LongPrefillCap, Lower
    <2>4. n1 = 1
        BY <2>2, <2>3 DEF n1, Capped
    <2>5. AlignedSplit(r, c, n1) = n1
        BY <2>1, <1>1, <1>6, SplitBounds
    <2> QED
        BY <2>4, <2>5, <1>7
<1> QED
    BY <1>2, <1>4, <1>5, <1>7, <1>8, <1>9

\* A waiting request asks for what the step has left, at most.
LEMMA WaitChunkBounds ==
    ASSUME Types, NEW r \in Req
    PROVE  WaitChunk(r) \in 0..budget
<1> DEFINE c == CacheHit(r)
           open == IsResidentTail(c, Prompt(r))
           n0 == LongPrefillCap(NumTokens(r) - c, open)
           n1 == Capped(n0, Gate(r, c).cap)
           n2 == Lower(n1, budget)
<1>1. out \in [Req -> Nat] /\ NumTokens(r) \in Nat
    BY TokenTypes
<1>2. c \in Nat /\ c < NumTokens(r)
    BY <1>1, CacheHitType
<1>3. budget \in Nat /\ Lptt \in Nat
    BY TokenTypes, Sizes
<1> HIDE DEF c
<1>4. Gate(r, c).cap \in Nat \cup {NoCap}
    BY <1>1, <1>2, GateTypes DEF Types
<1> HIDE DEF open
<1>5. n0 \in Nat
    BY <1>1, <1>2, <1>3 DEF LongPrefillCap, Lower
<1> HIDE DEF n0
<1>6. n1 \in Nat
    <2>1. n1 \in 0..n0
        BY <1>4, <1>5, CappedBounds, Zenon
    <2> QED
        BY <1>5, <2>1
<1> HIDE DEF n1
<1>7. n2 \in 0..budget
    BY <1>3, <1>6 DEF Lower
<1> HIDE DEF n2
<1>8. WaitChunk(r) = AlignedSplit(r, c, n2)
    BY DEF WaitChunk, n2, n1, n0, open, c
<1>9. AlignedSplit(r, c, n2) \in 0..n2
    <2>1. n2 \in Nat
        BY <1>3, <1>7
    <2> QED
        BY <1>1, <1>2, <2>1, SplitBounds, Zenon
<1> QED
    BY <1>3, <1>7, <1>8, <1>9

\* What a preempting allocation leaves of the queues.
LEMMA PreemptedQueues ==
    ASSUME Types, idx <= Len(running), NEW k \in 0..(Len(running) - idx + 1)
    PROVE  LET keep == Len(running) - k
               victims == SubSeq(running, keep + 1, Len(running))
           IN /\ victims \in Seq(Req)
              /\ victims \o waiting \in Seq(Req)
              /\ SubSeq(running, 1, keep) \in Seq(Req)
              /\ Len(SubSeq(running, 1, keep)) = keep
              /\ keep \in Nat /\ idx <= keep + 1
              /\ \A i \in 1..keep : SubSeq(running, 1, keep)[i] = running[i]
              /\ running[idx] \notin Range(victims) => idx <= keep
<1> DEFINE keep == Len(running) - k
           victims == SubSeq(running, keep + 1, Len(running))
<1>1. running \in Seq(Req) /\ waiting \in Seq(Req) /\ Len(running) \in Nat
    BY DEF Types
<1>2. idx \in Nat /\ idx >= 1 /\ keep \in Nat /\ keep <= Len(running) /\ idx <= keep + 1
    <2>1. idx \in Nat /\ idx >= 1
        BY TokenTypes
    <2> QED
        BY <1>1, <2>1
<1>3. \A i \in 1..Len(running) : running[i] \in Req
    BY <1>1
<1>4. /\ victims \in Seq(Req)
      /\ Len(victims) = IF keep + 1 <= Len(running) THEN Len(running) - keep ELSE 0
      /\ \A i \in 1..(Len(running) - keep) : victims[i] = running[keep + i]
    BY <1>1, <1>2, <1>3, SubSeqProperties
<1>5. /\ SubSeq(running, 1, keep) \in Seq(Req)
      /\ Len(SubSeq(running, 1, keep)) = keep
      /\ \A i \in 1..keep : SubSeq(running, 1, keep)[i] = running[i]
    BY <1>1, <1>2, <1>3, SubSeqProperties
<1>6. victims \o waiting \in Seq(Req)
    BY <1>1, <1>4, ConcatProperties
<1>7. ASSUME ~(idx <= keep) PROVE running[idx] \in Range(victims)
    <2>1. idx = keep + 1 /\ 1 \in 1..(Len(running) - keep)
        BY <1>7, <1>2
    <2>2. 1 \in DOMAIN victims /\ victims[1] = running[idx]
        BY <2>1, <1>2, <1>4
    <2> QED
        BY <2>2 DEF Range
<1> QED
    BY <1>2, <1>4, <1>5, <1>6, <1>7

\* What VisitRunning does, in terms of the chunk it asks for.
LEMMA RunningVisit ==
    ASSUME Types, VisitRunning
    PROVE  LET r == running[idx]
           IN /\ r \in Req /\ idx <= Len(running) /\ budget > 0 /\ spc = "running"
              /\ KeepGate(r, Gate(r, computed[r]))
              /\ seen' \in [Req -> None..MaxWait]
              /\ late' \in [Req -> None..LateHorizon]
              /\ \/ /\ RunChunk(r) = 0
                    /\ idx' = idx + 1
                    /\ PassOver(r)
                    /\ UNCHANGED <<running, waiting, computed, spc, budget, sched,
                                   cached, preempted, preempts>>
                 \/ /\ RunChunk(r) > 0
                    /\ \E k \in 0..(Len(running) - idx + 1) :
                           AllocatePreempting(r, RunChunk(r), k)
              /\ UNCHANGED <<life, skipped, out, held, tail, defers, admitted>>
<1> DEFINE r == running[idx]
<1>1. r \in Req /\ idx <= Len(running) /\ budget > 0 /\ spc = "running"
    BY DEF Types, VisitRunning
<1>2. out \in [Req -> Nat] /\ computed[r] \in Nat
    BY <1>1, TokenTypes
<1>3. KeepGate(r, Gate(r, computed[r]))
    BY DEF VisitRunning
<1>4. seen' \in [Req -> None..MaxWait] /\ late' \in [Req -> None..LateHorizon]
    <2>1. /\ Gate(r, computed[r]).seen \in None..MaxWait
          /\ Gate(r, computed[r]).late \in None..LateHorizon
        BY <1>1, <1>2, GateTypes DEF Types
    <2> QED
        BY <1>3, <2>1 DEF KeepGate, Types
<1>5. \/ /\ RunChunk(r) = 0
         /\ idx' = idx + 1
         /\ PassOver(r)
         /\ UNCHANGED <<running, waiting, computed, spc, budget, sched,
                        cached, preempted, preempts>>
      \/ /\ RunChunk(r) > 0
         /\ \E k \in 0..(Len(running) - idx + 1) :
                AllocatePreempting(r, RunChunk(r), k)
    BY DEF VisitRunning, RunChunk
<1>6. UNCHANGED <<life, skipped, out, held, tail, defers, admitted>>
    BY DEF VisitRunning
<1> QED
    BY <1>1, <1>3, <1>4, <1>5, <1>6

\* The queues without the next waiter.
LEMMA NextWaiterTypes ==
    ASSUME Types, MoreWaiting
    PROVE  /\ NextWaiter \in Req
           /\ PopWaiter => waiting' \in Seq(Req) /\ skipped' \in Seq(Req)
<1>1. CASE skipped # <<>>
    <2>1. Head(skipped) \in Req /\ Tail(skipped) \in Seq(Req)
        BY <1>1, HeadTailProperties DEF Types
    <2> QED
        BY <1>1, <2>1 DEF Types, NextWaiter, PopWaiter
<1>2. CASE skipped = <<>>
    <2>1. waiting # <<>>
        BY <1>2 DEF MoreWaiting
    <2>2. Head(waiting) \in Req /\ Tail(waiting) \in Seq(Req)
        BY <2>1, HeadTailProperties DEF Types
    <2> QED
        BY <1>2, <2>2 DEF Types, NextWaiter, PopWaiter
<1> QED
    BY <1>1, <1>2

\* What VisitWaiting does, in terms of the chunk it asks for.
LEMMA WaitingVisit ==
    ASSUME Types, VisitWaiting
    PROVE  LET r == NextWaiter
           IN /\ r \in Req /\ spc = "waiting"
              /\ NoteResidentTail(r, CacheHit(r))
              /\ seen' \in [Req -> None..MaxWait]
              /\ late' \in [Req -> None..LateHorizon]
              /\ \/ /\ PopWaiter
                    /\ held' = Append(held, r)
                    /\ PassOver(r)
                    /\ UNCHANGED <<running, computed, spc, budget, sched, cached,
                                   preempts, admitted>>
                 \/ /\ spc' = "end"
                    /\ PassOver(r)
                    /\ UNCHANGED <<queues, computed, budget, sched, held, cached,
                                   preempts, admitted>>
                 \/ /\ spc' = "end"
                    /\ preempts < MaxPreempt
                    /\ preempts' = preempts + 1
                    /\ UNCHANGED <<queues, computed, budget, sched, held, cached,
                                   passed, admitted>>
                 \/ /\ WaitChunk(r) > 0
                    /\ PopWaiter
                    /\ running' = Append(running, r)
                    /\ computed' = [computed EXCEPT ![r] = CacheHit(r)]
                    /\ sched' = [sched EXCEPT ![r] = WaitChunk(r)]
                    /\ budget' = budget - WaitChunk(r)
                    /\ passed' = [passed EXCEPT ![r] = 0]
                    /\ admitted' = [admitted EXCEPT ![r] = CacheHit(r)]
                    /\ UNCHANGED <<spc, held, preempts>>
              /\ UNCHANGED <<life, out, idx, preempted, defers>>
<1> DEFINE r == NextWaiter
<1>1. r \in Req /\ spc = "waiting" /\ MoreWaiting
    BY NextWaiterTypes DEF VisitWaiting
<1>2. out \in [Req -> Nat]
    BY TokenTypes
<1>3. CacheHit(r) \in Nat
    BY <1>1, <1>2, CacheHitType
<1>4. KeepGate(r, Gate(r, CacheHit(r))) /\ NoteResidentTail(r, CacheHit(r))
    BY DEF VisitWaiting
<1>5. seen' \in [Req -> None..MaxWait] /\ late' \in [Req -> None..LateHorizon]
    <2>1. /\ Gate(r, CacheHit(r)).seen \in None..MaxWait
          /\ Gate(r, CacheHit(r)).late \in None..LateHorizon
        BY <1>1, <1>2, <1>3, GateTypes DEF Types
    <2> QED
        BY <1>4, <2>1 DEF KeepGate, Types
<1>6. UNCHANGED <<life, out, idx, preempted, defers>>
    BY DEF VisitWaiting
<1> HIDE DEF r
<1> QED
    BY <1>1, <1>4, <1>5, <1>6 DEF VisitWaiting, WaitChunk, r

\* The count of visits that gave a request nothing stays within its bound.
LEMMA PassOverType ==
    ASSUME Types, NEW r \in Req, PassOver(r)
    PROVE  passed' \in [Req -> 0..(MaxWait + TailSteps + 1)]
<1>1. MaxWait + TailSteps \in Nat
    BY Sizes
<1>2. \A x \in 0..(MaxWait + TailSteps + 1) :
          Lower(x, MaxWait + TailSteps) + 1 \in 0..(MaxWait + TailSteps + 1)
    BY <1>1 DEF Lower
<1> QED
    BY <1>2 DEF PassOver, Types

\* An allocation, with the preemptions it needed, keeps the types.
LEMMA AllocateTypes ==
    ASSUME Types, idx <= Len(running), budget > 0, spc = "running",
           NEW n \in 1..budget, NEW k \in 0..(Len(running) - idx + 1),
           AllocatePreempting(running[idx], n, k)
    PROVE  /\ waiting' \in Seq(Req) /\ running' \in Seq(Req)
           /\ computed' \in [Req -> Nat]
           /\ \A q \in Req : computed'[q] < NumTokens(q)
           /\ spc' \in {"running", "end"}
           /\ idx' \in 1..(Len(running') + 1)
           /\ budget' \in 0..Budget
           /\ sched' \in [Req -> 0..Budget]
           /\ preempts' \in 0..MaxPreempt
           /\ passed' \in [Req -> 0..(MaxWait + TailSteps + 1)]
<1> DEFINE r == running[idx]
           keep == Len(running) - k
           victims == SubSeq(running, keep + 1, Len(running))
<1>1. /\ victims \in Seq(Req)
      /\ victims \o waiting \in Seq(Req)
      /\ SubSeq(running, 1, keep) \in Seq(Req)
      /\ Len(SubSeq(running, 1, keep)) = keep
      /\ keep \in Nat /\ idx <= keep + 1
      /\ r \notin Range(victims) => idx <= keep
    BY PreemptedQueues
<1>2. r \in Req /\ idx \in Nat /\ idx >= 1
    BY DEF Types
<1> HIDE DEF r, keep, victims
<1>3. /\ preempts + k <= MaxPreempt
      /\ preempts' = preempts + k
      /\ running' = SubSeq(running, 1, keep)
      /\ waiting' = victims \o waiting
      /\ computed' = [q \in Req |-> IF q \in Range(victims) THEN 0 ELSE computed[q]]
      /\ IF r \in Range(victims)
         THEN /\ spc' = "end"
              /\ UNCHANGED <<idx, budget, sched, passed>>
         ELSE /\ sched' = [sched EXCEPT ![r] = n]
              /\ budget' = budget - n
              /\ idx' = idx + 1
              /\ passed' = [passed EXCEPT ![r] = 0]
              /\ UNCHANGED spc
    BY DEF AllocatePreempting, r, keep, victims
<1>4. \A q \in Req : NumTokens(q) \in Nat /\ NumTokens(q) > 0
    BY TokenTypes
<1>5. computed' \in [Req -> Nat] /\ \A q \in Req : computed'[q] < NumTokens(q)
    BY <1>3, <1>4 DEF Types
<1>6. preempts' \in 0..MaxPreempt
    BY <1>3, Sizes DEF Types
<1>7. idx' \in 1..(Len(running') + 1)
    BY <1>1, <1>2, <1>3
<1>8. budget' \in 0..Budget
    <2>1. budget \in Nat /\ budget <= Budget /\ Budget \in Nat
        BY TokenTypes, Sizes
    <2>2. budget' = budget \/ budget' = budget - n
        BY <1>3
    <2> QED
        BY <2>1, <2>2
<1>9. sched' \in [Req -> 0..Budget]
    <2>1. n \in 0..Budget
        BY TokenTypes, Sizes
    <2>2. sched' = sched \/ sched' = [sched EXCEPT ![r] = n]
        BY <1>3
    <2> QED
        BY <2>1, <2>2 DEF Types
<1>10. passed' \in [Req -> 0..(MaxWait + TailSteps + 1)]
    <2>1. 0 \in 0..(MaxWait + TailSteps + 1)
        BY Sizes
    <2>2. passed' = passed \/ passed' = [passed EXCEPT ![r] = 0]
        BY <1>3
    <2> QED
        BY <2>1, <2>2 DEF Types
<1> QED
    BY <1>1, <1>3, <1>5, <1>6, <1>7, <1>8, <1>9, <1>10

\* Every step keeps the types.
LEMMA TypesStep ==
    ASSUME Types, [Next]_vars
    PROVE  Types'
<1>1. CASE StartStep
    <2>1. Budget \in 0..Budget /\ 0 \in 0..Budget /\ 1 \in 1..(Len(running) + 1)
        BY Sizes, TokenTypes
    <2>2. <<>> \in Seq(Req)
        OBVIOUS
    <2> QED
        BY <1>1, <2>1, <2>2 DEF Types, StartStep, queues, gate, NumTokens
<1>2. CASE DeferCold
    <2> DEFINE r == running[idx]
    <2>1. r \in Req /\ idx <= Len(running) /\ defers[r] < TailSteps /\ PassOver(r)
        BY <1>2 DEF Types, DeferCold, DefersCold
    <2>2. passed' \in [Req -> 0..(MaxWait + TailSteps + 1)]
        BY <2>1, PassOverType
    <2>3. idx' \in 1..(Len(running') + 1)
        BY <1>2, <2>1 DEF Types, DeferCold, queues
    <2>4. defers' \in [Req -> 0..TailSteps]
        <3>1. TailSteps \in Nat /\ defers[r] \in Nat
            BY <2>1, Sizes DEF Types
        <3>2. defers[r] + 1 \in 0..TailSteps
            BY <2>1, <3>1
        <3> QED
            BY <1>2, <2>1, <3>2 DEF Types, DeferCold
    <2> QED
        BY <1>2, <2>2, <2>3, <2>4 DEF Types, DeferCold, queues, gate, NumTokens
<1>3. CASE VisitRunning
    <2> DEFINE r == running[idx]
    <2>1. /\ r \in Req /\ idx <= Len(running) /\ budget > 0 /\ spc = "running"
          /\ seen' \in [Req -> None..MaxWait] /\ late' \in [Req -> None..LateHorizon]
          /\ UNCHANGED <<life, skipped, out, held, tail, defers, admitted>>
        BY <1>3, RunningVisit
    <2>2. RunChunk(r) \in 0..budget
        BY <2>1, RunChunkBounds
    <2>3. CASE /\ idx' = idx + 1
               /\ PassOver(r)
               /\ UNCHANGED <<running, waiting, computed, spc, budget, sched,
                              cached, preempted, preempts>>
        <3>1. passed' \in [Req -> 0..(MaxWait + TailSteps + 1)]
            BY <2>1, <2>3, PassOverType
        <3>2. idx' \in 1..(Len(running') + 1)
            BY <2>1, <2>3 DEF Types
        <3> QED
            BY <2>1, <2>3, <3>1, <3>2 DEF Types, NumTokens
    <2>4. ASSUME RunChunk(r) > 0, NEW k \in 0..(Len(running) - idx + 1),
                 AllocatePreempting(r, RunChunk(r), k)
          PROVE  Types'
        <3>1. RunChunk(r) \in 1..budget
            BY <2>2, <2>4 DEF Types
        <3>2. /\ waiting' \in Seq(Req) /\ running' \in Seq(Req)
              /\ computed' \in [Req -> Nat]
              /\ \A q \in Req : computed'[q] < NumTokens(q)
              /\ spc' \in {"running", "end"}
              /\ idx' \in 1..(Len(running') + 1)
              /\ budget' \in 0..Budget
              /\ sched' \in [Req -> 0..Budget]
              /\ preempts' \in 0..MaxPreempt
              /\ passed' \in [Req -> 0..(MaxWait + TailSteps + 1)]
            BY <2>1, <2>4, <3>1, AllocateTypes
        <3> QED
            BY <2>1, <3>2 DEF Types, NumTokens
    <2> QED
        BY <1>3, <2>3, <2>4, RunningVisit
<1>4. CASE EndRunning
    BY <1>4 DEF Types, EndRunning, queues, gate, NumTokens
<1>5. CASE HoldWaiter
    <2>1. NextWaiter \in Req /\ waiting' \in Seq(Req) /\ skipped' \in Seq(Req)
        BY <1>5, NextWaiterTypes DEF HoldWaiter
    <2> QED
        BY <1>5, <2>1, AppendProperties DEF Types, HoldWaiter, gate, NumTokens
<1>6. CASE VisitWaiting
    <2> DEFINE r == NextWaiter
    <2>1. /\ r \in Req /\ spc = "waiting"
          /\ NoteResidentTail(r, CacheHit(r))
          /\ seen' \in [Req -> None..MaxWait] /\ late' \in [Req -> None..LateHorizon]
          /\ UNCHANGED <<life, out, idx, preempted, defers>>
        BY <1>6, WaitingVisit
    <2>2. tail' \in [Req -> {0, 1}]
        BY <2>1 DEF NoteResidentTail, Types
    <2>3. MoreWaiting
        BY <1>6 DEF VisitWaiting
    <2>4. CASE /\ PopWaiter
               /\ held' = Append(held, r)
               /\ PassOver(r)
               /\ UNCHANGED <<running, computed, spc, budget, sched, cached,
                              preempts, admitted>>
        <3>1. waiting' \in Seq(Req) /\ skipped' \in Seq(Req)
            BY <2>3, <2>4, NextWaiterTypes
        <3>2. passed' \in [Req -> 0..(MaxWait + TailSteps + 1)]
            BY <2>1, <2>4, PassOverType
        <3> QED
            BY <2>1, <2>2, <2>4, <3>1, <3>2, AppendProperties DEF Types, NumTokens
    <2>5. CASE /\ spc' = "end"
               /\ PassOver(r)
               /\ UNCHANGED <<queues, computed, budget, sched, held, cached,
                              preempts, admitted>>
        <3>1. passed' \in [Req -> 0..(MaxWait + TailSteps + 1)]
            BY <2>1, <2>5, PassOverType
        <3> QED
            BY <2>1, <2>2, <2>5, <3>1 DEF Types, NumTokens, queues
    <2>6. CASE /\ spc' = "end"
               /\ preempts < MaxPreempt
               /\ preempts' = preempts + 1
               /\ UNCHANGED <<queues, computed, budget, sched, held, cached,
                              passed, admitted>>
        <3>1. preempts' \in 0..MaxPreempt
            BY <2>6, Sizes DEF Types
        <3> QED
            BY <2>1, <2>2, <2>6, <3>1 DEF Types, NumTokens, queues
    <2>7. CASE /\ WaitChunk(r) > 0
               /\ PopWaiter
               /\ running' = Append(running, r)
               /\ computed' = [computed EXCEPT ![r] = CacheHit(r)]
               /\ sched' = [sched EXCEPT ![r] = WaitChunk(r)]
               /\ budget' = budget - WaitChunk(r)
               /\ passed' = [passed EXCEPT ![r] = 0]
               /\ admitted' = [admitted EXCEPT ![r] = CacheHit(r)]
               /\ UNCHANGED <<spc, held, preempts>>
        <3>1. waiting' \in Seq(Req) /\ skipped' \in Seq(Req)
            BY <2>3, <2>7, NextWaiterTypes
        <3>2. running' \in Seq(Req) /\ Len(running') = Len(running) + 1
            BY <2>1, <2>7 DEF Types
        <3>3. WaitChunk(r) \in 0..budget
            BY <2>1, WaitChunkBounds
        <3>4. CacheHit(r) \in Nat /\ CacheHit(r) < NumTokens(r)
            BY <2>1, CacheHitType, TokenTypes
        <3>5. budget' \in 0..Budget /\ sched' \in [Req -> 0..Budget]
            <4>1. budget \in Nat /\ budget <= Budget /\ Budget \in Nat
                BY TokenTypes, Sizes
            <4>2. WaitChunk(r) \in 0..Budget /\ budget - WaitChunk(r) \in 0..Budget
                BY <3>3, <4>1
            <4> QED
                BY <2>1, <2>7, <4>2 DEF Types
        <3>6. computed' \in [Req -> Nat] /\ \A q \in Req : computed'[q] < NumTokens(q)
            BY <2>1, <2>7, <3>4 DEF Types
        <3>7. idx' \in 1..(Len(running') + 1)
            BY <2>1, <3>2 DEF Types
        <3>8. passed' \in [Req -> 0..(MaxWait + TailSteps + 1)]
            <4>1. 0 \in 0..(MaxWait + TailSteps + 1)
                BY Sizes
            <4> QED
                BY <2>1, <2>7, <4>1 DEF Types
        <3>9. admitted' \in [Req -> Nat]
            BY <2>1, <2>7, <3>4 DEF Types
        <3> QED
            BY <2>1, <2>2, <2>7, <3>1, <3>2, <3>5, <3>6, <3>7, <3>8, <3>9
            DEF Types, NumTokens
    <2> QED
        BY <1>6, <2>4, <2>5, <2>6, <2>7, WaitingVisit
<1>7. CASE EndStep
    <2> DEFINE answers == {r \in Req : sched[r] > 0
                                       /\ computed[r] + sched[r] >= NumTokens(r)}
    <2>1. /\ out' = [r \in Req |-> IF r \in answers THEN Lower(out[r] + 1, MaxOut)
                                                    ELSE out[r]]
          /\ computed' = [r \in Req |-> IF r \in answers THEN Prompt(r) + out'[r] - 1
                                        ELSE computed[r] + sched[r]]
        BY <1>7 DEF EndStep
    <2>2. MaxOut \in Nat /\ MaxOut > 0
        BY Sizes
    <2>3. out' \in [Req -> 0..MaxOut]
        <3>1. \A r \in Req : out[r] \in 0..MaxOut
            BY DEF Types
        <3>2. \A n \in 0..MaxOut : Lower(n + 1, MaxOut) \in 0..MaxOut
            BY <2>2 DEF Lower
        <3> HIDE DEF answers
        <3> QED
            BY <2>1, <3>1, <3>2
    <2>4. ASSUME NEW r \in Req
          PROVE  computed'[r] \in Nat /\ computed'[r] < Prompt(r) + out'[r]
        <3>1. CASE r \in answers
            BY <2>1, <2>3, <3>1, Sizes
        <3>2. CASE r \notin answers
            <4>1. /\ computed[r] \in Nat /\ sched[r] \in Nat /\ NumTokens(r) \in Nat
                  /\ computed[r] < NumTokens(r)
                BY TokenTypes
            <4>2. computed[r] + sched[r] < NumTokens(r)
                BY <3>2, <4>1
            <4>3. computed'[r] = computed[r] + sched[r] /\ out'[r] = out[r]
                BY <2>1, <3>2
            <4> QED
                BY <4>1, <4>2, <4>3 DEF NumTokens
        <3> QED
            BY <3>1, <3>2
    <2>5. computed' \in [Req -> Nat] /\ \A r \in Req : computed'[r] < NumTokens(r)'
        BY <2>1, <2>4 DEF NumTokens
    <2>6. skipped' \in Seq(Req)
        BY <1>7 DEF EndStep, Types
    <2>7. /\ seen' = [r \in Req |-> Age(seen[r], MaxWait)]
          /\ late' = [r \in Req |-> Age(late[r], LateHorizon)]
        BY <1>7 DEF EndStep
    <2>8. seen' \in [Req -> None..MaxWait] /\ late' \in [Req -> None..LateHorizon]
        <3>1. \A m \in Nat : \A a \in None..m : Age(a, m) \in None..m
            BY DEF Age, None
        <3>2. MaxWait \in Nat /\ LateHorizon \in Nat
            BY Sizes
        <3> QED
            BY <2>7, <3>1, <3>2 DEF Types
    <2>9. /\ idx' = 1 /\ budget' = 0 /\ spc' = "idle" /\ held' = <<>>
          /\ sched' = [r \in Req |-> 0]
          /\ UNCHANGED <<life, waiting, running, cached, preempts, last, tail, defers,
                         passed, admitted>>
        BY <1>7 DEF EndStep
    <2> QED
        <3>1. 1 \in 1..(Len(running') + 1) /\ 0 \in 0..Budget
            BY <2>9, TokenTypes, Sizes
        <3>2. <<>> \in Seq(Req)
            OBVIOUS
        <3> QED
            BY <2>3, <2>5, <2>6, <2>8, <2>9, <3>1, <3>2 DEF Types
<1>8. ASSUME NEW r \in Req, Arrive(r) PROVE Types'
    <2>1. waiting' \in Seq(Req)
        BY <1>8, AppendProperties DEF Types, Arrive
    <2> QED
        BY <1>8, <2>1 DEF Types, Arrive, step, gate, NumTokens
<1>9. ASSUME NEW r \in Req, Leave(r) PROVE Types'
    <2>1. waiting' \in Seq(Req) /\ skipped' \in Seq(Req) /\ running' \in Seq(Req)
        BY <1>9, RemoveFirstType DEF Types, Leave
    <2> QED
        <3>1. idx' = 1 /\ Len(running') \in Nat
            BY <1>9, <2>1 DEF Types, Leave, step
        <3>2. idx' \in 1..(Len(running') + 1)
            BY <3>1
        <3> QED
            BY <1>9, <2>1, <3>1, <3>2 DEF Types, Leave, step, gate, NumTokens
<1>10. ASSUME NEW p \in cached, Evict(p) PROVE Types'
    BY <1>10 DEF Types, Evict, queues, step, gate, NumTokens
<1>12. ASSUME NEW p \in states, EvictState(p) PROVE Types'
    BY <1>12 DEF Types, EvictState, queues, step, gate, NumTokens
<1>11. CASE UNCHANGED vars
    BY <1>11 DEF Types, vars, NumTokens
<1> QED
    BY <1>1, <1>2, <1>3, <1>4, <1>5, <1>6, <1>7, <1>8, <1>9, <1>10, <1>11, <1>12
    DEF Next, EngineStep

\* The types hold initially.
LEMMA TypesInit ==
    ASSUME Init
    PROVE  Types
<1>1. 0 \in 0..MaxOut /\ 0 \in 0..Budget /\ 0 \in 0..MaxPreempt /\ 0 \in 0..TailSteps
    BY Sizes
<1>2. /\ 0 \in 0..(MaxWait + TailSteps + 1)
      /\ None \in None..MaxWait /\ None \in None..LateHorizon
    BY Sizes DEF None
<1>3. \A r \in Req : Prompt(r) \in Nat /\ Prompt(r) > 0
    BY Sizes
<1>4. <<>> \in Seq(Req) /\ 1 \in 1..(Len(<<>>) + 1)
    OBVIOUS
<1>5. \A r \in Req : computed[r] < NumTokens(r)
    BY <1>3 DEF Init, NumTokens
<1> QED
    BY <1>1, <1>2, <1>4, <1>5 DEF Init, Types

-----------------------------------------------------------------------------
(***************************************************************************)
(* A decode is served in every step                                        *)
(***************************************************************************)

\* A step that leaves the running requests, their tokens and their chunks
\* alone, and the loop where it is, keeps DecodeNeverHeld.
LEMMA DecodeUnchanged ==
    ASSUME DecodeNeverHeld, UNCHANGED <<running, computed, out, sched, idx>>
    PROVE  DecodeNeverHeld'
BY DEF DecodeNeverHeld, AtLastToken, Decoding, NumTokens

\* The running loop has not begun.
LEMMA DecodeAtStart ==
    ASSUME idx' = 1
    PROVE  DecodeNeverHeld'
BY DEF DecodeNeverHeld

\* A visit that gives its request nothing was to one that does not decode.
LEMMA DecodePassed ==
    ASSUME Types, DecodeNeverHeld, idx' = idx + 1, ~AtLastToken(running[idx]),
           UNCHANGED <<running, computed, out, sched>>
    PROVE  DecodeNeverHeld'
<1>1. idx \in Nat /\ idx >= 1
    BY TokenTypes
<1> SUFFICES ASSUME NEW i \in 1..idx, AtLastToken(running[i]) PROVE sched[running[i]] > 0
    BY <1>1 DEF DecodeNeverHeld, AtLastToken, Decoding, NumTokens
<1>2. i # idx
    OBVIOUS
<1>3. i \in 1..(idx - 1)
    BY <1>1, <1>2
<1> QED
    BY <1>3 DEF DecodeNeverHeld

\* An allocation serves its request; a request it preempts starts over, so it
\* does not decode, and the others keep their chunks.
LEMMA DecodeAllocated ==
    ASSUME Types, DecodeNeverHeld, idx <= Len(running), UNCHANGED out,
           NEW n \in 1..budget, NEW k \in 0..(Len(running) - idx + 1),
           AllocatePreempting(running[idx], n, k)
    PROVE  DecodeNeverHeld'
<1> DEFINE r == running[idx]
           keep == Len(running) - k
           victims == SubSeq(running, keep + 1, Len(running))
<1>1. /\ keep \in Nat /\ idx <= keep + 1
      /\ \A i \in 1..keep : SubSeq(running, 1, keep)[i] = running[i]
      /\ r \notin Range(victims) => idx <= keep
    BY PreemptedQueues
<1>2. /\ idx \in Nat /\ idx >= 1 /\ budget \in Nat
      /\ \A q \in Req : /\ Prompt(q) \in Nat /\ Prompt(q) > 0 /\ sched[q] \in Nat
    BY TokenTypes
<1>3. r \in Req /\ n > 0 /\ \A i \in 1..Len(running) : running[i] \in Req
    <2>1. running \in Seq(Req)
        BY DEF Types
    <2>2. idx \in 1..Len(running)
        BY <1>2, TokenTypes
    <2> QED
        BY <1>2, <2>1, <2>2
<1> HIDE DEF r, keep, victims
<1>4. /\ running' = SubSeq(running, 1, keep)
      /\ computed' = [q \in Req |-> IF q \in Range(victims) THEN 0 ELSE computed[q]]
      /\ \/ r \in Range(victims) /\ UNCHANGED <<idx, sched>>
         \/ /\ r \notin Range(victims)
            /\ sched' = [sched EXCEPT ![r] = n]
            /\ idx' = idx + 1
    BY DEF AllocatePreempting, r, keep, victims
<1>5. \A q \in Req : computed'[q] >= Prompt(q) => computed'[q] = computed[q]
    BY <1>2, <1>4
<1>6. sched \in [Req -> 0..Budget]
    BY DEF Types
<1> SUFFICES ASSUME NEW i \in 1..(idx' - 1), AtLastToken(running[i])'
             PROVE  sched'[running'[i]] > 0
    BY DEF DecodeNeverHeld
<1>7. i \in 1..keep /\ i <= idx
    BY <1>1, <1>2, <1>4
<1>8. running'[i] = running[i] /\ running[i] \in Req
    <2>1. keep <= Len(running) /\ Len(running) \in Nat
        BY TokenTypes DEF keep
    <2> QED
        BY <1>1, <1>3, <1>4, <1>7, <2>1
<1>9. AtLastToken(running[i])
    BY <1>5, <1>8 DEF AtLastToken, Decoding, NumTokens
<1>10. CASE i <= idx - 1
    <2>1. sched[running[i]] > 0
        BY <1>2, <1>7, <1>9, <1>10 DEF DecodeNeverHeld
    <2>2. sched'[running[i]] = sched[running[i]] \/ sched'[running[i]] = n
        BY <1>4, <1>6, <1>8
    <2> QED
        BY <1>3, <1>8, <2>1, <2>2
<1>11. CASE i = idx
    <2>1. r \notin Range(victims)
        BY <1>2, <1>4, <1>11
    <2>2. sched'[r] = n
        BY <1>3, <1>4, <1>6, <2>1
    <2> QED
        BY <1>3, <1>8, <1>11, <2>2 DEF r
<1> QED
    BY <1>2, <1>7, <1>10, <1>11

\* An admission leaves the requests the running loop has passed alone.
LEMMA DecodeAdmitted ==
    ASSUME Types, DecodeNeverHeld, NEW r \in Req, NEW hit, NEW n \in Nat, n > 0,
           running' = Append(running, r),
           computed' = [computed EXCEPT ![r] = hit],
           sched' = [sched EXCEPT ![r] = n],
           UNCHANGED <<out, idx>>
    PROVE  DecodeNeverHeld'
<1>1. idx \in Nat /\ idx >= 1 /\ idx <= Len(running) + 1 /\ Len(running) \in Nat
    BY TokenTypes
<1>2. \A i \in 1..Len(running) : running'[i] = running[i] /\ running[i] \in Req
    BY AppendProperties DEF Types
<1>3. sched \in [Req -> 0..Budget] /\ computed \in [Req -> Nat]
    BY DEF Types
<1> SUFFICES ASSUME NEW i \in 1..(idx - 1), AtLastToken(running[i])'
             PROVE  sched'[running'[i]] > 0
    BY DEF DecodeNeverHeld
<1>4. i \in 1..Len(running)
    BY <1>1
<1>5. running'[i] = running[i] /\ running[i] \in Req
    BY <1>2, <1>4
<1>6. CASE running[i] = r
    BY <1>3, <1>5, <1>6
<1>7. CASE running[i] # r
    <2>1. computed'[running[i]] = computed[running[i]] /\ sched'[running[i]] = sched[running[i]]
        BY <1>3, <1>5, <1>7
    <2>2. AtLastToken(running[i])
        BY <1>5, <2>1 DEF AtLastToken, Decoding, NumTokens
    <2> QED
        BY <1>5, <2>1, <2>2 DEF DecodeNeverHeld
<1> QED
    BY <1>6, <1>7

\* Every step keeps DecodeNeverHeld when the warm bypass is on.
LEMMA DecodeStep ==
    ASSUME Types, DecodeNeverHeld, WarmTokens > 0, [Next]_vars
    PROVE  DecodeNeverHeld'
<1>1. CASE StartStep
    BY <1>1, DecodeAtStart DEF StartStep
<1>2. CASE DeferCold
    <2> DEFINE r == running[idx]
    <2>1. r \in Req /\ DefersCold(r)
        BY <1>2 DEF Types, DeferCold
    <2>2. Prompt(r) \in Nat /\ computed[r] \in Nat /\ DeferFloor \in Nat
        BY <2>1, TokenTypes, Sizes
    <2>3. Prompt(r) - computed[r] > DeferFloor
        BY <2>1 DEF DefersCold
    <2>4. ~AtLastToken(r)
        BY <2>2, <2>3 DEF AtLastToken, Decoding
    <2>5. idx' = idx + 1 /\ UNCHANGED <<running, computed, out, sched>>
        BY <1>2 DEF DeferCold, queues
    <2> QED
        BY <2>4, <2>5, DecodePassed
<1>3. CASE VisitRunning
    <2> DEFINE r == running[idx]
    <2>1. r \in Req /\ idx <= Len(running) /\ budget > 0 /\ UNCHANGED out
        BY <1>3, RunningVisit
    <2>2. RunChunk(r) \in 0..budget /\ (AtLastToken(r) => RunChunk(r) = 1)
        BY <2>1, RunChunkBounds
    <2>3. CASE /\ RunChunk(r) = 0
               /\ idx' = idx + 1
               /\ UNCHANGED <<running, computed, sched>>
        <3>1. ~AtLastToken(r)
            BY <2>2, <2>3
        <3> QED
            BY <2>1, <2>3, <3>1, DecodePassed
    <2>4. ASSUME RunChunk(r) > 0, NEW k \in 0..(Len(running) - idx + 1),
                 AllocatePreempting(r, RunChunk(r), k)
          PROVE  DecodeNeverHeld'
        <3>1. RunChunk(r) \in 1..budget
            BY <2>2, <2>4, TokenTypes
        <3> QED
            BY <2>1, <2>4, <3>1, DecodeAllocated
    <2> QED
        BY <1>3, <2>3, <2>4, RunningVisit
<1>4. CASE EndRunning
    BY <1>4, DecodeUnchanged DEF EndRunning, queues
<1>5. CASE HoldWaiter
    BY <1>5, DecodeUnchanged DEF HoldWaiter
<1>6. CASE VisitWaiting
    <2> DEFINE r == NextWaiter
    <2>1. r \in Req /\ UNCHANGED <<out, idx>>
        BY <1>6, WaitingVisit
    <2>2. \/ UNCHANGED <<running, computed, sched>>
          \/ /\ WaitChunk(r) > 0
             /\ running' = Append(running, r)
             /\ computed' = [computed EXCEPT ![r] = CacheHit(r)]
             /\ sched' = [sched EXCEPT ![r] = WaitChunk(r)]
        BY <1>6, WaitingVisit DEF queues
    <2>3. WaitChunk(r) \in Nat
        BY <2>1, WaitChunkBounds, TokenTypes
    <2>4. CASE UNCHANGED <<running, computed, sched>>
        BY <2>1, <2>4, DecodeUnchanged
    <2>5. CASE /\ WaitChunk(r) > 0
               /\ running' = Append(running, r)
               /\ computed' = [computed EXCEPT ![r] = CacheHit(r)]
               /\ sched' = [sched EXCEPT ![r] = WaitChunk(r)]
        BY <2>1, <2>3, <2>5, DecodeAdmitted
    <2> QED
        BY <2>2, <2>4, <2>5
<1>7. CASE EndStep
    BY <1>7, DecodeAtStart DEF EndStep
<1>8. ASSUME NEW r \in Req, Arrive(r) PROVE DecodeNeverHeld'
    BY <1>8, DecodeUnchanged DEF Arrive, step
<1>9. ASSUME NEW r \in Req, Leave(r) PROVE DecodeNeverHeld'
    BY <1>9, DecodeAtStart DEF Types, Leave, step
<1>10. ASSUME NEW p \in cached, Evict(p) PROVE DecodeNeverHeld'
    BY <1>10, DecodeUnchanged DEF Evict, queues, step
<1>12. ASSUME NEW p \in states, EvictState(p) PROVE DecodeNeverHeld'
    BY <1>12, DecodeUnchanged DEF EvictState, queues, step
<1>11. CASE UNCHANGED vars
    BY <1>11, DecodeUnchanged DEF vars
<1> QED
    BY <1>1, <1>2, <1>3, <1>4, <1>5, <1>6, <1>7, <1>8, <1>9, <1>10, <1>11, <1>12
    DEF Next, EngineStep

-----------------------------------------------------------------------------
(***************************************************************************)
(* Queues                                                                  *)
(***************************************************************************)

\* A queue of requests in which none occurs twice.
Distinct(q) == q \in Seq(Req) /\ IsInjective(q)

\* A queue without its head.
LEMMA TailFacts ==
    ASSUME NEW q, Distinct(q), q # <<>>
    PROVE  /\ Head(q) \in Range(q) /\ Head(q) \in Req
           /\ Distinct(Tail(q))
           /\ Range(Tail(q)) = Range(q) \ {Head(q)}
<1> DEFINE t == Tail(q)
<1>1. /\ t \in Seq(Req) /\ Len(q) \in Nat /\ Len(q) > 0 /\ Len(t) = Len(q) - 1
      /\ \A i \in 1..Len(t) : t[i] = q[i + 1]
      /\ Head(q) = q[1] /\ Head(q) \in Req
      /\ DOMAIN q = 1..Len(q) /\ DOMAIN t = 1..Len(t)
    BY DEF Distinct
<1> HIDE DEF t
<1>2. \A i, j \in 1..Len(q) : q[i] = q[j] => i = j
    BY <1>1 DEF Distinct, IsInjective
<1>3. \A i \in 1..Len(t) : i + 1 \in 1..Len(q) /\ i + 1 # 1
    BY <1>1
<1>4. Distinct(t)
    <2> SUFFICES ASSUME NEW i \in 1..Len(t), NEW j \in 1..Len(t), t[i] = t[j] PROVE i = j
        BY <1>1 DEF Distinct, IsInjective
    <2>1. i + 1 = j + 1
        BY <1>1, <1>2, <1>3
    <2> QED
        BY <2>1
<1>5. 1 \in 1..Len(q)
    BY <1>1
<1>6. ASSUME NEW x \in Range(t) PROVE x \in Range(q) \ {Head(q)}
    <2>1. PICK i \in 1..Len(t) : x = t[i]
        BY <1>1, <1>6 DEF Range
    <2>2. x = q[i + 1] /\ i + 1 \in 1..Len(q) /\ i + 1 # 1
        BY <1>1, <1>3, <2>1
    <2> QED
        BY <1>1, <1>2, <1>5, <2>2 DEF Range
<1>7. ASSUME NEW x \in Range(q), x # Head(q) PROVE x \in Range(t)
    <2>1. PICK i \in 1..Len(q) : x = q[i]
        BY <1>1, <1>7 DEF Range
    <2>2. i # 1
        BY <1>1, <1>7, <2>1
    <2>3. i - 1 \in 1..Len(t) /\ (i - 1) + 1 = i
        BY <1>1, <2>2
    <2>4. t[i - 1] = x
        BY <1>1, <2>1, <2>3
    <2> QED
        BY <1>1, <2>3, <2>4 DEF Range
<1>8. Head(q) \in Range(q)
    BY <1>1, <1>5 DEF Range
<1> QED
    BY <1>1, <1>4, <1>6, <1>7, <1>8 DEF t

\* Two queues with nothing in common, one behind the other.
LEMMA ConcatFacts ==
    ASSUME NEW p, NEW q, Distinct(p), Distinct(q), Range(p) \cap Range(q) = {}
    PROVE  Distinct(p \o q) /\ Range(p \o q) = Range(p) \cup Range(q)
<1> DEFINE u == p \o q
           m == Len(p)
           n == Len(q)
<1>1. /\ u \in Seq(Req) /\ m \in Nat /\ n \in Nat /\ Len(u) = m + n
      /\ \A i \in 1..m : u[i] = p[i]
      /\ \A i \in 1..n : u[m + i] = q[i]
      /\ DOMAIN p = 1..m /\ DOMAIN q = 1..n /\ DOMAIN u = 1..(m + n)
    BY DEF Distinct
<1> HIDE DEF u, m, n
<1>2. \A i \in 1..(m + n) : i \in 1..m \/ \E j \in 1..n : i = m + j
    <2> TAKE i \in 1..(m + n)
    <2>1. CASE i <= m
        BY <1>1, <2>1
    <2>2. CASE i > m
        <3>1. i - m \in 1..n /\ i = m + (i - m)
            BY <1>1, <2>2
        <3> QED
            BY <3>1
    <2> QED
        BY <1>1, <2>1, <2>2
<1>3. (\A i \in 1..m : i \in 1..(m + n)) /\ (\A j \in 1..n : m + j \in 1..(m + n))
    BY <1>1
<1>4. (\A i, j \in 1..m : p[i] = p[j] => i = j) /\ (\A i, j \in 1..n : q[i] = q[j] => i = j)
    BY <1>1 DEF Distinct, IsInjective
<1>5. \A i \in 1..m, j \in 1..n : p[i] # q[j]
    BY <1>1 DEF Range
<1>6. Distinct(u)
    <2> SUFFICES ASSUME NEW i \in 1..(m + n), NEW j \in 1..(m + n), u[i] = u[j] PROVE i = j
        BY <1>1 DEF Distinct, IsInjective
    <2>1. CASE i \in 1..m /\ j \in 1..m
        BY <1>1, <1>4, <2>1
    <2>2. ASSUME NEW k \in 1..n, NEW l \in 1..n, i = m + k, j = m + l PROVE i = j
        BY <1>1, <1>4, <2>2
    <2>3. ASSUME NEW k \in 1..n, i \in 1..m, j = m + k PROVE FALSE
        BY <1>1, <1>5, <2>3
    <2>4. ASSUME NEW k \in 1..n, j \in 1..m, i = m + k PROVE FALSE
        BY <1>1, <1>5, <2>4
    <2> QED
        BY <1>2, <2>1, <2>2, <2>3, <2>4
<1>7. ASSUME NEW x \in Range(u) PROVE x \in Range(p) \cup Range(q)
    <2>1. PICK i \in 1..(m + n) : x = u[i]
        BY <1>1, <1>7 DEF Range
    <2>2. CASE i \in 1..m
        BY <1>1, <2>1, <2>2 DEF Range
    <2>3. ASSUME NEW j \in 1..n, i = m + j PROVE x \in Range(q)
        BY <1>1, <2>1, <2>3 DEF Range
    <2> QED
        BY <1>2, <2>2, <2>3
<1>8. ASSUME NEW x \in Range(p) PROVE x \in Range(u)
    BY <1>1, <1>3, <1>8 DEF Range
<1>9. ASSUME NEW x \in Range(q) PROVE x \in Range(u)
    BY <1>1, <1>3, <1>9 DEF Range
<1> QED
    BY <1>6, <1>7, <1>8, <1>9 DEF u

\* A request behind a queue it is not in.
LEMMA AppendFacts ==
    ASSUME NEW q, Distinct(q), NEW r \in Req, r \notin Range(q)
    PROVE  Distinct(Append(q, r)) /\ Range(Append(q, r)) = Range(q) \cup {r}
<1>1. <<r>> \in Seq(Req) /\ DOMAIN <<r>> = 1..1 /\ <<r>>[1] = r
    OBVIOUS
<1>2. Distinct(<<r>>) /\ Range(<<r>>) = {r}
    BY <1>1 DEF Distinct, IsInjective, Range
<1>3. Append(q, r) = q \o <<r>>
    BY DEF Distinct
<1>4. Range(q) \cap Range(<<r>>) = {}
    BY <1>2
<1> HIDE DEF Distinct
<1> QED
    BY <1>2, <1>3, <1>4, ConcatFacts, Zenon

\* A queue cut in two.
LEMMA CutFacts ==
    ASSUME NEW q, Distinct(q), NEW m \in 0..Len(q)
    PROVE  LET p == SubSeq(q, 1, m)
               s == SubSeq(q, m + 1, Len(q))
           IN /\ Distinct(p) /\ Distinct(s)
              /\ Range(p) \cap Range(s) = {}
              /\ Range(p) \cup Range(s) = Range(q)
              /\ Len(p) = m /\ \A i \in 1..m : p[i] = q[i]
              /\ \A x \in Range(s) : \E i \in (m + 1)..Len(q) : q[i] = x
              /\ \A i \in (m + 1)..Len(q) : q[i] \in Range(s)
<1> DEFINE p == SubSeq(q, 1, m)
           s == SubSeq(q, m + 1, Len(q))
           n == Len(q)
<1>1. /\ n \in Nat /\ q \in Seq(Req) /\ DOMAIN q = 1..n /\ m \in Nat /\ m <= n
      /\ \A i, j \in 1..n : q[i] = q[j] => i = j
      /\ \A i \in 1..n : q[i] \in Req
    BY DEF Distinct, IsInjective
<1>2. /\ p \in Seq(Req) /\ Len(p) = m /\ DOMAIN p = 1..m
      /\ \A i \in 1..m : p[i] = q[i]
    BY <1>1, SubSeqProperties
<1>3. /\ s \in Seq(Req) /\ Len(s) = n - m /\ DOMAIN s = 1..(n - m)
      /\ \A i \in 1..(n - m) : s[i] = q[m + i]
    <2>1. m + 1 \in 1..(n + 1) /\ n - (m + 1) + 1 = n - m
        BY <1>1
    <2>2. \A i \in 1..(n - m) : m + 1 + i - 1 = m + i
        BY <1>1
    <2>3. \A i \in (m + 1)..n : q[i] \in Req
        BY <1>1
    <2>4. /\ s \in Seq(Req) /\ Len(s) = IF m + 1 <= n THEN n - m ELSE 0
          /\ \A i \in 1..(n - m) : s[i] = q[m + i]
        BY <1>1, <2>1, <2>2, <2>3, SubSeqProperties
    <2> HIDE DEF s, n
    <2>5. Len(s) = n - m
        BY <1>1, <2>4
    <2> QED
        BY <2>4, <2>5
<1> HIDE DEF p, s, n
<1>4. /\ \A i \in 1..m : i \in 1..n
      /\ \A i \in 1..(n - m) : m + i \in 1..n /\ m + i \in (m + 1)..n /\ m + i \notin 1..m
    BY <1>1
<1>5. \A i \in (m + 1)..n : i - m \in 1..(n - m) /\ m + (i - m) = i
    BY <1>1
<1>6. Distinct(p)
    BY <1>1, <1>2, <1>4 DEF Distinct, IsInjective
<1>7. Distinct(s)
    <2> SUFFICES ASSUME NEW i \in 1..(n - m), NEW j \in 1..(n - m), s[i] = s[j] PROVE i = j
        BY <1>3 DEF Distinct, IsInjective
    <2>1. m + i = m + j
        BY <1>1, <1>3, <1>4
    <2> QED
        BY <1>1, <2>1
<1>8. \A i \in (m + 1)..n : q[i] \in Range(s)
    <2> TAKE i \in (m + 1)..n
    <2>1. s[i - m] = q[i]
        BY <1>3, <1>5
    <2> QED
        BY <1>3, <1>5, <2>1 DEF Range
<1>9. \A x \in Range(s) : \E i \in (m + 1)..n : q[i] = x
    <2> TAKE x \in Range(s)
    <2>1. PICK i \in 1..(n - m) : x = s[i]
        BY <1>3 DEF Range
    <2> QED
        BY <1>3, <1>4, <2>1
<1>10. Range(p) \cap Range(s) = {}
    <2> SUFFICES ASSUME NEW x \in Range(p), x \in Range(s) PROVE FALSE
        OBVIOUS
    <2>1. PICK i \in 1..m : x = p[i]
        BY <1>2 DEF Range
    <2>2. PICK j \in 1..(n - m) : x = s[j]
        BY <1>3 DEF Range
    <2>3. q[i] = q[m + j] /\ i \in 1..n /\ m + j \in 1..n
        BY <1>2, <1>3, <1>4, <2>1, <2>2
    <2>4. i = m + j
        BY <1>1, <2>3
    <2> QED
        BY <1>4, <2>4
<1>11. ASSUME NEW x \in Range(q) PROVE x \in Range(p) \cup Range(s)
    <2>1. PICK i \in 1..n : x = q[i]
        BY <1>1 DEF Range
    <2>2. CASE i \in 1..m
        BY <1>2, <2>1, <2>2 DEF Range
    <2>3. CASE i \in (m + 1)..n
        BY <1>8, <2>1, <2>3
    <2> QED
        BY <1>1, <2>2, <2>3
<1>12. ASSUME NEW x \in Range(p) PROVE x \in Range(q)
    BY <1>1, <1>2, <1>4, <1>12 DEF Range
<1>13. ASSUME NEW x \in Range(s) PROVE x \in Range(q)
    BY <1>1, <1>3, <1>4, <1>13 DEF Range
<1>14. Range(p) \cup Range(s) = Range(q)
    BY <1>11, <1>12, <1>13
<1> QED
    BY <1>2, <1>6, <1>7, <1>8, <1>9, <1>10, <1>14 DEF p, s, n

\* A queue without one request.
LEMMA RemoveFacts ==
    ASSUME NEW q, Distinct(q), NEW r
    PROVE  Distinct(RemoveFirst(q, r)) /\ Range(RemoveFirst(q, r)) = Range(q) \ {r}
<1>1. CASE \E i \in 1..Len(q) : q[i] = r
    <2> DEFINE I == {i \in 1..Len(q) : q[i] = r}
               k == Min(I)
               p == SubSeq(q, 1, k - 1)
               s == SubSeq(q, k, Len(q))
               t == SubSeq(q, k + 1, Len(q))
    <2>1. I \subseteq Nat /\ I # {}
        BY <1>1
    <2>2. k \in 1..Len(q) /\ q[k] = r
        BY <2>1, MinIsLeast
    <2>3. RemoveFirst(q, r) = p \o t
        BY <1>1, <2>1 DEF RemoveFirst, SelectInSeq, RemoveAt
    <2> HIDE DEF I, k
    <2>4. Len(q) \in Nat /\ q \in Seq(Req) /\ DOMAIN q = 1..Len(q)
        BY DEF Distinct
    <2>5. k - 1 \in 0..Len(q) /\ k \in 0..Len(q) /\ (k - 1) + 1 = k
        BY <2>2, <2>4
    <2>6. /\ Distinct(p) /\ Range(p) \cap Range(s) = {} /\ Range(p) \cup Range(s) = Range(q)
          /\ \A i \in k..Len(q) : q[i] \in Range(s)
        BY <2>5, CutFacts
    <2>7. /\ Distinct(t) /\ Range(SubSeq(q, 1, k)) \cap Range(t) = {}
          /\ Range(SubSeq(q, 1, k)) \cup Range(t) = Range(q)
          /\ Len(SubSeq(q, 1, k)) = k /\ \A i \in 1..k : SubSeq(q, 1, k)[i] = q[i]
          /\ \A x \in Range(t) : \E i \in (k + 1)..Len(q) : q[i] = x
        BY <2>5, CutFacts
    <2>8. \A x \in Range(t) : x \in Range(s) /\ x # r
        <3> TAKE x \in Range(t)
        <3>1. PICK i \in (k + 1)..Len(q) : q[i] = x
            BY <2>7
        <3>2. i \in k..Len(q) /\ i # k /\ i \in 1..Len(q)
            BY <2>2, <2>4
        <3>3. x # r
            BY <2>2, <2>4, <3>1, <3>2 DEF Distinct, IsInjective
        <3> QED
            BY <2>6, <3>1, <3>2, <3>3
    <2>9. \A x \in Range(s) : x = r \/ x \in Range(t)
        <3> TAKE x \in Range(s)
        <3>1. x \in Range(q)
            BY <2>6
        <3>2. CASE x \in Range(SubSeq(q, 1, k))
            <4>0. SubSeq(q, 1, k) \in Seq(Req)
                BY <2>5, CutFacts DEF Distinct
            <4>1. PICK i \in 1..k : SubSeq(q, 1, k)[i] = x
                BY <2>7, <3>2, <4>0 DEF Range
            <4>2. q[i] = x
                BY <2>7, <4>1
            <4>3. CASE i = k
                BY <2>2, <4>2, <4>3
            <4>4. CASE i # k
                <5>0. k \in Nat
                    BY <2>2, <2>4
                <5>1. i \in 1..(k - 1)
                    BY <4>4, <5>0
                <5>2. p \in Seq(Req) /\ Len(p) = k - 1 /\ p[i] = q[i]
                    BY <2>5, <5>1, CutFacts DEF Distinct
                <5> HIDE DEF p
                <5>3. i \in DOMAIN p /\ p[i] = x
                    BY <4>2, <5>1, <5>2
                <5>4. x \in Range(p)
                    BY <5>3, Zenon DEF Range
                <5> QED
                    BY <2>6, <5>4
            <4> QED
                BY <4>3, <4>4
        <3> QED
            BY <2>7, <3>1, <3>2
    <2>10. r \in Range(s)
        <3>1. k \in k..Len(q)
            BY <2>2, <2>4
        <3> QED
            BY <2>2, <2>6, <3>1
    <2> HIDE DEF p, s, t
    <2>11. Range(p) \cap Range(t) = {} /\ Range(p) \cup Range(t) = Range(q) \ {r}
        BY <2>6, <2>8, <2>9, <2>10
    <2>12. Distinct(p) /\ Distinct(t)
        BY <2>6, <2>7
    <2>13. Distinct(p \o t) /\ Range(p \o t) = Range(p) \cup Range(t)
        BY <2>11, <2>12, ConcatFacts
    <2> QED
        BY <2>3, <2>11, <2>13
<1>2. CASE ~ \E i \in 1..Len(q) : q[i] = r
    <2>1. RemoveFirst(q, r) = q
        BY <1>2 DEF RemoveFirst
    <2>2. DOMAIN q = 1..Len(q)
        BY DEF Distinct
    <2>3. r \notin Range(q)
        BY <1>2, <2>2 DEF Range
    <2> QED
        BY <2>1, <2>3
<1> QED
    BY <1>1, <1>2

-----------------------------------------------------------------------------
(***************************************************************************)
(* A live request is in one place of one queue                             *)
(***************************************************************************)

\* No request is in two queues or twice in one; a request is queued exactly
\* while it lives; nothing is set aside between steps.
QueuesAreApart ==
    /\ Distinct(waiting) /\ Distinct(skipped) /\ Distinct(running) /\ Distinct(held)
    /\ Range(waiting) \cap Range(skipped) = {}
    /\ Range(waiting) \cap Range(running) = {}
    /\ Range(waiting) \cap Range(held) = {}
    /\ Range(skipped) \cap Range(running) = {}
    /\ Range(skipped) \cap Range(held) = {}
    /\ Range(running) \cap Range(held) = {}
    /\ \A r \in Req : life[r] = "live" <=>
           r \in Range(waiting) \cup Range(skipped) \cup Range(running) \cup Range(held)
    /\ spc = "idle" => held = <<>>

\* The empty queue.
LEMMA EmptyFacts == Distinct(<<>>) /\ Range(<<>>) = {}
BY DEF Distinct, IsInjective, Range

\* The next waiter leaves its queue and is in no other.
LEMMA PopFacts ==
    ASSUME QueuesAreApart, MoreWaiting
    PROVE  /\ NextWaiter \in Req
           /\ NextWaiter \in Range(waiting) \cup Range(skipped)
           /\ NextWaiter \notin Range(running) /\ NextWaiter \notin Range(held)
           /\ PopWaiter =>
                /\ Distinct(waiting') /\ Distinct(skipped')
                /\ Range(waiting') \subseteq Range(waiting)
                /\ Range(skipped') \subseteq Range(skipped)
                /\ Range(waiting') \cup Range(skipped')
                     = (Range(waiting) \cup Range(skipped)) \ {NextWaiter}
<1>0. /\ Distinct(waiting) /\ Distinct(skipped)
      /\ Range(waiting) \cap Range(skipped) = {}
      /\ Range(waiting) \cap Range(running) = {}
      /\ Range(waiting) \cap Range(held) = {}
      /\ Range(skipped) \cap Range(running) = {}
      /\ Range(skipped) \cap Range(held) = {}
    BY DEF QueuesAreApart
<1>1. CASE skipped # <<>>
    <2>1. /\ Head(skipped) \in Range(skipped) /\ Head(skipped) \in Req
          /\ Distinct(Tail(skipped))
          /\ Range(Tail(skipped)) = Range(skipped) \ {Head(skipped)}
        BY <1>0, <1>1, TailFacts
    <2>2. NextWaiter = Head(skipped)
        BY <1>1 DEF NextWaiter
    <2>3. PopWaiter => skipped' = Tail(skipped) /\ waiting' = waiting
        BY <1>1 DEF PopWaiter
    <2> QED
        BY <1>0, <2>1, <2>2, <2>3
<1>2. CASE skipped = <<>>
    <2>0. waiting # <<>>
        BY <1>2 DEF MoreWaiting
    <2>1. /\ Head(waiting) \in Range(waiting) /\ Head(waiting) \in Req
          /\ Distinct(Tail(waiting))
          /\ Range(Tail(waiting)) = Range(waiting) \ {Head(waiting)}
        BY <1>0, <2>0, TailFacts
    <2>2. NextWaiter = Head(waiting)
        BY <1>2 DEF NextWaiter
    <2>3. PopWaiter => waiting' = Tail(waiting) /\ skipped' = skipped
        BY <1>2 DEF PopWaiter
    <2>4. Range(skipped) = {}
        BY <1>2, EmptyFacts
    <2> QED
        BY <1>0, <2>1, <2>2, <2>3, <2>4
<1> QED
    BY <1>1, <1>2

\* A preempting allocation moves the last running requests to the head of the
\* waiting queue; none of them was visited in this step.
LEMMA PreemptFacts ==
    ASSUME Types, QueuesAreApart, idx <= Len(running), NEW n,
           NEW k \in 0..(Len(running) - idx + 1),
           AllocatePreempting(running[idx], n, k)
    PROVE  /\ Distinct(waiting') /\ Distinct(running')
           /\ Range(waiting) \subseteq Range(waiting')
           /\ Range(waiting') \cap Range(running') = {}
           /\ Range(waiting') \cup Range(running') = Range(waiting) \cup Range(running)
           /\ \A q \in Range(waiting') : q \in Range(waiting)
                                         \/ \E i \in idx..Len(running) : running[i] = q
           /\ Len(running') <= Len(running)
           /\ \A i \in 1..Len(running') : running'[i] = running[i]
<1> DEFINE m == Len(running) - k
           p == SubSeq(running, 1, m)
           s == SubSeq(running, m + 1, Len(running))
<1>1. idx \in Nat /\ idx >= 1 /\ Len(running) \in Nat /\ running \in Seq(Req)
    BY TokenTypes DEF Types
<1>2. m \in 0..Len(running) /\ m \in Nat /\ idx <= m + 1 /\ m <= Len(running)
    BY <1>1
<1>3. Distinct(running) /\ Distinct(waiting) /\ Range(waiting) \cap Range(running) = {}
    BY DEF QueuesAreApart
<1>4. /\ Distinct(p) /\ Distinct(s)
      /\ Range(p) \cap Range(s) = {}
      /\ Range(p) \cup Range(s) = Range(running)
      /\ Len(p) = m /\ \A i \in 1..m : p[i] = running[i]
      /\ \A x \in Range(s) : \E i \in (m + 1)..Len(running) : running[i] = x
    BY <1>2, <1>3, CutFacts
<1>5. running' = p /\ waiting' = s \o waiting
    BY DEF AllocatePreempting
<1> HIDE DEF m, p, s
<1>6. Range(s) \cap Range(waiting) = {}
    BY <1>3, <1>4
<1>7. Distinct(s \o waiting) /\ Range(s \o waiting) = Range(s) \cup Range(waiting)
    BY <1>3, <1>4, <1>6, ConcatFacts
<1>8. \A i \in (m + 1)..Len(running) : i \in idx..Len(running)
    BY <1>1, <1>2
<1>9. \A q \in Range(s) : \E i \in idx..Len(running) : running[i] = q
    BY <1>4, <1>8
<1> QED
    BY <1>2, <1>3, <1>4, <1>5, <1>6, <1>7, <1>9

\* Every step keeps the queues apart.
LEMMA ApartStep ==
    ASSUME Types, QueuesAreApart, [Next]_vars
    PROVE  QueuesAreApart'
<1>0. /\ Distinct(waiting) /\ Distinct(skipped) /\ Distinct(running) /\ Distinct(held)
      /\ Range(waiting) \cap Range(skipped) = {}
      /\ Range(waiting) \cap Range(running) = {}
      /\ Range(waiting) \cap Range(held) = {}
      /\ Range(skipped) \cap Range(running) = {}
      /\ Range(skipped) \cap Range(held) = {}
      /\ Range(running) \cap Range(held) = {}
      /\ \A r \in Req : life[r] = "live" <=>
           r \in Range(waiting) \cup Range(skipped) \cup Range(running) \cup Range(held)
    BY DEF QueuesAreApart
<1> USE <1>0
<1>u. ASSUME UNCHANGED <<life, waiting, skipped, running, held>>, spc' = "idle" => spc = "idle"
      PROVE  QueuesAreApart'
    BY <1>u DEF QueuesAreApart
<1>1. CASE StartStep
    <2>1. UNCHANGED <<life, waiting, skipped, running>> /\ held' = <<>> /\ spc' = "running"
        BY <1>1 DEF StartStep, queues
    <2>2. held = <<>>
        BY <1>1 DEF StartStep, QueuesAreApart
    <2> QED
        BY <1>u, <2>1, <2>2
<1>2. CASE DeferCold
    BY <1>2, <1>u DEF DeferCold, queues
<1>3. CASE VisitRunning
    <2> DEFINE r == running[idx]
    <2>1. /\ idx <= Len(running) /\ spc = "running"
          /\ UNCHANGED <<life, skipped, held>>
        BY <1>3, RunningVisit
    <2>2. CASE UNCHANGED <<running, waiting, spc>>
        BY <1>u, <2>1, <2>2
    <2>3. ASSUME NEW k \in 0..(Len(running) - idx + 1),
                 AllocatePreempting(r, RunChunk(r), k)
          PROVE  QueuesAreApart'
        <3>1. /\ Distinct(waiting') /\ Distinct(running')
              /\ Range(waiting') \cap Range(running') = {}
              /\ Range(waiting') \cup Range(running') = Range(waiting) \cup Range(running)
            BY <2>1, <2>3, PreemptFacts
        <3>2. spc' # "idle"
            BY <2>1, <2>3 DEF AllocatePreempting
        <3>3. /\ Range(waiting') \cap Range(skipped) = {}
              /\ Range(waiting') \cap Range(held) = {}
              /\ Range(skipped) \cap Range(running') = {}
              /\ Range(running') \cap Range(held) = {}
            BY <3>1
        <3>4. \A q \in Req : life[q] = "live" <=>
                q \in Range(waiting') \cup Range(skipped) \cup Range(running') \cup Range(held)
            BY <3>1
        <3> QED
            BY <2>1, <3>1, <3>2, <3>3, <3>4 DEF QueuesAreApart
    <2> QED
        BY <1>3, <2>2, <2>3, RunningVisit
<1>4. CASE EndRunning
    BY <1>4, <1>u DEF EndRunning, queues
<1>p. ASSUME MoreWaiting, PopWaiter, held' = Append(held, NextWaiter), spc' # "idle",
             UNCHANGED <<life, running>>
      PROVE  QueuesAreApart'
    <2>1. /\ NextWaiter \in Req
          /\ NextWaiter \in Range(waiting) \cup Range(skipped)
          /\ NextWaiter \notin Range(running) /\ NextWaiter \notin Range(held)
          /\ Distinct(waiting') /\ Distinct(skipped')
          /\ Range(waiting') \subseteq Range(waiting)
          /\ Range(skipped') \subseteq Range(skipped)
          /\ Range(waiting') \cup Range(skipped')
                     = (Range(waiting) \cup Range(skipped)) \ {NextWaiter}
        BY <1>p, PopFacts
    <2>2. Distinct(held') /\ Range(held') = Range(held) \cup {NextWaiter}
        BY <1>p, <2>1, AppendFacts
    <2>3. /\ Range(waiting') \cap Range(skipped') = {}
          /\ Range(waiting') \cap Range(running) = {}
          /\ Range(waiting') \cap Range(held') = {}
          /\ Range(skipped') \cap Range(running) = {}
          /\ Range(skipped') \cap Range(held') = {}
          /\ Range(running) \cap Range(held') = {}
        BY <2>1, <2>2
    <2>4. \A q \in Req : life[q] = "live" <=>
            q \in Range(waiting') \cup Range(skipped') \cup Range(running) \cup Range(held')
        BY <2>1, <2>2
    <2> QED
        BY <1>p, <2>1, <2>2, <2>3, <2>4 DEF QueuesAreApart
<1>5. CASE HoldWaiter
    BY <1>5, <1>p DEF HoldWaiter
<1>6. CASE VisitWaiting
    <2> DEFINE r == NextWaiter
    <2>1. /\ r \in Req /\ spc = "waiting" /\ UNCHANGED life
        BY <1>6, WaitingVisit
    <2>2. MoreWaiting
        BY <1>6 DEF VisitWaiting
    <2>3. CASE PopWaiter /\ held' = Append(held, r) /\ UNCHANGED <<running, spc>>
        BY <1>p, <2>1, <2>2, <2>3
    <2>4. CASE spc' = "end" /\ UNCHANGED <<waiting, skipped, running, held>>
        BY <1>u, <2>1, <2>4
    <2>5. CASE PopWaiter /\ running' = Append(running, r) /\ UNCHANGED <<spc, held>>
        <3>1. /\ r \in Range(waiting) \cup Range(skipped)
              /\ r \notin Range(running) /\ r \notin Range(held)
              /\ Distinct(waiting') /\ Distinct(skipped')
              /\ Range(waiting') \subseteq Range(waiting)
              /\ Range(skipped') \subseteq Range(skipped)
              /\ Range(waiting') \cup Range(skipped')
                         = (Range(waiting) \cup Range(skipped)) \ {r}
            BY <2>2, <2>5, PopFacts
        <3>2. Distinct(running') /\ Range(running') = Range(running) \cup {r}
            BY <2>1, <2>5, <3>1, AppendFacts
        <3> HIDE DEF r
        <3>3. /\ Range(waiting') \cap Range(skipped') = {}
              /\ Range(waiting') \cap Range(running') = {}
              /\ Range(waiting') \cap Range(held) = {}
              /\ Range(skipped') \cap Range(running') = {}
              /\ Range(skipped') \cap Range(held) = {}
              /\ Range(running') \cap Range(held) = {}
            BY <3>1, <3>2
        <3>4. \A q \in Req : life[q] = "live" <=>
                q \in Range(waiting') \cup Range(skipped') \cup Range(running') \cup Range(held)
            BY <3>1, <3>2
        <3> QED
            BY <2>1, <2>5, <3>1, <3>2, <3>3, <3>4 DEF QueuesAreApart
    <2>6. \/ PopWaiter /\ held' = Append(held, r) /\ UNCHANGED <<running, spc>>
          \/ spc' = "end" /\ UNCHANGED <<waiting, skipped, running, held>>
          \/ PopWaiter /\ running' = Append(running, r) /\ UNCHANGED <<spc, held>>
        BY <1>6, WaitingVisit DEF queues
    <2> QED
        BY <2>3, <2>4, <2>5, <2>6
<1>7. CASE EndStep
    <2>1. skipped' = held \o skipped /\ held' = <<>> /\ UNCHANGED <<life, waiting, running>>
        BY <1>7 DEF EndStep
    <2>2. Distinct(skipped') /\ Range(skipped') = Range(held) \cup Range(skipped)
        BY <2>1, ConcatFacts
    <2>3. Distinct(held') /\ Range(held') = {}
        BY <2>1, EmptyFacts
    <2>4. /\ Range(waiting) \cap Range(skipped') = {}
          /\ Range(skipped') \cap Range(running) = {}
        BY <2>2
    <2>5. \A q \in Req : life[q] = "live" <=>
            q \in Range(waiting) \cup Range(skipped') \cup Range(running) \cup Range(held')
        BY <2>2, <2>3
    <2> QED
        BY <2>1, <2>2, <2>3, <2>4, <2>5 DEF QueuesAreApart
<1>8. ASSUME NEW r \in Req, Arrive(r) PROVE QueuesAreApart'
    <2>1. /\ spc = "idle" /\ life[r] = "new" /\ life' = [life EXCEPT ![r] = "live"]
          /\ waiting' = Append(waiting, r)
          /\ UNCHANGED <<skipped, running, held, spc>>
        BY <1>8 DEF Arrive, step
    <2>2. /\ r \notin Range(waiting) /\ r \notin Range(skipped)
          /\ r \notin Range(running) /\ r \notin Range(held)
        BY <2>1
    <2>3. Distinct(waiting') /\ Range(waiting') = Range(waiting) \cup {r}
        BY <2>1, <2>2, AppendFacts
    <2>4. \A q \in Req : life'[q] = "live" <=> (life[q] = "live" \/ q = r)
        BY <2>1 DEF Types
    <2>5. /\ Range(waiting') \cap Range(skipped) = {}
          /\ Range(waiting') \cap Range(running) = {}
          /\ Range(waiting') \cap Range(held) = {}
        BY <2>2, <2>3
    <2>6. \A q \in Req : life'[q] = "live" <=>
            q \in Range(waiting') \cup Range(skipped) \cup Range(running) \cup Range(held)
        BY <2>3, <2>4
    <2>7. spc = "idle" => held = <<>>
        BY DEF QueuesAreApart
    <2> QED
        BY <2>1, <2>3, <2>5, <2>6, <2>7 DEF QueuesAreApart
<1>9. ASSUME NEW r \in Req, Leave(r) PROVE QueuesAreApart'
    <2>1. /\ spc = "idle" /\ life' = [life EXCEPT ![r] = "done"]
          /\ waiting' = RemoveFirst(waiting, r)
          /\ skipped' = RemoveFirst(skipped, r)
          /\ running' = RemoveFirst(running, r)
          /\ UNCHANGED <<held, spc>>
        BY <1>9 DEF Leave, step
    <2>2. Distinct(waiting') /\ Range(waiting') = Range(waiting) \ {r}
        BY <2>1, RemoveFacts
    <2>3. Distinct(skipped') /\ Range(skipped') = Range(skipped) \ {r}
        BY <2>1, RemoveFacts
    <2>4. Distinct(running') /\ Range(running') = Range(running) \ {r}
        BY <2>1, RemoveFacts
    <2>5. held = <<>> /\ Range(held) = {}
        BY <2>1, EmptyFacts DEF QueuesAreApart
    <2>6. \A q \in Req : life'[q] = "live" <=> (life[q] = "live" /\ q # r)
        BY <2>1 DEF Types
    <2>7. /\ Range(waiting') \cap Range(skipped') = {}
          /\ Range(waiting') \cap Range(running') = {}
          /\ Range(waiting') \cap Range(held) = {}
          /\ Range(skipped') \cap Range(running') = {}
          /\ Range(skipped') \cap Range(held) = {}
          /\ Range(running') \cap Range(held) = {}
        BY <2>2, <2>3, <2>4, <2>5
    <2>8. \A q \in Req : life'[q] = "live" <=>
            q \in Range(waiting') \cup Range(skipped') \cup Range(running') \cup Range(held)
        BY <2>2, <2>3, <2>4, <2>5, <2>6
    <2> QED
        BY <2>1, <2>2, <2>3, <2>4, <2>5, <2>7, <2>8 DEF QueuesAreApart
<1>10. ASSUME NEW p \in cached, Evict(p) PROVE QueuesAreApart'
    BY <1>10, <1>u DEF Evict, queues, step
<1>12. ASSUME NEW p \in states, EvictState(p) PROVE QueuesAreApart'
    BY <1>12, <1>u DEF EvictState, queues, step
<1>11. CASE UNCHANGED vars
    BY <1>11, <1>u DEF vars
<1> QED
    BY <1>1, <1>2, <1>3, <1>4, <1>5, <1>6, <1>7, <1>8, <1>9, <1>10, <1>11, <1>12
    DEF Next, EngineStep

\* The queues start apart.
LEMMA ApartInit == Init => QueuesAreApart
<1>1. ASSUME Init PROVE \A r \in Req : life[r] # "live"
    BY <1>1 DEF Init
<1> QED
    BY <1>1, EmptyFacts DEF Init, QueuesAreApart

\* TypeOK follows from the types and the queues.
LEMMA TypesAndQueues ==
    ASSUME Types, QueuesAreApart
    PROVE  TypeOK
<1>1. \A r \in Req : computed[r] \in 0..(NumTokens(r) - 1)
    BY TokenTypes
<1>2. \A q \in {waiting, skipped, running, held} : IsInjective(q)
    BY DEF QueuesAreApart, Distinct
<1> QED
    BY <1>1, <1>2 DEF Types, QueuesAreApart, TypeOK

-----------------------------------------------------------------------------
(***************************************************************************)
(* The tail mark                                                           *)
(***************************************************************************)

\* The mark and the hit it was set from change together, and only for a request
\* that is not running: one that waits, or the one that is admitted.
LEMMA MarkStep ==
    ASSUME Types, QueuesAreApart, MarkIsOfAdmission, [Next]_vars
    PROVE  MarkIsOfAdmission'
<1>u. ASSUME UNCHANGED <<tail, admitted>>, Range(running') \subseteq Range(running)
      PROVE  MarkIsOfAdmission'
    BY <1>u DEF MarkIsOfAdmission
<1>1. CASE StartStep
    BY <1>1, <1>u DEF StartStep, queues
<1>2. CASE DeferCold
    BY <1>2, <1>u DEF DeferCold, queues
<1>3. CASE VisitRunning
    <2>1. idx <= Len(running) /\ UNCHANGED <<tail, admitted>>
        BY <1>3, RunningVisit
    <2>2. ASSUME NEW k \in 0..(Len(running) - idx + 1),
                 AllocatePreempting(running[idx], RunChunk(running[idx]), k)
          PROVE  Range(running') \subseteq Range(running)
        <3>1. /\ Range(waiting) \subseteq Range(waiting')
              /\ Range(waiting') \cap Range(running') = {}
              /\ Range(waiting') \cup Range(running') = Range(waiting) \cup Range(running)
            BY <2>1, <2>2, PreemptFacts
        <3> QED
            BY <3>1
    <2>3. \/ UNCHANGED running
          \/ \E k \in 0..(Len(running) - idx + 1) :
                 AllocatePreempting(running[idx], RunChunk(running[idx]), k)
        BY <1>3, RunningVisit
    <2> QED
        BY <1>u, <2>1, <2>2, <2>3
<1>4. CASE EndRunning
    BY <1>4, <1>u DEF EndRunning, queues
<1>5. CASE HoldWaiter
    BY <1>5, <1>u DEF HoldWaiter
<1>6. CASE VisitWaiting
    <2> DEFINE r == NextWaiter
    <2>1. r \in Req /\ NoteResidentTail(r, CacheHit(r))
        BY <1>6, WaitingVisit
    <2>2. MoreWaiting
        BY <1>6 DEF VisitWaiting
    <2>3. r \notin Range(running)
        BY <2>2, PopFacts
    <2>4. \A q \in Range(running) : q \in Req /\ q # r
        BY <2>3 DEF Types, Range
    <2>5. /\ \A q \in Range(running) : tail'[q] = tail[q]
          /\ tail'[r] = 1 <=> IsResidentTail(CacheHit(r), Prompt(r))
        BY <2>1, <2>4 DEF NoteResidentTail, Types
    <2>6. CASE UNCHANGED <<running, admitted>>
        BY <2>5, <2>6 DEF MarkIsOfAdmission
    <2>7. CASE /\ running' = Append(running, r)
               /\ admitted' = [admitted EXCEPT ![r] = CacheHit(r)]
        <3>1. Range(running') = Range(running) \cup {r}
            BY <2>1, <2>3, <2>7, AppendFacts DEF QueuesAreApart
        <3>2. \A q \in Range(running) : admitted'[q] = admitted[q]
            BY <2>4, <2>7
        <3>3. admitted'[r] = CacheHit(r)
            BY <2>1, <2>7 DEF Types
        <3> HIDE DEF r
        <3> QED
            BY <2>5, <3>1, <3>2, <3>3 DEF MarkIsOfAdmission
    <2>8. \/ UNCHANGED <<running, admitted>>
          \/ /\ running' = Append(running, r)
             /\ admitted' = [admitted EXCEPT ![r] = CacheHit(r)]
        BY <1>6, WaitingVisit DEF queues
    <2> QED
        BY <2>6, <2>7, <2>8
<1>7. CASE EndStep
    BY <1>7, <1>u DEF EndStep
<1>8. ASSUME NEW r \in Req, Arrive(r) PROVE MarkIsOfAdmission'
    BY <1>8, <1>u DEF Arrive
<1>9. ASSUME NEW r \in Req, Leave(r) PROVE MarkIsOfAdmission'
    <2>1. running' = RemoveFirst(running, r) /\ UNCHANGED <<tail, admitted>>
        BY <1>9 DEF Leave
    <2>2. Range(running') = Range(running) \ {r}
        BY <2>1, RemoveFacts DEF QueuesAreApart
    <2> QED
        BY <1>u, <2>1, <2>2
<1>10. ASSUME NEW p \in cached, Evict(p) PROVE MarkIsOfAdmission'
    BY <1>10, <1>u DEF Evict, queues
<1>12. ASSUME NEW p \in states, EvictState(p) PROVE MarkIsOfAdmission'
    BY <1>12, <1>u DEF EvictState, queues
<1>11. CASE UNCHANGED vars
    BY <1>11, <1>u DEF vars
<1> QED
    BY <1>1, <1>2, <1>3, <1>4, <1>5, <1>6, <1>7, <1>8, <1>9, <1>10, <1>11, <1>12
    DEF Next, EngineStep

-----------------------------------------------------------------------------
(***************************************************************************)
(* Time to service                                                         *)
(***************************************************************************)

\* With the align floor on, the split never cuts a chunk to nothing.
LEMMA SplitServes ==
    ASSUME AlignFloor, NEW r \in Req, out \in [Req -> Nat], NEW start \in Nat,
           NEW n \in Nat, n > 0
    PROVE  AlignedSplit(r, start, n) > 0
<1> DEFINE prefillEnd == Upper(Prompt(r), NumTokens(r) - 1)
           maxPrefill == Lower(Budget, Lptt)
           alignedEnd == Floor(start + n, Page)
           end == IF /\ start + n < prefillEnd
                     /\ alignedEnd > start \/ (Page <= maxPrefill /\ ~AlignFloor)
                  THEN alignedEnd ELSE start + n
           lastCache == Floor(NumTokens(r), Page)
           tailBoundary == IF PartialHit THEN Floor(Prompt(r) - 1, HashPage) ELSE 0
           stops == {IF start % Page # 0 THEN Floor(start, Page) + Page ELSE 0,
                     lastCache,
                     IF lastCache < tailBoundary THEN tailBoundary ELSE 0}
           cuts == {s \in stops : start < s /\ s < end}
<1>1. AlignedSplit(r, start, n) =
         IF start >= prefillEnd THEN n
         ELSE Upper(IF cuts = {} THEN end - start ELSE Min(cuts) - start, 0)
    BY DEF AlignedSplit
<1>2. /\ NumTokens(r) \in Nat /\ Prompt(r) \in Nat /\ Prompt(r) - 1 \in Nat
      /\ Page \in Nat /\ Page > 0 /\ HashPage \in Nat /\ HashPage > 0
    BY Sizes DEF NumTokens
<1>3. end \in Nat /\ end > start
    <2>0. start + n \in Nat /\ start + n > start
        OBVIOUS
    <2>1. alignedEnd \in Nat
        BY <1>2, <2>0, FloorBounds, Zenon
    <2> HIDE DEF alignedEnd, prefillEnd, maxPrefill
    <2> QED
        BY <2>0, <2>1
<1>4. stops \subseteq Nat
    <2>1. /\ Floor(start, Page) \in Nat /\ Floor(NumTokens(r), Page) \in Nat
          /\ Floor(Prompt(r) - 1, HashPage) \in Nat
        BY <1>2, FloorBounds
    <2> QED
        BY <1>2, <2>1
<1> HIDE DEF end, stops, prefillEnd
<1>5. cuts \subseteq Nat /\ \A s \in cuts : start < s
    BY <1>4
<1> HIDE DEF cuts
<1>6. cuts # {} => Min(cuts) \in cuts
    BY <1>5, MinIsLeast
<1> DEFINE x == IF cuts = {} THEN end - start ELSE Min(cuts) - start
<1>7. x \in Int /\ x > 0
    <2>1. CASE cuts = {}
        BY <1>3, <2>1
    <2>2. CASE cuts # {}
        <3>1. Min(cuts) \in Nat /\ Min(cuts) > start
            BY <1>5, <1>6, <2>2
        <3>2. x = Min(cuts) - start
            BY <2>2
        <3> QED
            BY <3>1, <3>2
    <2> QED
        BY <2>1, <2>2
<1> HIDE DEF x
<1>8. AlignedSplit(r, start, n) = IF start >= prefillEnd THEN n ELSE Upper(x, 0)
    BY <1>1 DEF x
<1> QED
    BY <1>7, <1>8 DEF Upper

\* The age of r's hold.
Waited(r) == IF seen[r] = None THEN 0 ELSE seen[r]

\* A waiter's hold ends: it has an age limit, or the cap lets something through.
HoldsEnd == MaxWait > 0 \/ MixedCap # 0

\* The gate starts the age of a hold and never resets it; it gives nothing
\* only to a request whose hold is young, and then its age runs.
LEMMA GateHolds ==
    ASSUME NEW r \in Req, NEW c \in Nat, c < NumTokens(r), out \in [Req -> Nat],
           seen \in [Req -> None..MaxWait], late \in [Req -> None..LateHorizon]
    PROVE  /\ Gate(r, c).seen = seen[r] \/ (seen[r] = None /\ Gate(r, c).seen = 0)
           /\ HoldsEnd /\ Gate(r, c).cap = 0 => Gate(r, c).seen # None /\ Waited(r) < MaxWait
<1> DEFINE remaining == NumTokens(r) - c
           policy == MixedPrefillPolicy(r)
           known  == seen[r] # None
           late0  == IF known /\ c < last[r] THEN None ELSE late[r]
           seen1  == IF known THEN seen[r] ELSE 0
           late1  == IF late0 = None THEN 0 ELSE late0
           exempt == remaining <= WarmTokens \/ policy # 0 \/ MaxWait = 0
<1>0. WarmTokens \in Nat /\ NumTokens(r) \in Nat /\ MaxWait \in Nat
    BY Sizes DEF NumTokens
<1>1. remaining \in Int /\ remaining > 0
    BY <1>0
<1>2. policy \in Nat \cup {NoCap} /\ (HoldsEnd /\ policy = 0 => MaxWait > 0)
    BY Sizes DEF MixedPrefillPolicy, HoldsEnd, NoCap
<1>3. late1 \in 0..LateHorizon
    BY Sizes DEF None
<1>4. seen1 \in 0..MaxWait /\ seen1 # None /\ seen1 = Waited(r)
    BY Sizes DEF None, Waited
<1>5. LateCapAt(late1) \in Int
    BY <1>3, LateCapType
<1>6. Upper(Lower(LateCapAt(late1), remaining), 1) # 0
    BY <1>1, <1>5 DEF Upper, Lower
<1>7. seen1 = seen[r] \/ (seen[r] = None /\ seen1 = 0)
    OBVIOUS
<1> HIDE DEF policy, late0, late1, seen1
<1>8. CASE exempt
    <2>1. Gate(r, c) = [cap |-> IF remaining <= WarmTokens THEN NoCap ELSE policy,
                        seen |-> seen[r], late |-> late0,
                        last |-> IF known THEN c ELSE last[r]]
        BY <1>8, <1>1 DEF Gate, policy, late0
    <2>2. HoldsEnd => (IF remaining <= WarmTokens THEN NoCap ELSE policy) # 0
        <3> HIDE DEF remaining
        <3> QED
            BY <1>0, <1>2, <1>8 DEF NoCap
    <2> HIDE DEF remaining, exempt
    <2> QED
        BY <2>1, <2>2
<1>9. CASE ~exempt /\ seen1 < MaxWait
    <2>1. Gate(r, c) = [cap |-> 0, seen |-> seen1, late |-> late0, last |-> c]
        <3>1. ~(remaining <= 0) /\ ~(seen1 >= MaxWait) /\ ~exempt /\ remaining > 0
            BY <1>9, <1>1, <1>4, <1>0
        <3> QED
            BY <1>9, <3>1, Zenon DEF Gate, policy, late0, seen1
    <2> QED
        BY <2>1, <1>4, <1>7, <1>9
<1>10. CASE ~exempt /\ seen1 >= MaxWait
    <2>1. Gate(r, c) = [cap |-> Upper(Lower(LateCapAt(late1), remaining), 1),
                        seen |-> seen1, late |-> late1, last |-> c]
        <3>1. ~(remaining <= 0) /\ ~(seen1 < MaxWait) /\ ~exempt /\ remaining > 0
            BY <1>10, <1>1, <1>4, <1>0
        <3> QED
            BY <1>10, <3>1 DEF Gate, policy, late0, late1, seen1
    <2> QED
        BY <2>1, <1>6, <1>7
<1> QED
    BY <1>0, <1>4, <1>8, <1>9, <1>10

\* A visit comes to nothing only at the gate.
LEMMA ChunkServes ==
    ASSUME Types, AlignFloor, NEW r \in Req, budget > 0
    PROVE  /\ RunChunk(r) = 0 => Gate(r, computed[r]).cap = 0
           /\ WaitChunk(r) = 0 => Gate(r, CacheHit(r)).cap = 0
<1>1. /\ out \in [Req -> Nat] /\ NumTokens(r) \in Nat
      /\ computed[r] \in Nat /\ computed[r] < NumTokens(r)
    BY TokenTypes
<1>2. CacheHit(r) \in Nat /\ CacheHit(r) < NumTokens(r)
    BY <1>1, CacheHitType
<1>3. budget \in Nat /\ Lptt \in Nat /\ Lptt > 0
    BY TokenTypes, Sizes
<1>4. /\ Gate(r, computed[r]).cap \in Nat \cup {NoCap}
      /\ Gate(r, CacheHit(r)).cap \in Nat \cup {NoCap}
    BY <1>1, <1>2, GateTypes DEF Types
<1>5. ASSUME NEW n \in Nat, n > 0, NEW cap \in Nat \cup {NoCap}, cap # 0
      PROVE  Capped(n, cap) \in Nat /\ Capped(n, cap) > 0
    BY <1>5 DEF Capped, Lower, NoCap
<1>6. ASSUME NEW n \in Nat, n > 0, NEW open
      PROVE  LongPrefillCap(n, open) \in Nat /\ LongPrefillCap(n, open) > 0
    BY <1>3, <1>6 DEF LongPrefillCap, Lower
<1>7. ASSUME NEW n \in Nat, n > 0 PROVE Lower(n, budget) \in Nat /\ Lower(n, budget) > 0
    BY <1>3, <1>7 DEF Lower
<1>8. ASSUME Gate(r, computed[r]).cap # 0 PROVE RunChunk(r) > 0
    <2> DEFINE c == computed[r]
               open == TailStillOpen(r, c)
               cap == Gate(r, c).cap
               a == LongPrefillCap(NumTokens(r) - c, open)
               b == Lower(a, budget)
               d == Capped(b, cap)
    <2>1. NumTokens(r) - c \in Nat /\ NumTokens(r) - c > 0
        BY <1>1
    <2>2. a \in Nat /\ a > 0
        BY <1>6, <2>1
    <2> HIDE DEF a
    <2>3. b \in Nat /\ b > 0
        BY <1>7, <2>2
    <2> HIDE DEF b
    <2>4. cap \in Nat \cup {NoCap} /\ cap # 0
        BY <1>4, <1>8
    <2> HIDE DEF cap
    <2>5. d \in Nat /\ d > 0
        BY <1>5, <2>3, <2>4
    <2> HIDE DEF d
    <2>6. RunChunk(r) = AlignedSplit(r, c, d)
        BY DEF RunChunk, d, b, a, cap
    <2>7. c \in Nat
        BY <1>1
    <2> HIDE DEF c
    <2> QED
        BY <1>1, <2>5, <2>6, <2>7, SplitServes
<1>9. ASSUME Gate(r, CacheHit(r)).cap # 0 PROVE WaitChunk(r) > 0
    <2> DEFINE c == CacheHit(r)
               open == IsResidentTail(c, Prompt(r))
               cap == Gate(r, c).cap
               a == LongPrefillCap(NumTokens(r) - c, open)
               b == Capped(a, cap)
               d == Lower(b, budget)
    <2>1. NumTokens(r) - c \in Nat /\ NumTokens(r) - c > 0
        BY <1>1, <1>2
    <2>2. a \in Nat /\ a > 0
        BY <1>6, <2>1
    <2> HIDE DEF a
    <2>3. cap \in Nat \cup {NoCap} /\ cap # 0
        BY <1>4, <1>9
    <2> HIDE DEF cap
    <2>4. b \in Nat /\ b > 0
        BY <1>5, <2>2, <2>3
    <2> HIDE DEF b
    <2>5. d \in Nat /\ d > 0
        BY <1>7, <2>4
    <2> HIDE DEF d
    <2>6. WaitChunk(r) = AlignedSplit(r, c, d)
        BY DEF WaitChunk, d, b, a, cap
    <2>7. c \in Nat
        BY <1>2
    <2> HIDE DEF c
    <2> QED
        BY <1>1, <2>5, <2>6, <2>7, SplitServes
<1> QED
    BY <1>8, <1>9

\* The requests this step may still visit; between steps, everyone.
NotYet ==
    IF spc = "idle" THEN Req
    ELSE IF spc = "end" THEN {}
    ELSE Range(waiting) \cup Range(skipped) \cup
         (IF spc = "running" THEN {running[i] : i \in idx..Len(running)} ELSE {})

\* Before its visit, r was passed over at most once per deferral and once per
\* step its hold is old.
Fresh(r) == passed[r] <= defers[r] + Waited(r)

\* After its visit, at most once more, and that once is a hold's.
Owed(r) ==
    /\ passed[r] <= defers[r] + Lower(Waited(r) + 1, MaxWait)
    /\ seen[r] = None => passed[r] <= defers[r]

PassedIsOwed == \A r \in Req : Owed(r) /\ (r \in NotYet => Fresh(r))

\* The counts as numbers.
LEMMA CountTypes ==
    ASSUME Types, NEW r \in Req
    PROVE  /\ passed[r] \in Nat /\ passed[r] <= MaxWait + TailSteps + 1
           /\ defers[r] \in Nat /\ defers[r] <= TailSteps
           /\ Waited(r) \in Nat /\ Waited(r) <= MaxWait
           /\ MaxWait \in Nat /\ TailSteps \in Nat
<1>1. MaxWait \in Nat /\ TailSteps \in Nat
    BY Sizes
<1>2. seen[r] \in None..MaxWait /\ defers[r] \in 0..TailSteps
      /\ passed[r] \in 0..(MaxWait + TailSteps + 1)
    BY DEF Types
<1>3. Waited(r) \in Nat /\ Waited(r) <= MaxWait
    BY <1>1, <1>2 DEF Waited, None
<1> QED
    BY <1>1, <1>2, <1>3

\* What is allowed before a visit is allowed after it.
LEMMA FreshIsOwed ==
    ASSUME Types, NEW r \in Req, Fresh(r)
    PROVE  Owed(r)
<1>1. /\ passed[r] \in Nat /\ defers[r] \in Nat /\ Waited(r) \in Nat
      /\ Waited(r) <= MaxWait /\ MaxWait \in Nat
    BY CountTypes
<1>2. seen[r] = None => Waited(r) = 0
    BY DEF Waited
<1>3. Waited(r) <= Lower(Waited(r) + 1, MaxWait) /\ Lower(Waited(r) + 1, MaxWait) \in Nat
    BY <1>1 DEF Lower
<1>4. passed[r] <= defers[r] + Waited(r)
    BY DEF Fresh
<1> HIDE DEF Lower
<1>5. passed[r] <= defers[r] + Lower(Waited(r) + 1, MaxWait)
    BY <1>1, <1>3, <1>4
<1>6. seen[r] = None => passed[r] <= defers[r]
    BY <1>1, <1>2, <1>4
<1> QED
    BY <1>5, <1>6 DEF Owed

\* The gate only starts an age, so a visit that counts nothing keeps both.
LEMMA StartedAge ==
    ASSUME Types, NEW r \in Req, passed'[r] = passed[r], defers'[r] = defers[r],
           seen'[r] = seen[r] \/ (seen[r] = None /\ seen'[r] = 0)
    PROVE  (Owed(r) => Owed(r)') /\ (Fresh(r) => Fresh(r)')
<1>1. /\ passed[r] \in Nat /\ defers[r] \in Nat /\ Waited(r) \in Nat /\ MaxWait \in Nat
    BY CountTypes
<1>2. Waited(r)' = Waited(r) /\ (seen'[r] = None => seen[r] = None)
    BY DEF Waited, None
<1> QED
    BY <1>1, <1>2 DEF Owed, Fresh

\* A hold that is young passes its request over once more, and ages.
LEMMA HeldOnce ==
    ASSUME Types, NEW r \in Req, Fresh(r), PassOver(r), defers'[r] = defers[r],
           seen'[r] = seen[r] \/ (seen[r] = None /\ seen'[r] = 0),
           seen'[r] # None, Waited(r) < MaxWait
    PROVE  Owed(r)'
<1>1. /\ passed[r] \in Nat /\ defers[r] \in Nat /\ Waited(r) \in Nat
      /\ MaxWait \in Nat /\ TailSteps \in Nat
    BY CountTypes
<1>2. Waited(r)' = Waited(r)
    BY DEF Waited, None
<1>3. passed'[r] = Lower(passed[r], MaxWait + TailSteps) + 1
    BY DEF PassOver, Types
<1>4. passed'[r] <= passed[r] + 1 /\ passed'[r] \in Nat
    BY <1>1, <1>3 DEF Lower
<1>5. Lower(Waited(r) + 1, MaxWait) = Waited(r) + 1
    BY <1>1 DEF Lower
<1>6. passed[r] <= defers[r] + Waited(r)
    BY DEF Fresh
<1>7. passed'[r] <= defers'[r] + (Waited(r) + 1)
    BY <1>1, <1>4, <1>6
<1> QED
    BY <1>2, <1>5, <1>7 DEF Owed

\* A visit to r changes nobody else's counts.
LEMMA VisitOf ==
    ASSUME PassedIsOwed, NEW r \in Req, NotYet' \subseteq NotYet \cup {r},
           \A q \in Req \ {r} : /\ passed'[q] = passed[q] /\ defers'[q] = defers[q]
                                /\ seen'[q] = seen[q],
           Owed(r)', r \in NotYet' => Fresh(r)'
    PROVE  PassedIsOwed'
<1> SUFFICES ASSUME NEW q \in Req PROVE Owed(q)' /\ (q \in NotYet' => Fresh(q)')
    BY DEF PassedIsOwed
<1>1. CASE q = r
    BY <1>1
<1>2. CASE q # r
    <2>1. Owed(q) /\ (q \in NotYet => Fresh(q))
        BY DEF PassedIsOwed
    <2>2. q \in NotYet' => q \in NotYet
        BY <1>2
    <2>3. passed'[q] = passed[q] /\ defers'[q] = defers[q] /\ seen'[q] = seen[q]
        BY <1>2
    <2>4. Owed(q)' /\ (Fresh(q) => Fresh(q)')
        BY <2>1, <2>3 DEF Owed, Fresh, Waited
    <2> QED
        BY <2>1, <2>2, <2>4
<1> QED
    BY <1>1, <1>2

\* The gate's record of r is written to r alone.
LEMMA GateWrites ==
    ASSUME Types, NEW r \in Req, NEW c \in Nat, c < NumTokens(r), KeepGate(r, Gate(r, c))
    PROVE  /\ \A q \in Req \ {r} : seen'[q] = seen[q]
           /\ seen'[r] = seen[r] \/ (seen[r] = None /\ seen'[r] = 0)
           /\ HoldsEnd /\ Gate(r, c).cap = 0 => seen'[r] # None /\ Waited(r) < MaxWait
<1>1. /\ Gate(r, c).seen = seen[r] \/ (seen[r] = None /\ Gate(r, c).seen = 0)
      /\ HoldsEnd /\ Gate(r, c).cap = 0 => Gate(r, c).seen # None /\ Waited(r) < MaxWait
    BY GateHolds, TokenTypes DEF Types
<1>2. seen' = [seen EXCEPT ![r] = Gate(r, c).seen]
    BY DEF KeepGate
<1>3. seen'[r] = Gate(r, c).seen /\ \A q \in Req \ {r} : seen'[q] = seen[q]
    BY <1>2 DEF Types
<1> QED
    BY <1>1, <1>3

\* The running loop has passed running[idx], and nobody else.
LEMMA RunningLoopMoves ==
    ASSUME Types, QueuesAreApart, spc = "running", idx <= Len(running),
           idx' = idx + 1, UNCHANGED <<spc, waiting, skipped, running>>
    PROVE  NotYet' \subseteq NotYet /\ running[idx] \notin NotYet' /\ running[idx] \in NotYet
<1>1. idx \in Nat /\ idx >= 1 /\ Len(running) \in Nat
    BY TokenTypes
<1>2. idx \in 1..Len(running) /\ idx \in idx..Len(running) /\ DOMAIN running = 1..Len(running)
    BY <1>1 DEF Types
<1>3. \A i \in (idx + 1)..Len(running) :
          i \in idx..Len(running) /\ i \in 1..Len(running) /\ i # idx
    BY <1>1
<1>4. /\ NotYet = Range(waiting) \cup Range(skipped) \cup {running[i] : i \in idx..Len(running)}
      /\ NotYet' = Range(waiting) \cup Range(skipped)
                     \cup {running[i] : i \in (idx + 1)..Len(running)}
    BY DEF NotYet
<1>5. \A i \in (idx + 1)..Len(running) : running[i] # running[idx]
    BY <1>2, <1>3 DEF QueuesAreApart, Distinct, IsInjective
<1>6. running[idx] \in Range(running)
    BY <1>2 DEF Range
<1>7. running[idx] \notin Range(waiting) /\ running[idx] \notin Range(skipped)
    BY <1>6 DEF QueuesAreApart
<1>8. NotYet' \subseteq NotYet
    BY <1>3, <1>4
<1>9. running[idx] \notin NotYet'
    BY <1>4, <1>5, <1>7
<1>10. running[idx] \in NotYet
    BY <1>2, <1>4
<1> QED
    BY <1>8, <1>9, <1>10

\* The waiting loop has taken its next waiter, and nobody else.
LEMMA WaitingLoopMoves ==
    ASSUME QueuesAreApart, spc = "waiting", MoreWaiting
    PROVE  /\ NextWaiter \in NotYet
           /\ PopWaiter /\ spc' = spc => NotYet' = NotYet \ {NextWaiter}
<1>1. NotYet = Range(waiting) \cup Range(skipped)
    BY DEF NotYet
<1>2. spc' = spc => NotYet' = Range(waiting') \cup Range(skipped')
    BY DEF NotYet
<1>3. NextWaiter \in Range(waiting) \cup Range(skipped)
    BY PopFacts
<1>4. PopWaiter => Range(waiting') \cup Range(skipped')
                     = (Range(waiting) \cup Range(skipped)) \ {NextWaiter}
    BY PopFacts
<1> QED
    BY <1>1, <1>2, <1>3, <1>4

\* A running request is visited: it is held by the gate, or served, or it is
\* among those preempted for its chunk.
LEMMA OwedAfterRunningVisit ==
    ASSUME AlignFloor, HoldsEnd, Types, QueuesAreApart, PassedIsOwed, VisitRunning
    PROVE  PassedIsOwed'
<1>0. PICK r \in Req : r = running[idx]
    BY RunningVisit
<1>1. /\ r \in Req /\ idx <= Len(running) /\ budget > 0 /\ spc = "running"
      /\ KeepGate(r, Gate(r, computed[r]))
      /\ UNCHANGED <<skipped, defers>>
    BY <1>0, RunningVisit
<1>2. computed[r] \in Nat /\ computed[r] < NumTokens(r)
    BY <1>1, TokenTypes
<1>3. /\ \A q \in Req \ {r} : seen'[q] = seen[q]
      /\ seen'[r] = seen[r] \/ (seen[r] = None /\ seen'[r] = 0)
      /\ Gate(r, computed[r]).cap = 0 => seen'[r] # None /\ Waited(r) < MaxWait
    BY <1>1, <1>2, GateWrites
<1>4. idx \in Nat /\ idx >= 1 /\ Len(running) \in Nat
    BY TokenTypes
<1>5. CASE /\ RunChunk(r) = 0 /\ idx' = idx + 1 /\ PassOver(r)
           /\ UNCHANGED <<running, waiting, spc>>
    <2>1. NotYet' \subseteq NotYet /\ r \notin NotYet' /\ r \in NotYet
        BY <1>0, <1>1, <1>5, RunningLoopMoves
    <2>2. Fresh(r)
        BY <1>1, <2>1 DEF PassedIsOwed
    <2>3. Gate(r, computed[r]).cap = 0
        BY <1>1, <1>5, ChunkServes
    <2>4. Owed(r)'
        BY <1>1, <1>3, <1>5, <2>2, <2>3, HeldOnce
    <2>5. \A q \in Req \ {r} : passed'[q] = passed[q] /\ defers'[q] = defers[q]
        BY <1>1, <1>5 DEF PassOver, Types
    <2> QED
        BY <1>1, <1>3, <2>1, <2>4, <2>5, VisitOf
<1>6. ASSUME NEW k \in 0..(Len(running) - idx + 1),
             AllocatePreempting(r, RunChunk(r), k)
      PROVE  PassedIsOwed'
    <2>1. /\ \A q \in Range(waiting') : q \in Range(waiting)
                                        \/ \E i \in idx..Len(running) : running[i] = q
          /\ Len(running') <= Len(running)
          /\ \A i \in 1..Len(running') : running'[i] = running[i]
        BY <1>0, <1>1, <1>6, PreemptFacts
    <2>2. running' \in Seq(Req) /\ Len(running') \in Nat
        BY <1>0, <1>1, <1>6, PreemptFacts DEF Distinct
    <2>3. \/ spc' = "end" /\ UNCHANGED passed
          \/ /\ spc' = "running" /\ idx' = idx + 1
             /\ passed' = [passed EXCEPT ![r] = 0]
        BY <1>1, <1>6 DEF AllocatePreempting
    <2>4. CASE spc' = "end" /\ UNCHANGED passed
        <3>1. NotYet' = {}
            BY <2>4 DEF NotYet
        <3>2. Owed(r)
            BY <1>1 DEF PassedIsOwed
        <3>3. Owed(r)'
            BY <1>1, <1>3, <2>4, <3>2, StartedAge
        <3> QED
            BY <1>1, <1>3, <2>4, <3>1, <3>3, VisitOf
    <2>5. CASE /\ spc' = "running" /\ idx' = idx + 1
               /\ passed' = [passed EXCEPT ![r] = 0]
        <3>1. NotYet = Range(waiting) \cup Range(skipped)
                         \cup {running[i] : i \in idx..Len(running)}
            BY <1>1 DEF NotYet
        <3>2. NotYet' = Range(waiting') \cup Range(skipped)
                          \cup {running'[i] : i \in (idx + 1)..Len(running')}
            BY <1>1, <2>5 DEF NotYet
        <3>3. \A i \in (idx + 1)..Len(running') :
                  i \in 1..Len(running') /\ i \in idx..Len(running)
            BY <1>4, <2>1, <2>2
        <3>4. \A i \in (idx + 1)..Len(running') : running'[i] = running[i]
            BY <2>1, <3>3
        <3>5. \A q \in Range(waiting') : q \in NotYet
            BY <2>1, <3>1
        <3>6. \A i \in (idx + 1)..Len(running') : running'[i] \in NotYet
            BY <3>1, <3>3, <3>4
        <3>7. NotYet' \subseteq NotYet
            BY <3>1, <3>2, <3>5, <3>6
        <3>8. passed'[r] = 0 /\ \A q \in Req \ {r} : passed'[q] = passed[q]
            BY <1>1, <2>5 DEF Types
        <3>9. defers[r] \in Nat /\ Waited(r) \in Nat /\ MaxWait \in Nat
            BY <1>1, CountTypes
        <3>10. Waited(r)' = Waited(r)
            BY <1>3 DEF Waited, None
        <3>11. Fresh(r)' /\ Owed(r)'
            BY <1>1, <3>8, <3>9, <3>10 DEF Fresh, Owed, Lower
        <3> QED
            BY <1>1, <1>3, <3>7, <3>8, <3>11, VisitOf
    <2> QED
        BY <2>3, <2>4, <2>5
<1>7. \/ /\ RunChunk(r) = 0 /\ idx' = idx + 1 /\ PassOver(r)
         /\ UNCHANGED <<running, waiting, spc>>
      \/ \E k \in 0..(Len(running) - idx + 1) : AllocatePreempting(r, RunChunk(r), k)
    BY <1>0, RunningVisit
<1> QED
    BY <1>5, <1>6, <1>7

\* A waiting request is visited: it is held by the gate, refused pages, or
\* admitted; with the align floor its split is never empty.
LEMMA OwedAfterWaitingVisit ==
    ASSUME AlignFloor, HoldsEnd, Types, QueuesAreApart, PassedIsOwed, VisitWaiting
    PROVE  PassedIsOwed'
<1>0. PICK r \in Req : r = NextWaiter
    BY WaitingVisit
<1>1. /\ r \in Req /\ spc = "waiting" /\ UNCHANGED defers
    BY <1>0, WaitingVisit
<1>2. MoreWaiting /\ budget > 0 /\ KeepGate(r, Gate(r, CacheHit(r)))
    BY <1>0 DEF VisitWaiting, MoreWaiting
<1>3. CacheHit(r) \in Nat /\ CacheHit(r) < NumTokens(r)
    BY <1>1, TokenTypes, CacheHitType
<1>4. /\ \A q \in Req \ {r} : seen'[q] = seen[q]
      /\ seen'[r] = seen[r] \/ (seen[r] = None /\ seen'[r] = 0)
      /\ Gate(r, CacheHit(r)).cap = 0 => seen'[r] # None /\ Waited(r) < MaxWait
    BY <1>1, <1>2, <1>3, GateWrites
<1>5. /\ r \in NotYet
      /\ PopWaiter /\ spc' = spc => NotYet' = NotYet \ {r}
    BY <1>0, <1>1, <1>2, WaitingLoopMoves
<1>6. \/ Gate(r, CacheHit(r)).cap = 0 /\ PassOver(r) /\ PopWaiter /\ spc' = spc
      \/ Gate(r, CacheHit(r)).cap # 0 /\ WaitChunk(r) = 0
      \/ spc' = "end" /\ UNCHANGED passed
      \/ PopWaiter /\ spc' = spc /\ passed' = [passed EXCEPT ![r] = 0]
    BY <1>0 DEF VisitWaiting, WaitChunk
<1>7. ~(Gate(r, CacheHit(r)).cap # 0 /\ WaitChunk(r) = 0)
    BY <1>1, <1>2, ChunkServes
<1>8. Fresh(r) /\ Owed(r)
    BY <1>1, <1>5 DEF PassedIsOwed
<1>9. CASE Gate(r, CacheHit(r)).cap = 0 /\ PassOver(r) /\ PopWaiter /\ spc' = spc
    <2>1. Owed(r)'
        BY <1>1, <1>4, <1>8, <1>9, HeldOnce
    <2>2. \A q \in Req \ {r} : passed'[q] = passed[q]
        BY <1>1, <1>9 DEF PassOver, Types
    <2> QED
        BY <1>1, <1>4, <1>5, <1>9, <2>1, <2>2, VisitOf
<1>10. CASE spc' = "end" /\ UNCHANGED passed
    <2>1. NotYet' = {}
        BY <1>10 DEF NotYet
    <2>2. Owed(r)'
        BY <1>1, <1>4, <1>8, <1>10, StartedAge
    <2> QED
        BY <1>1, <1>4, <1>10, <2>1, <2>2, VisitOf
<1>11. CASE PopWaiter /\ spc' = spc /\ passed' = [passed EXCEPT ![r] = 0]
    <2>1. passed'[r] = 0 /\ \A q \in Req \ {r} : passed'[q] = passed[q]
        BY <1>1, <1>11 DEF Types
    <2>2. defers[r] \in Nat /\ Waited(r) \in Nat /\ MaxWait \in Nat
        BY <1>1, CountTypes
    <2>3. Waited(r)' = Waited(r)
        BY <1>4 DEF Waited, None
    <2>4. Fresh(r)' /\ Owed(r)'
        BY <1>1, <2>1, <2>2, <2>3 DEF Fresh, Owed, Lower
    <2> QED
        BY <1>1, <1>4, <1>5, <1>11, <2>1, <2>4, VisitOf
<1> QED
    BY <1>6, <1>7, <1>9, <1>10, <1>11

\* At the end of a step every hold is one step older, so what was owed after a
\* visit is what is allowed before the next.
LEMMA OwedAfterStep ==
    ASSUME Types, PassedIsOwed, EndStep
    PROVE  PassedIsOwed'
<1> SUFFICES ASSUME NEW r \in Req PROVE Owed(r)' /\ Fresh(r)'
    BY DEF PassedIsOwed
<1>1. /\ seen'[r] = Age(seen[r], MaxWait) /\ UNCHANGED <<passed, defers>>
    BY DEF EndStep
<1>2. Owed(r)
    BY DEF PassedIsOwed
<1>3. /\ passed[r] \in Nat /\ defers[r] \in Nat /\ MaxWait \in Nat
      /\ Waited(r) \in Nat /\ Waited(r) <= MaxWait
    BY CountTypes
<1>4. CASE seen[r] = None
    <2>1. seen'[r] = None /\ Waited(r)' = 0 /\ passed[r] <= defers[r]
        BY <1>1, <1>2, <1>4 DEF Age, Waited, Owed
    <2> QED
        BY <1>1, <1>3, <2>1 DEF Owed, Fresh, Lower
<1>5. CASE seen[r] # None
    <2>1. seen[r] = Waited(r)
        BY <1>5 DEF Waited
    <2>2. seen'[r] = Lower(Waited(r) + 1, MaxWait)
        BY <1>1, <1>3, <1>5, <2>1 DEF Age, Lower
    <2>3. seen'[r] \in Nat /\ seen'[r] <= MaxWait
        BY <1>3, <2>2 DEF Lower
    <2>4. seen'[r] # None /\ Waited(r)' = seen'[r]
        BY <2>3 DEF Waited, None
    <2>5. passed'[r] <= defers'[r] + seen'[r]
        BY <1>1, <1>2, <2>2 DEF Owed
    <2>6. seen'[r] <= Lower(seen'[r] + 1, MaxWait) /\ Lower(seen'[r] + 1, MaxWait) \in Nat
        BY <1>3, <2>3 DEF Lower
    <2>7. passed'[r] <= defers'[r] + Lower(seen'[r] + 1, MaxWait)
        BY <1>1, <1>3, <2>3, <2>5, <2>6
    <2> QED
        BY <2>4, <2>5, <2>7 DEF Owed, Fresh
<1> QED
    BY <1>4, <1>5

\* Every step keeps what a request was passed over accounted for.
LEMMA OwedStep ==
    ASSUME AlignFloor, HoldsEnd, Types, QueuesAreApart, PassedIsOwed, [Next]_vars
    PROVE  PassedIsOwed'
<1>u. ASSUME UNCHANGED <<passed, defers, seen>>, NotYet' \subseteq NotYet
      PROVE  PassedIsOwed'
    <2>1. \A r \in Req : (Owed(r)' <=> Owed(r)) /\ (Fresh(r)' <=> Fresh(r))
        BY <1>u DEF Owed, Fresh, Waited
    <2> QED
        BY <1>u, <2>1 DEF PassedIsOwed
<1>i. ASSUME UNCHANGED <<passed, defers, seen>>, spc = "idle"
      PROVE  PassedIsOwed'
    <2>1. NotYet = Req
        BY <1>i DEF NotYet
    <2>2. \A r \in Req : (Owed(r)' <=> Owed(r)) /\ (Fresh(r)' <=> Fresh(r))
        BY <1>i DEF Owed, Fresh, Waited
    <2> QED
        BY <2>1, <2>2 DEF PassedIsOwed
<1>1. CASE StartStep
    BY <1>1, <1>i DEF StartStep, gate
<1>2. CASE DeferCold
    <2>0. PICK r \in Req : r = running[idx]
        BY <1>2 DEF DeferCold, Types
    <2>1. /\ r \in Req /\ spc = "running" /\ idx <= Len(running) /\ PassOver(r)
          /\ defers' = [defers EXCEPT ![r] = @ + 1] /\ idx' = idx + 1
          /\ UNCHANGED <<spc, waiting, skipped, running, seen>>
        BY <1>2, <2>0 DEF DeferCold, queues, gate
    <2>2. NotYet' \subseteq NotYet /\ r \in NotYet
        BY <2>0, <2>1, RunningLoopMoves
    <2>3. Fresh(r)
        BY <2>1, <2>2 DEF PassedIsOwed
    <2>4. /\ passed[r] \in Nat /\ defers[r] \in Nat /\ Waited(r) \in Nat
          /\ MaxWait \in Nat /\ TailSteps \in Nat
        BY <2>1, CountTypes
    <2>5. /\ passed'[r] = Lower(passed[r], MaxWait + TailSteps) + 1
          /\ defers'[r] = defers[r] + 1
          /\ \A q \in Req \ {r} : passed'[q] = passed[q] /\ defers'[q] = defers[q]
        BY <2>1 DEF PassOver, Types
    <2>6. passed'[r] <= passed[r] + 1
        BY <2>4, <2>5 DEF Lower
    <2>7. Fresh(r)'
        <3>1. Waited(r)' = Waited(r)
            BY <2>1 DEF Waited
        <3>2. passed[r] <= defers[r] + Waited(r) /\ passed'[r] \in Nat
            BY <2>3, <2>4, <2>5 DEF Fresh, Lower
        <3>3. passed'[r] <= defers'[r] + Waited(r)
            BY <2>4, <2>5, <2>6, <3>2
        <3> QED
            BY <3>1, <3>3 DEF Fresh
    <2>8. Types'
        BY <1>2, TypesStep DEF Next, EngineStep
    <2>9. Owed(r)'
        BY <2>1, <2>7, <2>8, FreshIsOwed, PTL
    <2> QED
        BY <2>1, <2>2, <2>5, <2>7, <2>9, VisitOf
<1>3. CASE VisitRunning
    BY <1>3, OwedAfterRunningVisit
<1>4. CASE EndRunning
    <2>1. NotYet' \subseteq NotYet
        BY <1>4 DEF EndRunning, NotYet, queues
    <2> QED
        BY <1>4, <1>u, <2>1 DEF EndRunning, gate
<1>5. CASE HoldWaiter
    <2>1. NotYet' \subseteq NotYet
        BY <1>5, WaitingLoopMoves DEF HoldWaiter
    <2> QED
        BY <1>5, <1>u, <2>1 DEF HoldWaiter, gate
<1>6. CASE VisitWaiting
    BY <1>6, OwedAfterWaitingVisit
<1>7. CASE EndStep
    BY <1>7, OwedAfterStep
<1>8. ASSUME NEW r \in Req, Arrive(r) PROVE PassedIsOwed'
    BY <1>8, <1>i DEF Arrive, gate
<1>9. ASSUME NEW r \in Req, Leave(r) PROVE PassedIsOwed'
    BY <1>9, <1>i DEF Leave, gate
<1>10. ASSUME NEW p \in cached, Evict(p) PROVE PassedIsOwed'
    BY <1>10, <1>i DEF Evict, gate
<1>12. ASSUME NEW p \in states, EvictState(p) PROVE PassedIsOwed'
    BY <1>12, <1>i DEF EvictState, gate
<1>11. CASE UNCHANGED vars
    <2>1. NotYet' = NotYet
        BY <1>11 DEF vars, NotYet
    <2> QED
        BY <1>11, <1>u, <2>1 DEF vars
<1> QED
    BY <1>1, <1>2, <1>3, <1>4, <1>5, <1>6, <1>7, <1>8, <1>9, <1>10, <1>11, <1>12
    DEF Next, EngineStep

\* Nobody has been passed over at first.
LEMMA OwedInit == Init => PassedIsOwed
<1>1. ASSUME Init, NEW r \in Req PROVE Owed(r) /\ Fresh(r)
    <2>1. Types
        BY <1>1, TypesInit
    <2>2. passed[r] = 0 /\ defers[r] = 0 /\ Waited(r) \in Nat
        BY <1>1, <2>1, CountTypes DEF Init
    <2>3. Fresh(r)
        BY <2>2 DEF Fresh
    <2> QED
        BY <2>1, <2>3, FreshIsOwed
<1> QED
    BY <1>1 DEF PassedIsOwed

\* What is owed is within the bound.
LEMMA OwedIsBounded ==
    ASSUME Types, PassedIsOwed
    PROVE  ServiceBound
<1> SUFFICES ASSUME NEW r \in Req PROVE passed[r] <= MaxWait + TailSteps
    BY DEF ServiceBound
<1>1. /\ passed[r] \in Nat /\ defers[r] \in Nat /\ defers[r] <= TailSteps
      /\ Waited(r) \in Nat /\ MaxWait \in Nat /\ TailSteps \in Nat
    BY CountTypes
<1>2. passed[r] <= defers[r] + Lower(Waited(r) + 1, MaxWait)
    BY DEF PassedIsOwed, Owed
<1>3. Lower(Waited(r) + 1, MaxWait) \in Nat /\ Lower(Waited(r) + 1, MaxWait) <= MaxWait
    BY <1>1 DEF Lower
<1> QED
    BY <1>1, <1>2, <1>3

-----------------------------------------------------------------------------
(***************************************************************************)
(* An admission reuses the pages in flight                                 *)
(***************************************************************************)

\* Dividing keeps the order.
LEMMA DivMonotonic ==
    ASSUME NEW a \in Nat, NEW b \in Nat, NEW unit \in Nat, unit > 0, a <= b
    PROVE  a \div unit <= b \div unit
<1> DEFINE x == a \div unit
           y == b \div unit
<1>1. x \in Nat /\ y \in Nat /\ x * unit <= a /\ b < y * unit + unit
    OBVIOUS
<1> HIDE DEF x, y
<1>2. SUFFICES ASSUME x > y PROVE FALSE
    BY <1>1 DEF x, y
<1>3. y + 1 \in Nat /\ y + 1 <= x
    BY <1>1, <1>2
<1>4. (y + 1) * unit <= x * unit
    BY <1>1, <1>3, TimesMonotonic
<1>5. (y + 1) * unit = y * unit + unit
    BY <1>1
<1>6. y * unit \in Nat /\ x * unit \in Nat
    BY <1>1, TimesType
<1> QED
    BY <1>1, <1>4, <1>5, <1>6

\* The first tokens of a sequence.
LEMMA FirstTokens ==
    ASSUME NEW s \in Seq(Nat), NEW k \in 0..Len(s)
    PROVE  /\ SubSeq(s, 1, k) \in Seq(Nat) /\ Len(SubSeq(s, 1, k)) = k
           /\ \A i \in 1..k : SubSeq(s, 1, k)[i] = s[i]
<1>1. k \in Nat /\ k <= Len(s) /\ Len(s) \in Nat
    OBVIOUS
<1>2. \A i \in 1..k : s[i] \in Nat
    BY <1>1
<1>3. /\ SubSeq(s, 1, k) \in Seq(Nat)
      /\ Len(SubSeq(s, 1, k)) = IF 1 <= k THEN k - 1 + 1 ELSE 0
      /\ \A i \in 1..(k - 1 + 1) : SubSeq(s, 1, k)[i] = s[1 + i - 1]
    BY <1>1, <1>2, SubSeqProperties
<1>4. k - 1 + 1 = k /\ \A i \in 1..k : 1 + i - 1 = i
    BY <1>1
<1> QED
    BY <1>1, <1>3, <1>4

\* Two prompts agree on their longest common prefix.
LEMMA CommonTokens ==
    ASSUME NEW a \in Seq(Nat), NEW b \in Seq(Nat)
    PROVE  LET n == Len(LongestCommonPrefix({a, b}))
           IN /\ n \in Nat /\ n <= Len(a) /\ n <= Len(b)
              /\ \A i \in 1..n : a[i] = b[i]
<1> DEFINE C == CommonPrefixes({a, b})
           N == {Len(p) : p \in C}
           l == LongestCommonPrefix({a, b})
<1>0. Len(a) \in Nat /\ Len(b) \in Nat
    OBVIOUS
<1>1. ASSUME NEW p \in C
      PROVE  /\ IsPrefix(p, a) /\ IsPrefix(p, b)
             /\ Len(p) \in Nat
    <2>1. IsPrefix(p, a) /\ IsPrefix(p, b) /\ p \in Prefixes(a) \cup Prefixes(b)
        BY DEF CommonPrefixes
    <2>2. ASSUME NEW s \in {a, b}, p \in Prefixes(s) PROVE Len(p) \in Nat
        <3>1. s \in Seq(Nat)
            OBVIOUS
        <3>2. PICK k \in 0..Len(s) : p = SubSeq(s, 1, k)
            BY <2>2 DEF Prefixes
        <3>3. Len(p) = k
            BY <3>1, <3>2, FirstTokens
        <3> QED
            BY <3>1, <3>3
    <2> QED
        BY <2>1, <2>2
<1>2. SubSeq(a, 1, 0) \in C
    <2>1. SubSeq(a, 1, 0) \in Prefixes(a)
        BY <1>0 DEF Prefixes
    <2>2. SubSeq(a, 1, 0) = <<>> /\ SubSeq(b, 1, 0) = <<>> /\ Len(<<>>) = 0
        BY SubSeqEmpty
    <2>3. SubSeq(<<>>, 1, 0) = <<>>
        BY SubSeqEmpty
    <2>4. IsPrefix(SubSeq(a, 1, 0), a) /\ IsPrefix(SubSeq(a, 1, 0), b)
        BY <1>0, <2>2, <2>3 DEF IsPrefix
    <2> QED
        BY <2>1, <2>4 DEF CommonPrefixes
<1>3. N \subseteq Nat /\ N # {} /\ \A n \in N : n <= Len(a)
    BY <1>1, <1>2 DEF IsPrefix
<1>4. Max(N) \in N /\ \A n \in N : Max(N) >= n
    BY <1>0, <1>3, MaxIsGreatest
<1>5. PICK p \in C : Len(p) = Max(N)
    BY <1>4
<1>6. \A q \in C : Len(q) <= Len(p)
    <2> TAKE q \in C
    <2>1. Len(q) \in N
        OBVIOUS
    <2>2. Max(N) >= Len(q) /\ Max(N) \in Nat /\ Len(q) \in Nat
        BY <1>1, <1>3, <1>4, <2>1
    <2> QED
        BY <1>5, <2>2
<1>7. l \in C
    <2> HIDE DEF C
    <2>1. \E q \in C : \A o \in C : Len(o) <= Len(q)
        BY <1>6
    <2> QED
        BY <2>1 DEF LongestCommonPrefix, C
<1> HIDE DEF C, l
<1>8. IsPrefix(l, a) /\ IsPrefix(l, b) /\ Len(l) \in Nat
    BY <1>1, <1>7
<1>9. /\ Len(l) <= Len(a) /\ Len(l) <= Len(b)
      /\ SubSeq(a, 1, Len(l)) = SubSeq(b, 1, Len(l))
    BY <1>8 DEF IsPrefix
<1>10. Len(l) \in 0..Len(a) /\ Len(l) \in 0..Len(b)
    BY <1>0, <1>8, <1>9
<1>11. \A i \in 1..Len(l) : SubSeq(a, 1, Len(l))[i] = a[i] /\ SubSeq(b, 1, Len(l))[i] = b[i]
    BY <1>10, FirstTokens
<1> QED
    BY <1>8, <1>9, <1>11 DEF l

\* Two requests have the same pages as far as they share them.
LEMMA SharedTokens ==
    ASSUME NEW r \in Req, NEW q \in Req
    PROVE  /\ Share(r, q) \in Nat /\ Share(r, q) <= Prompt(r) /\ Share(r, q) <= Prompt(q)
           /\ \E j \in Nat : Share(r, q) = j * HoldGrid
           /\ \A k \in 0..Share(r, q) : Prefix(r, k) = Prefix(q, k)
<1> DEFINE a == PromptIds[r]
           b == PromptIds[q]
           n == Len(LongestCommonPrefix({a, b}))
<1>1. a \in Seq(Nat) /\ b \in Seq(Nat)
    BY Sizes
<1>2. Prompt(r) = Len(a) /\ Prompt(q) = Len(b) /\ Len(a) \in Nat /\ Len(b) \in Nat
    BY <1>1 DEF Prompt
<1>3. n \in Nat /\ n <= Len(a) /\ n <= Len(b) /\ \A i \in 1..n : a[i] = b[i]
    BY <1>1, CommonTokens
<1>4. HoldGrid \in Nat /\ HoldGrid > 0
    BY Sizes DEF HoldGrid, Upper
<1>5. Share(r, q) = Floor(n, HoldGrid)
    BY DEF Share
<1> HIDE DEF n, a, b
<1>6. Floor(n, HoldGrid) \in Nat /\ Floor(n, HoldGrid) <= n
    BY <1>3, <1>4, FloorBounds
<1>7. n \div HoldGrid \in Nat /\ Floor(n, HoldGrid) = (n \div HoldGrid) * HoldGrid
    BY <1>3, <1>4, DivType DEF Floor
<1>8. ASSUME NEW k \in 0..Share(r, q) PROVE Prefix(r, k) = Prefix(q, k)
    <2>1. k \in 0..Len(a) /\ k \in 0..Len(b) /\ \A i \in 1..k : i \in 1..n
        BY <1>2, <1>3, <1>5, <1>6
    <2>2. /\ SubSeq(a, 1, k) \in Seq(Nat) /\ Len(SubSeq(a, 1, k)) = k
          /\ \A i \in 1..k : SubSeq(a, 1, k)[i] = a[i]
        BY <1>1, <2>1, FirstTokens
    <2>3. /\ SubSeq(b, 1, k) \in Seq(Nat) /\ Len(SubSeq(b, 1, k)) = k
          /\ \A i \in 1..k : SubSeq(b, 1, k)[i] = b[i]
        BY <1>1, <2>1, FirstTokens
    <2>4. \A i \in 1..k : SubSeq(a, 1, k)[i] = SubSeq(b, 1, k)[i]
        BY <1>3, <2>1, <2>2, <2>3
    <2>5. SubSeq(a, 1, k) = SubSeq(b, 1, k)
        BY <2>2, <2>3, <2>4, SeqEqual
    <2> QED
        BY <2>5 DEF Prefix, a, b
<1> QED
    BY <1>2, <1>3, <1>5, <1>6, <1>7, <1>8

\* More tokens fill more pages, up to the prompt's end.
LEMMA PagesGrow ==
    ASSUME NEW r \in Req, NEW n \in Nat, NEW m \in Nat, n <= m \/ Prompt(r) <= m
    PROVE  PagesUpTo(r, n) \subseteq PagesUpTo(r, m)
<1>1. Prompt(r) \in Nat /\ Page \in Nat /\ Page > 0
    BY Sizes
<1> DEFINE x == Lower(n, Prompt(r))
           y == Lower(m, Prompt(r))
<1>2. x \in Nat /\ y \in Nat /\ x <= y
    BY <1>1 DEF Lower
<1> HIDE DEF x, y
<1>3. x \div Page \in Nat /\ y \div Page \in Nat /\ x \div Page <= y \div Page
    BY <1>1, <1>2, DivType, DivMonotonic
<1>4. \A k \in 1..(x \div Page) : k \in 1..(y \div Page)
    BY <1>3
<1>5. /\ PagesUpTo(r, n) = {Prefix(r, k * Page) : k \in 1..(x \div Page)}
      /\ PagesUpTo(r, m) = {Prefix(r, k * Page) : k \in 1..(y \div Page)}
    BY DEF PagesUpTo, x, y
<1> QED
    BY <1>4, <1>5

\* The full pages of a running request, with the chunk this step gives it, are
\* in the cache; between steps nobody has a chunk.
PagesAreResident ==
    /\ \A r \in Range(running) : PagesUpTo(r, computed[r] + sched[r]) \subseteq cached
    /\ spc = "idle" => \A r \in Req : sched[r] = 0

\* A running request is a request with counts.
LEMMA RunningTypes ==
    ASSUME Types, NEW r \in Range(running)
    PROVE  /\ r \in Req /\ computed[r] \in Nat /\ sched[r] \in Nat
           /\ computed[r] + sched[r] \in Nat
<1>1. r \in Req
    BY DEF Types, Range
<1> QED
    BY <1>1, TokenTypes

\* Every step keeps the running requests' pages resident.
LEMMA ResidentStep ==
    ASSUME Types, QueuesAreApart, PagesAreResident, [Next]_vars
    PROVE  PagesAreResident'
<1>u. ASSUME UNCHANGED <<computed, sched, cached>>, Range(running') \subseteq Range(running),
             spc' = "idle" => spc = "idle"
      PROVE  PagesAreResident'
    <2>1. \A r \in Range(running') : PagesUpTo(r, computed'[r] + sched'[r]) \subseteq cached'
        BY <1>u DEF PagesAreResident
    <2>2. spc' = "idle" => \A r \in Req : sched'[r] = 0
        BY <1>u DEF PagesAreResident
    <2> QED
        BY <2>1, <2>2 DEF PagesAreResident, PagesUpTo
<1>1. CASE StartStep
    <2>1. /\ spc = "idle" /\ sched' = [r \in Req |-> 0]
          /\ UNCHANGED <<running, computed, cached>> /\ spc' # "idle"
        BY <1>1 DEF StartStep, queues
    <2>2. \A r \in Range(running) : sched'[r] = sched[r]
        BY <2>1, RunningTypes DEF PagesAreResident
    <2> QED
        BY <2>1, <2>2 DEF PagesAreResident, PagesUpTo
<1>2. CASE DeferCold
    BY <1>2, <1>u DEF DeferCold, queues
<1>3. CASE VisitRunning
    <2>0. PICK r \in Req : r = running[idx]
        BY <1>3, RunningVisit
    <2>1. idx <= Len(running) /\ spc = "running" /\ budget > 0
        BY <1>3, RunningVisit
    <2>2. CASE UNCHANGED <<running, computed, spc, sched, cached>>
        BY <1>u, <2>2
    <2>3. ASSUME NEW k \in 0..(Len(running) - idx + 1),
                 AllocatePreempting(r, RunChunk(r), k)
          PROVE  PagesAreResident'
        <3> DEFINE victims == SubSeq(running, Len(running) - k + 1, Len(running))
        <3>1. Range(running') \cap Range(victims) = {} /\ Range(running') \subseteq Range(running)
            <4>1. Len(running) - k \in 0..Len(running)
                BY <2>1, TokenTypes
            <4>2. Distinct(running) /\ running' = SubSeq(running, 1, Len(running) - k)
                BY <2>3 DEF AllocatePreempting, QueuesAreApart
            <4>3. /\ Range(SubSeq(running, 1, Len(running) - k)) \cap Range(victims) = {}
                  /\ Range(SubSeq(running, 1, Len(running) - k)) \cup Range(victims)
                       = Range(running)
                BY <4>1, <4>2, CutFacts
            <4> QED
                BY <4>2, <4>3
        <3>2. computed' = [q \in Req |-> IF q \in Range(victims) THEN 0 ELSE computed[q]]
            BY <2>3 DEF AllocatePreempting
        <3>3. \/ r \in Range(victims) /\ spc' = "end" /\ UNCHANGED <<sched, cached>>
              \/ /\ r \notin Range(victims) /\ spc' = spc
                 /\ sched' = [sched EXCEPT ![r] = RunChunk(r)]
                 /\ cached' = cached \cup PagesUpTo(r, computed[r] + RunChunk(r))
            BY <2>3 DEF AllocatePreempting
        <3> HIDE DEF victims
        <3>4. \A q \in Range(running') : computed'[q] = computed[q]
            BY <3>1, <3>2, RunningTypes
        <3>5. spc' # "idle" /\ cached \subseteq cached'
            BY <2>1, <3>3
        <3>6. ASSUME NEW q \in Range(running')
              PROVE  PagesUpTo(q, computed'[q] + sched'[q]) \subseteq cached'
            <4>1. q \in Range(running) /\ q \in Req
                BY <3>1, RunningTypes
            <4>2. CASE sched'[q] = sched[q]
                BY <3>4, <3>5, <4>1, <4>2 DEF PagesAreResident
            <4>3. CASE sched'[q] # sched[q]
                <5>1. /\ q = r /\ sched'[q] = RunChunk(r)
                      /\ cached' = cached \cup PagesUpTo(r, computed[r] + RunChunk(r))
                    BY <3>3, <4>1, <4>3 DEF Types
                <5> QED
                    BY <3>4, <5>1
            <4> QED
                BY <4>2, <4>3
        <3> QED
            BY <3>5, <3>6 DEF PagesAreResident, PagesUpTo
    <2>4. \/ UNCHANGED <<running, computed, spc, sched, cached>>
          \/ \E k \in 0..(Len(running) - idx + 1) : AllocatePreempting(r, RunChunk(r), k)
        BY <1>3, <2>0, RunningVisit
    <2> QED
        BY <2>2, <2>3, <2>4
<1>4. CASE EndRunning
    BY <1>4, <1>u DEF EndRunning, queues
<1>5. CASE HoldWaiter
    BY <1>5, <1>u DEF HoldWaiter
<1>6. CASE VisitWaiting
    <2>0. PICK r \in Req : r = NextWaiter
        BY <1>6, WaitingVisit
    <2>1. MoreWaiting /\ spc = "waiting"
        BY <1>6 DEF VisitWaiting
    <2>2. r \notin Range(running)
        BY <2>0, <2>1, PopFacts
    <2>3. CASE UNCHANGED <<running, computed, sched, cached>> /\ spc' # "idle"
        BY <1>u, <2>3
    <2>4. CASE /\ running' = Append(running, r)
               /\ computed' = [computed EXCEPT ![r] = CacheHit(r)]
               /\ sched' = [sched EXCEPT ![r] = WaitChunk(r)]
               /\ cached' = cached \cup PagesUpTo(r, CacheHit(r) + WaitChunk(r))
               /\ spc' = spc
        <3>1. Range(running') = Range(running) \cup {r}
            BY <2>2, <2>4, AppendFacts DEF QueuesAreApart
        <3>2. computed'[r] = CacheHit(r) /\ sched'[r] = WaitChunk(r)
            BY <2>4 DEF Types
        <3>3. \A q \in Range(running) : computed'[q] = computed[q] /\ sched'[q] = sched[q]
            BY <2>2, <2>4, RunningTypes DEF Types
        <3>4. \A q \in Range(running) :
                  PagesUpTo(q, computed'[q] + sched'[q]) \subseteq cached'
            BY <2>4, <3>3 DEF PagesAreResident
        <3>5. PagesUpTo(r, computed'[r] + sched'[r]) \subseteq cached'
            BY <2>4, <3>2
        <3> QED
            BY <2>1, <2>4, <3>1, <3>4, <3>5 DEF PagesAreResident, PagesUpTo
    <2>5. \/ UNCHANGED <<running, computed, sched, cached>> /\ spc' # "idle"
          \/ /\ running' = Append(running, r)
             /\ computed' = [computed EXCEPT ![r] = CacheHit(r)]
             /\ sched' = [sched EXCEPT ![r] = WaitChunk(r)]
             /\ cached' = cached \cup PagesUpTo(r, CacheHit(r) + WaitChunk(r))
             /\ spc' = spc
        BY <1>6, <2>0, <2>1 DEF VisitWaiting, WaitChunk, queues
    <2> QED
        BY <2>3, <2>4, <2>5
<1>7. CASE EndStep
    <2> DEFINE answers == {r \in Req : sched[r] > 0
                                       /\ computed[r] + sched[r] >= NumTokens(r)}
    <2>1. /\ computed' = [r \in Req |-> IF r \in answers THEN Prompt(r) + out'[r] - 1
                                        ELSE computed[r] + sched[r]]
          /\ sched' = [r \in Req |-> 0] /\ UNCHANGED <<running, cached>>
        BY <1>7 DEF EndStep
    <2>2. Types'
        BY <1>7, TypesStep DEF Next, EngineStep
    <2>3. ASSUME NEW r \in Range(running)
          PROVE  PagesUpTo(r, computed'[r] + sched'[r]) \subseteq cached
        <3>1. r \in Req /\ computed[r] + sched[r] \in Nat
            BY RunningTypes
        <3>2. computed'[r] \in Nat /\ sched'[r] = 0
            BY <2>1, <2>2, <3>1 DEF Types
        <3>3. computed'[r] + sched'[r] = computed'[r]
            BY <3>2
        <3>4. /\ Prompt(r) \in Nat /\ NumTokens(r) \in Nat /\ NumTokens(r) >= Prompt(r)
            BY <3>1, TokenTypes DEF NumTokens
        <3>5. computed'[r] <= computed[r] + sched[r] \/ Prompt(r) <= computed[r] + sched[r]
            <4>1. CASE r \in answers
                BY <3>1, <3>4, <4>1
            <4>2. CASE r \notin answers
                BY <2>1, <3>1, <4>2
            <4> QED
                BY <4>1, <4>2
        <3>6. PagesUpTo(r, computed'[r]) \subseteq PagesUpTo(r, computed[r] + sched[r])
            BY <3>1, <3>2, <3>5, PagesGrow
        <3> QED
            BY <3>3, <3>6 DEF PagesAreResident
    <2> HIDE DEF answers
    <2> QED
        BY <2>1, <2>3 DEF PagesAreResident, PagesUpTo
<1>8. ASSUME NEW r \in Req, Arrive(r) PROVE PagesAreResident'
    BY <1>8, <1>u DEF Arrive, step
<1>9. ASSUME NEW r \in Req, Leave(r) PROVE PagesAreResident'
    <2>1. Range(running') = Range(running) \ {r}
        BY <1>9, RemoveFacts DEF Leave, QueuesAreApart
    <2> QED
        BY <1>9, <1>u, <2>1 DEF Leave, step
<1>10. ASSUME NEW p \in cached, Evict(p) PROVE PagesAreResident'
    <2>1. /\ spc = "idle" /\ cached' = cached \ {p}
          /\ \A r \in Range(running) : p \notin PagesUpTo(r, computed[r])
          /\ UNCHANGED <<running, computed, sched, spc>>
        BY <1>10 DEF Evict, queues, step
    <2>2. \A r \in Range(running) : computed[r] + sched[r] = computed[r]
        BY <2>1, RunningTypes DEF PagesAreResident
    <2>3. \A r \in Range(running) : PagesUpTo(r, computed[r] + sched[r]) \subseteq cached'
        BY <2>1, <2>2 DEF PagesAreResident
    <2> QED
        BY <2>1, <2>3 DEF PagesAreResident, PagesUpTo
<1>12. ASSUME NEW p \in states, EvictState(p) PROVE PagesAreResident'
    BY <1>12, <1>u DEF EvictState, queues, step
<1>11. CASE UNCHANGED vars
    BY <1>11, <1>u DEF vars
<1> QED
    BY <1>1, <1>2, <1>3, <1>4, <1>5, <1>6, <1>7, <1>8, <1>9, <1>10, <1>11, <1>12
    DEF Next, EngineStep

\* Nobody runs at first.
LEMMA ResidentInit == Init => PagesAreResident
<1>1. ASSUME Init PROVE Range(running) = {} /\ \A r \in Req : sched[r] = 0
    BY <1>1, EmptyFacts DEF Init
<1> QED
    BY <1>1 DEF PagesAreResident

\* A request that is not held for a prefix in flight finds every page it shares
\* with a running request, short of its own last token, and hits it when the
\* recurrent state at its end is there.  The grid of the hold is
\* the page: the hash page divides it.
LEMMA HitReusesPrefix ==
    ASSUME Types, PagesAreResident, HashPage <= Page, NEW r \in Req,
           HoldForInflightPrefix(r) = 0, NEW q \in Partners(r)
    PROVE  LET shared == Lower(Share(r, q), Floor(Prompt(r) - 1, Page))
           IN /\ PagesUpTo(r, shared) \subseteq cached
              /\ Checkpoint(r, shared) \subseteq states => CacheHit(r) >= shared
<1> DEFINE shares == {0} \cup {Share(r, x) : x \in Partners(r)}
           best == Max(shares)
<1>1. \A x \in Partners(r) : x \in Range(running) /\ x \in Req /\ Share(r, x) > 0
    BY RunningTypes DEF Partners
<1>2. /\ Prompt(r) \in Nat /\ Prompt(r) > 0 /\ Page \in Nat /\ Page > 0
      /\ HashPage \in Nat /\ HoldGrid = Page
    BY Sizes DEF HoldGrid, Upper
<1>3. \A x \in Partners(r) : Share(r, x) \in Nat /\ Share(r, x) <= Prompt(r)
    BY <1>1, SharedTokens
<1>4. shares \subseteq Nat /\ shares # {} /\ \A y \in shares : y <= Prompt(r)
    BY <1>2, <1>3
<1>5. best \in shares /\ \A y \in shares : best >= y
    BY <1>2, <1>4, MaxIsGreatest
<1>6. best \in Nat /\ best >= Share(r, q) /\ best > 0 /\ best <= Prompt(r)
    <2>1. Share(r, q) \in shares /\ Share(r, q) > 0 /\ Share(r, q) \in Nat
        BY <1>1, <1>3
    <2>2. best \in Nat /\ best <= Prompt(r) /\ best >= Share(r, q)
        BY <1>4, <1>5, <2>1
    <2> QED
        BY <2>1, <2>2
<1>7. \E x \in Partners(r) : Share(r, x) = best /\ Published(x) >= best
    <2> DEFINE ready == \E x \in Partners(r) : Share(r, x) = best /\ Published(x) >= best
    <2>1. HoldForInflightPrefix(r) = IF best > 0 /\ ~ready THEN best ELSE 0
        BY DEF HoldForInflightPrefix
    <2> HIDE DEF best, ready
    <2>2. ready
        BY <1>6, <2>1
    <2> QED
        BY <2>2 DEF ready
<1>8. PICK x \in Partners(r) : Share(r, x) = best /\ Published(x) >= best
    BY <1>7
<1> HIDE DEF best, shares
<1>9. x \in Req /\ x \in Range(running) /\ computed[x] \in Nat /\ sched[x] \in Nat
      /\ computed[x] >= best
    <2>1. x \in Req /\ x \in Range(running)
        BY <1>1
    <2>2. computed[x] \in Nat /\ sched[x] \in Nat
        BY <2>1, TokenTypes
    <2>3. Floor(computed[x], HoldGrid) <= computed[x] /\ Floor(computed[x], HoldGrid) \in Nat
        BY <1>2, <2>2, FloorBounds
    <2> QED
        BY <1>6, <1>8, <2>1, <2>2, <2>3 DEF Published
<1>10. PagesUpTo(x, best) \subseteq cached
    <2>1. computed[x] + sched[x] \in Nat /\ best <= computed[x] + sched[x]
        BY <1>6, <1>9
    <2>2. PagesUpTo(x, best) \subseteq PagesUpTo(x, computed[x] + sched[x])
        BY <1>6, <1>9, <2>1, PagesGrow
    <2> QED
        BY <1>9, <2>2 DEF PagesAreResident
<1>11. best <= Prompt(x) /\ Prompt(x) \in Nat
       /\ (\A k \in 0..best : Prefix(r, k) = Prefix(x, k))
       /\ \E j \in Nat : best = j * Page
    <2>1. /\ Share(r, x) <= Prompt(x)
          /\ \E j \in Nat : Share(r, x) = j * HoldGrid
          /\ \A k \in 0..Share(r, x) : Prefix(r, k) = Prefix(x, k)
        BY <1>9, SharedTokens
    <2> QED
        BY <1>2, <1>8, <1>9, <2>1, Sizes
<1>12. PagesUpTo(r, best) \subseteq cached
    <2>1. Lower(best, Prompt(r)) = best /\ Lower(best, Prompt(x)) = best
        BY <1>2, <1>6, <1>11 DEF Lower
    <2> DEFINE K == best \div Page
    <2>2. /\ PagesUpTo(r, best) = {Prefix(r, k * Page) : k \in 1..K}
          /\ PagesUpTo(x, best) = {Prefix(x, k * Page) : k \in 1..K}
        BY <2>1 DEF PagesUpTo
    <2>3. K \in Nat /\ K * Page \in Nat /\ K * Page <= best
        BY <1>2, <1>6, DivType, FloorBounds DEF Floor
    <2> HIDE DEF K
    <2>4. ASSUME NEW k \in 1..K PROVE k * Page \in 0..best
        <3>1. k \in Nat /\ k <= K
            BY <2>3
        <3>2. k * Page \in Nat /\ k * Page <= K * Page
            BY <1>2, <2>3, <3>1, TimesMonotonic
        <3> QED
            BY <1>6, <2>3, <3>2
    <2>5. \A k \in 1..K : Prefix(r, k * Page) = Prefix(x, k * Page)
        BY <1>11, <2>4
    <2> QED
        BY <1>10, <2>2, <2>5
<1> DEFINE L == (Prompt(r) - 1) \div Page
           m == Lower(NumTokens(r) - 1, Prompt(r))
           M == m \div Page
           S == {n \in {k * Page : k \in 0..M} :
                    PagesUpTo(r, n) \subseteq cached /\ Checkpoint(r, n) \subseteq states}
<1>13. /\ L \in Nat /\ M \in Nat /\ L <= M /\ m \in Nat
       /\ Floor(Prompt(r) - 1, Page) = L * Page /\ L * Page \in Nat
    <2>1. Prompt(r) - 1 \in Nat /\ NumTokens(r) \in Nat /\ NumTokens(r) >= Prompt(r)
        BY <1>2, TokenTypes DEF NumTokens
    <2>2. m \in Nat /\ Prompt(r) - 1 <= m
        BY <1>2, <2>1 DEF Lower
    <2> HIDE DEF m
    <2>3. L \in Nat /\ M \in Nat /\ L <= M
        BY <1>2, <2>1, <2>2, DivType, DivMonotonic
    <2>4. Floor(Prompt(r) - 1, Page) = L * Page
        BY DEF Floor
    <2>5. L * Page \in Nat
        BY <1>2, <2>3, TimesType
    <2> QED
        BY <2>2, <2>3, <2>4, <2>5
<1> HIDE DEF m, L
<1>14. PICK j \in Nat : Share(r, q) = j * Page
    BY <1>1, <1>2, SharedTokens
<1> DEFINE K == Lower(j, L)
<1>15. K \in Nat /\ K <= j /\ K <= L /\ K \in 0..M
    BY <1>13, <1>14 DEF Lower
<1>16. K * Page \in Nat /\ K * Page <= best
    <2>1. K * Page \in Nat /\ K * Page <= j * Page
        BY <1>2, <1>14, <1>15, TimesMonotonic
    <2> QED
        BY <1>3, <1>6, <1>14, <2>1
<1>17. K * Page = Lower(Share(r, q), Floor(Prompt(r) - 1, Page))
    <2>1. CASE j <= L
        <3>1. j * Page <= L * Page /\ j * Page \in Nat
            BY <1>2, <1>13, <2>1, TimesMonotonic
        <3> QED
            BY <1>13, <1>14, <2>1, <3>1 DEF Lower
    <2>2. CASE ~(j <= L)
        <3>1. L * Page <= j * Page /\ j * Page \in Nat
            BY <1>2, <1>13, <2>2, TimesMonotonic, TimesType
        <3> QED
            BY <1>13, <1>14, <2>2, <3>1 DEF Lower
    <2> QED
        BY <2>1, <2>2
<1> HIDE DEF K
<1>18. PagesUpTo(r, K * Page) \subseteq cached
    BY <1>6, <1>12, <1>16, PagesGrow
<1> HIDE DEF M
<1>19. ASSUME Checkpoint(r, K * Page) \subseteq states PROVE CacheHit(r) >= K * Page
    <2>1. K * Page \in S
        BY <1>15, <1>18, <1>19
    <2>2. \A k \in 0..M : k * Page \in Nat /\ k * Page <= M * Page
        <3> TAKE k \in 0..M
        <3>1. k \in Nat /\ k <= M
            BY <1>13
        <3> QED
            BY <1>2, <1>13, <3>1, TimesMonotonic
    <2>3. S \subseteq Nat /\ S # {} /\ M * Page \in Nat /\ \A y \in S : y <= M * Page
        BY <1>2, <1>13, <2>1, <2>2, TimesType
    <2>4. CacheHit(r) = Max(S)
        BY DEF CacheHit, M, m
    <2> HIDE DEF S
    <2> QED
        BY <2>1, <2>3, <2>4, MaxIsGreatest
<1> QED
    BY <1>17, <1>18, <1>19

\* Only the waiting loop admits, and it asks the hold first.
LEMMA ReuseStep ==
    ASSUME Types, QueuesAreApart, PagesAreResident, HashPage <= Page, [Next]_vars,
           NEW r \in Range(running') \ Range(running), NEW q \in Partners(r)
    PROVE  LET shared == Lower(Share(r, q), Floor(Prompt(r) - 1, Page))
           IN /\ PagesUpTo(r, shared) \subseteq cached
              /\ Checkpoint(r, shared) \subseteq states => computed'[r] >= shared
<1>1. ASSUME Range(running') \subseteq Range(running) PROVE FALSE
    BY <1>1
<1>2. CASE VisitWaiting
    <2>0. PICK w \in Req : w = NextWaiter
        BY <1>2, WaitingVisit
    <2>1. HoldForInflightPrefix(w) = 0
        BY <1>2, <2>0 DEF VisitWaiting
    <2>2. MoreWaiting
        BY <1>2 DEF VisitWaiting
    <2>3. w \notin Range(running)
        BY <2>0, <2>2, PopFacts
    <2>4. running' = Append(running, w) /\ computed' = [computed EXCEPT ![w] = CacheHit(w)]
        BY <1>1, <1>2, <2>0, WaitingVisit DEF queues
    <2>5. Range(running') = Range(running) \cup {w}
        BY <2>3, <2>4, AppendFacts DEF QueuesAreApart
    <2>6. r = w /\ computed'[r] = CacheHit(r)
        BY <2>4, <2>5 DEF Types
    <2> QED
        BY <2>1, <2>6, HitReusesPrefix
<1>3. CASE VisitRunning
    <2>1. idx <= Len(running)
        BY <1>3, RunningVisit
    <2>2. ASSUME NEW k \in 0..(Len(running) - idx + 1),
                 AllocatePreempting(running[idx], RunChunk(running[idx]), k)
          PROVE  Range(running') \subseteq Range(running)
        <3>1. /\ Range(waiting) \subseteq Range(waiting')
              /\ Range(waiting') \cap Range(running') = {}
              /\ Range(waiting') \cup Range(running') = Range(waiting) \cup Range(running)
            BY <2>1, <2>2, PreemptFacts
        <3> QED
            BY <3>1
    <2>3. \/ UNCHANGED running
          \/ \E k \in 0..(Len(running) - idx + 1) :
                 AllocatePreempting(running[idx], RunChunk(running[idx]), k)
        BY <1>3, RunningVisit
    <2> QED
        BY <1>1, <2>2, <2>3
<1>4. ASSUME NEW x \in Req, Leave(x) PROVE FALSE
    <2>1. Range(running') = Range(running) \ {x}
        BY <1>4, RemoveFacts DEF Leave, QueuesAreApart
    <2> QED
        BY <1>1, <2>1
<1>5. CASE UNCHANGED running
    BY <1>1, <1>5
<1> QED
    BY <1>2, <1>3, <1>4, <1>5
    DEF Next, EngineStep, StartStep, DeferCold, EndRunning, HoldWaiter, EndStep, Arrive,
        Evict, EvictState, vars, queues

-----------------------------------------------------------------------------
(***************************************************************************)
(* Theorems                                                                *)
(***************************************************************************)

\* The variables keep their types, and a request's context stays one token
\* ahead of what is computed of it, through admission, chunking, preemption
\* and the end of the step: for any number of requests, any prompts, page
\* sizes, caps and ages.
THEOREM ContextAhead == Spec => []Types
<1>1. Init => Types
    BY TypesInit
<1>2. Types /\ [Next]_vars => Types'
    BY TypesStep
<1> QED
    BY <1>1, <1>2, PTL DEF Spec

\* With the warm bypass on (GLM53_MIXED_PREFILL_WARM_TOKENS of at least one),
\* a decode is never deferred, whatever the mixed-prefill cap, the resident
\* tails, the in-flight holds, the align floor and preemption do to the step.
THEOREM DecodeServed ==
    ASSUME WarmTokens > 0
    PROVE  Spec => []DecodeNeverHeld
<1>1. Init => Types /\ DecodeNeverHeld
    <2>1. Init => DecodeNeverHeld
        BY DEF Init, DecodeNeverHeld
    <2> QED
        BY <2>1, TypesInit
<1>2. Types /\ DecodeNeverHeld /\ [Next]_vars => (Types /\ DecodeNeverHeld)'
    BY TypesStep, DecodeStep
<1> QED
    BY <1>1, <1>2, PTL DEF Spec

\* Each request is in one place of one queue exactly while it lives, the queues
\* never hold one twice, and every count is within its bound: for any requests,
\* prompts, page sizes, caps and preemptions.
THEOREM TypeCorrect == Spec => []TypeOK
<1>1. Init => Types /\ QueuesAreApart
    BY TypesInit, ApartInit
<1>2. Types /\ QueuesAreApart /\ [Next]_vars => (Types /\ QueuesAreApart)'
    BY TypesStep, ApartStep
<1>3. Types /\ QueuesAreApart => TypeOK
    BY TypesAndQueues
<1> QED
    BY <1>1, <1>2, <1>3, PTL DEF Spec

\* The tail mark of a running request is that of its last admission, whatever
\* visits, refusals, preemptions and evictions lie between.
THEOREM MarksAreOfAdmission == Spec => []MarkIsOfAdmission
<1>1. Init => Types /\ QueuesAreApart /\ MarkIsOfAdmission
    <2>1. Init => MarkIsOfAdmission
        BY EmptyFacts DEF Init, MarkIsOfAdmission
    <2> QED
        BY <2>1, TypesInit, ApartInit
<1>2. Types /\ QueuesAreApart /\ MarkIsOfAdmission /\ [Next]_vars
        => (Types /\ QueuesAreApart /\ MarkIsOfAdmission)'
    BY TypesStep, ApartStep, MarkStep
<1> QED
    BY <1>1, <1>2, PTL DEF Spec

\* With the align floor on, and a gate whose holds end (an age limit, or a cap
\* that lets something through), no request is passed over more often than the
\* longest hold and the deferrals allow, however often it is preempted and
\* requeued and whoever decodes beside it.
THEOREM ServiceIsBounded ==
    ASSUME AlignFloor, HoldsEnd
    PROVE  Spec => []ServiceBound
<1>1. Init => Types /\ QueuesAreApart /\ PassedIsOwed
    BY TypesInit, ApartInit, OwedInit
<1>2. Types /\ QueuesAreApart /\ PassedIsOwed /\ [Next]_vars
        => (Types /\ QueuesAreApart /\ PassedIsOwed)'
    BY TypesStep, ApartStep, OwedStep
<1>3. Types /\ PassedIsOwed => ServiceBound
    BY OwedIsBounded
<1> QED
    BY <1>1, <1>2, <1>3, PTL DEF Spec

\* When a hash page is no larger than a page, an admission finds every page it
\* shares with a running request, and reuses them unless the recurrent state at
\* their end was evicted: the hold lets a waiter through only when the longest
\* share is computed, and a running request's pages, unlike its earlier states,
\* are not evicted (patch_prefix_admit.py:112-169).
THEOREM PrefixIsReused ==
    ASSUME HashPage <= Page
    PROVE  Spec => AdmissionReusesPrefix
<1>1. Init => Types /\ QueuesAreApart /\ PagesAreResident
    BY TypesInit, ApartInit, ResidentInit
<1>2. Types /\ QueuesAreApart /\ PagesAreResident /\ [Next]_vars
        => (Types /\ QueuesAreApart /\ PagesAreResident)'
    BY TypesStep, ApartStep, ResidentStep
<1>3. Types /\ QueuesAreApart /\ PagesAreResident /\ [Next]_vars
        => \A r \in Range(running') \ Range(running) : \A q \in Partners(r) :
               LET shared == Lower(Share(r, q), Floor(Prompt(r) - 1, Page))
               IN /\ PagesUpTo(r, shared) \subseteq cached
                  /\ Checkpoint(r, shared) \subseteq states => computed'[r] >= shared
    BY ReuseStep
<1> QED
    BY <1>1, <1>2, <1>3, PTL DEF Spec, AdmissionReusesPrefix

=============================================================================
