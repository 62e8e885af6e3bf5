--------------------------- MODULE MCOverlay_proofs ---------------------------
(***************************************************************************)
(* Which settings make a start refuse.                                     *)
(***************************************************************************)
EXTENDS MCOverlay, Overlay_proofs

(* A start or a build is refused only for upstream text that has moved on, *)
(* and a start also for hot protection without the tail-first order: under *)
(* every other setting all edits stand on what earlier ones wrote, so the  *)
(* general cause of a refusal is ruled out.                                *)
THEOREM RefusalStaysCaused == Spec => []RefusalHasCause
<1>1. LaidInv /\ Caused => RefusalHasCause
  <2> SUFFICES ASSUME LaidInv, Caused, job = "refused", drift = {}
               PROVE  "CACHE_HOT_PROTECT" \in flags /\ "CACHE_TAIL_EVICT" \notin flags
    BY DEF RefusalHasCause
  <2>1. script = "boot" /\ ~Grounded(Boot, flags)
    BY CauseIsGround
  <2>2. flags \in FlagSets
    BY <2>1 DEF LaidInv, JobIsOfScript
  <2> QED
    BY <2>1, <2>2, FlagsAssumption
<1> QED
  BY <1>1, InitIsLaid, StepKeepsLaid, PTL DEF Spec
=============================================================================
