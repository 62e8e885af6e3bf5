---------------------------- MODULE MCScheduler ----------------------------
(***************************************************************************)
(* Scheduler for TLC: a cold request, a follow-up that shares two pages    *)
(* with it, and a third that shares one page with both.  A page is four    *)
(* tokens and a step's budget one page, or two.                            *)
(***************************************************************************)
EXTENDS Scheduler

MCReq == {"cold", "follow", "other"}
MCPromptIds == [r \in MCReq |->
    CASE r = "cold"   -> <<1, 1, 1, 1, 2, 2, 2, 2, 3>>
      [] r = "follow" -> <<1, 1, 1, 1, 2, 2, 2, 2, 4, 4>>
      [] r = "other"  -> <<1, 1, 1, 1, 5, 5>>]

\* One shared page only.
MCShortPromptIds == [r \in MCReq |->
    CASE r = "cold"   -> <<1, 1, 1, 1, 2, 2, 2>>
      [] r = "follow" -> <<1, 1, 1, 1, 4>>
      [] r = "other"  -> <<1, 1, 1, 1, 5, 5>>]

=============================================================================
