------------------------------ MODULE MCWindow ------------------------------
(***************************************************************************)
(* Window for TLC: a control and a candidate arm, with signals enough to   *)
(* interrupt the window and its recovery, or a recovery and that at exit.  *)
(***************************************************************************)
EXTENDS Window

MCArms == <<"a", "b">>
MCTolerated == [r \in Runners |-> 2]
=============================================================================
