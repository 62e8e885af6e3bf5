---------------------------- MODULE MCProdStart ----------------------------
(***************************************************************************)
(* ProdStart for TLC: two shapes, so that a configuration can change and   *)
(* change back.                                                            *)
(***************************************************************************)
EXTENDS ProdStart

MCShapes == {"A", "B"}

=============================================================================
