----------------------------- MODULE MCKvCache -----------------------------
(***************************************************************************)
(* KvCache for TLC.  Six blocks are fewer than two requests of four pages  *)
(* and their states need, so blocks are evicted and allocations fail; the  *)
(* batch prompt shares its first page with the other one.  Hot protection  *)
(* is installed on top of the tail-first order only.                       *)
(***************************************************************************)
EXTENDS KvCache, TLC

CONSTANTS b1, b2, b3, b4, b5, b6, s1, s2

MCBlocks == {b1, b2, b3, b4, b5, b6}
MCSlots == {s1, s2}
MCPrompts == {<<1, 2, 3, 4>>}
MCBatch == {<<1, 5>>}
MCModes == {m \in [tailFirst : BOOLEAN, protect : BOOLEAN] : m.protect => m.tailFirst}
MCSymmetry == Permutations(MCSlots)

(* The identity of a block does not matter, only where it is: states that  *)
(* differ by a renaming of the blocks are one state.  A block is named by  *)
(* its first place in the queue and the tables of the requests.            *)
Places == SelectSeq(queue \o pages[s1] \o states[s1] \o pages[s2] \o states[s2],
                    LAMBDA b : b /= Null)
Name(b) ==
    IF InSeq(b, Places)
    THEN CHOOSE k \in 1..Len(Places) : Places[k] = b /\ \A l \in 1..(k - 1) : Places[l] /= b
    ELSE 0
Named(seq) == [k \in 1..Len(seq) |-> Name(seq[k])]
MCView ==
    <<flags, Len(queue), [k \in 1..Len(Places) |-> hash[Places[k]]],
      {Name(b) : b \in reused}, {Name(b) : b \in hits}, {Name(b) : b \in unstored},
      prompt, noStore, [s \in Slots |-> Named(pages[s])], [s \in Slots |-> Named(states[s])],
      retired>>
============================================================================
