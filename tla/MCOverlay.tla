------------------------------ MODULE MCOverlay ------------------------------
(***************************************************************************)
(* Overlay with the installers of this repository.                         *)
(***************************************************************************)
EXTENDS Overlay, OverlayPatches

MCRecipes == [image |-> ImageRecipe, pipeline |-> PipelineRecipe, dflash |-> DflashRecipe,
              shm |-> ShmRecipe]

(* The flags whose edits meet other edits are varied one by one; the rest  *)
(* is on together, or off with all or none of those.                       *)
Meeting == {"DRAFT_COMPACT_PAGE", "CACHE_TAIL_EVICT", "CACHE_HOT_PROTECT", "PREFIX_ADMIT",
            "RESIDENT_TAIL"}
AllFlags == {i.flag : i \in InstallersOf(BootOrder)} \ {Always}
MCFlagSets == {m \cup (AllFlags \ Meeting) : m \in SUBSET Meeting} \cup {{}, Meeting}

(* Images of earlier releases: the first mixed-prefill gate, its second    *)
(* and third helper, each with a drafter group of its time.                *)
ImageOf(floor, drafter) ==
    floor \cup (DrafterSites \ {"dg.groups", "dg.validate"}) \cup {drafter, "sched.os"}
MCImages == {{}, ImageOf(FloorV1Sites \cup {"df.policy"}, "dg.keep"),
             ImageOf(FloorHelperV2 \cup FloorCallSites, "dg.compact"),
             ImageOf(FloorHelperV3 \cup FloorCallSites, "dg.short_log"),
             ImageOf(FloorHelperV3 \cup FloorCallSites, "dg.unpadded")}

(* One upstream file at a time has moved on: files several installers      *)
(* edit, the last file of an installer with a preflight and of one         *)
(* without, a file of the image build.                                     *)
MCDrifts == {{}} \cup {{f} : f \in {"core/scheduler", "core/kv_cache_coordinator",
    "core/single_type_manager", "gpu/block_table", "worker/cudagraph_utils", "ext/bindings"}}

(* Under every other setting each edit stands on what an earlier one wrote.*)
ASSUME FlagsAssumption ==
    \A f \in FlagSets :
        Grounded(Boot, f) \/ ("CACHE_HOT_PROTECT" \in f /\ "CACHE_TAIL_EVICT" \notin f)

(* An installer refuses only upstream text it does not know, or hot        *)
(* protection without the tail-first order it stands on: never what an     *)
(* earlier installer, an earlier release or a build has left behind.       *)
RefusalHasCause ==
    job = "refused" =>
        \/ drift /= {}
        \/ "CACHE_HOT_PROTECT" \in flags /\ "CACHE_TAIL_EVICT" \notin flags
=============================================================================
