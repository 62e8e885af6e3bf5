---------------------------- MODULE OverlayPatches ----------------------------
(***************************************************************************)
(* The installers of overlay/ as data: which files of the installed vLLM   *)
(* (and of the ExLlamaV3 source tree) each one edits, at which sites, what *)
(* its anchors need of the text and how it tells an earlier installation.  *)
(* A site stands for one OLD/NEW (ANCHOR/PATCHED) pair of a script; a tree *)
(* is known by the set of sites whose new text stands in it verbatim.      *)
(***************************************************************************)
EXTENDS Naturals, Sequences

Always == "always"       \* no environment flag gates the installer

(* One file edited by an installer.                                        *)
(*   adds    sites it writes                                               *)
(*   shares  those of them another installer may have written already      *)
(*   needs   sites whose new text its anchors contain                      *)
(*   bars    sites whose new text no longer contains its anchors           *)
(*   older   sites of earlier releases it upgrades                         *)
(*   check   what it asks of a file that carries its marker: every site    *)
(*           ("verbatim"), the marker alone ("marker"), nothing because    *)
(*           the file is always rewritten ("rewrite"), or it refuses       *)
(*           ("fresh")                                                     *)
Edit(file, adds) ==
    [file |-> file, adds |-> adds, shares |-> {}, needs |-> {}, bars |-> {},
     older |-> {}, check |-> "verbatim"]

(* preflight: every file is prepared before the first one is written.      *)
(* unmixed: files of which some carry the edit and some do not are refused.*)
Installer(name, flag, edits) ==
    [name |-> name, flag |-> flag, edits |-> edits, preflight |-> TRUE,
     unmixed |-> FALSE]

-----------------------------------------------------------------------------
(* Build-time installers on the ExLlamaV3 extension sources.               *)

AvxTargets == {"arm.avx2", "arm.avx512", "arm.reduce"}
CpuMoeStub == {"arm.moe_stub"}
PauseRewrite == {"arm.pause"}
ExtAarch64 == [Installer("exl3_ext_aarch64", Always,
    <<[Edit("ext/avx_target", AvxTargets) EXCEPT !.check = "rewrite"],
      [Edit("ext/cpu_moe", CpuMoeStub) EXCEPT !.check = "marker"],
      [Edit("ext/pauses", PauseRewrite) EXCEPT !.check = "marker"]>>)
    EXCEPT !.preflight = FALSE]

FatKernel == [Installer("exl3_fat_kernel", Always,
    <<[Edit("ext/fat_sources", {"fat.sources"}) EXCEPT !.check = "rewrite"],
      [Edit("ext/bindings", {"fat.include", "fat.def"}) EXCEPT !.check = "fresh"]>>)
    EXCEPT !.preflight = FALSE]

(* The table of the c5d9c657 pin.  A source that has the scheduler already *)
(* (v1.4.7 and later) is recognised as a whole and left alone; no other    *)
(* installer's anchors or sites depend on which of the two it was.         *)
TicketFiles == {"tk.devctx", "tk.devctx_h", "tk.moe", "tk.moe_h", "tk.common", "tk.kernel"}
TicketScheduler == [Installer("exl3_ticket_scheduler", "EXL3_TICKET_SCHEDULER",
    <<Edit("ext/exl3_devctx.cu", {"tk.devctx"}), Edit("ext/exl3_devctx.cuh", {"tk.devctx_h"}),
      [Edit("ext/exl3_moe.cu", {"tk.moe"}) EXCEPT !.bars = {"pl.helpers"}],
      Edit("ext/exl3_moe.cuh", {"tk.moe_h"}), Edit("ext/exl3_moe_common.cuh", {"tk.common"}),
      Edit("ext/exl3_moe_kernel.cuh", {"tk.kernel"})>>)
    EXCEPT !.unmixed = TRUE]

PipelineKernelSites == {"pl.template", "pl.entry", "pl.had_up", "pl.gemm_up"}
PipelineHostSites == {"pl.include", "pl.helpers", "pl.dispatch"}
PipelineBindingSites == {"pl.bind_include", "pl.bind_def"}
PipelineUnit == {"pl.geometry", "pl.comp_unit"}
MoePipeline == Installer("exl3_moe_pipeline", Always,
    <<[Edit("ext/pipeline_kernel", PipelineKernelSites) EXCEPT !.check = "rewrite"],
      [Edit("ext/pipeline_unit", PipelineUnit) EXCEPT !.check = "rewrite"],
      [Edit("ext/exl3_moe.cu", PipelineHostSites) EXCEPT !.check = "fresh"],
      [Edit("ext/bindings", PipelineBindingSites) EXCEPT !.check = "fresh"]>>)

-----------------------------------------------------------------------------
(* Installers the image build runs on vLLM.                                *)

ModelOverrides == Installer("model_overrides", Always,
    <<Edit("config/model", {"mo.overrides"})>>)

QwenSites == {"d2.causal", "d2.decoder_attr", "d2.decoder_call", "d2.model_attr",
              "d2.model_call"}
DraftKvSites == {"d2.utils", "d2.spec_init"}
DflashPrepared ==
    <<Edit("models/qwen3_dflash", QwenSites),
      Edit("models/registry", {"d2.registry"}),
      Edit("dflash/utils", {"d2.utils"}),
      Edit("spec_decode/init", {"d2.spec_init"})>>
DflashKit == [Edit("models/qwen3_dflash2", {"d2.kit"}) EXCEPT !.check = "rewrite"]
Dflash2 == Installer("dflash2", Always, <<DflashKit>> \o DflashPrepared)

EagleSites == {"e3.import", "e3.model", "e3.layers", "e3.loop", "e3.return", "e3.causal",
               "e3.conditional"}
GlmEagle3 == Installer("glm_eagle3", Always, <<Edit("glm5next/model", EagleSites)>>)

DrafterGroups == {"dg.partition", "dg.groups"}
DrafterLayout == {"dg.annot", "dg.doc", "dg.detect", "dg.validate", "dg.return"}
DrafterConfig == {"dg.pool_bytes", "dg.destructure", "dg.per_block", "dg.shared_by",
                  "dg.tensors"}
DrafterMaxMem == {"dg.max_destructure", "dg.max_blocks"}
DrafterSites == DrafterGroups \cup DrafterLayout \cup DrafterConfig \cup DrafterMaxMem
(* Earlier releases, still in images: the drafter kept as it is, the        *)
(* compact standalone page, the padded page with the short boot log, the   *)
(* layout that refuses a padded page.                                      *)
DrafterOlder == {"dg.keep", "dg.compact", "dg.short_log", "dg.unpadded"}
DrafterGroup == Installer("glm5_drafter_group", Always,
    <<[Edit("core/kv_cache_utils", DrafterSites)
        EXCEPT !.older = DrafterOlder, !.check = "marker"]>>)

SuppressFactory == {"ss.import", "ss.factory"}
SuppressStop == {"ss.init", "ss.stop"}
SuppressStops == Installer("suppress_stops", Always,
    <<Edit("engine/detokenizer", SuppressFactory \cup SuppressStop)>>)

FloorHelperV2 == {"df.helper2"}
FloorHelperV3 == {"df.helper3"}
FloorHelperV31 == {"df.helper31"}
FloorCallSites == {"df.policy", "df.running", "df.waiting"}
FloorV1Sites == {"df.running1", "df.waiting1"}
DecodeFloorUpgrade == FloorHelperV2 \cup FloorHelperV3 \cup FloorV1Sites
DecodeFloor == Installer("scheduler_decode_floor", Always,
    <<[Edit("core/scheduler", {"sched.os"} \cup FloorHelperV31 \cup FloorCallSites)
        EXCEPT !.shares = {"sched.os"}, !.older = DecodeFloorUpgrade,
               !.bars = {"rt.running_cap", "rt.waiting_cap"}]>>)

HybridSites == {"coord.spec", "hy.eagle", "hy.min", "hy.log"}
HybridPrefixHit == Installer("hybrid_prefix_hit", Always,
    <<[Edit("core/kv_cache_coordinator", HybridSites) EXCEPT !.shares = {"coord.spec"}]>>)

XgrammarBackend == {"xg.accept", "xg.validate", "xg.reset"}
XgrammarManager == {"xg.manager"}
Xgrammar == Installer("xgrammar_termination", Always,
    <<Edit("structured_output/backend_xgrammar", XgrammarBackend),
      Edit("structured_output/init", XgrammarManager)>>)

CacheReset == Installer("cache_reset", Always, <<Edit("openai/api_server", {"cr.dev"})>>)

KpoolSlotmap == Installer("kpool_tail_slotmap", Always,
    <<Edit("worker/block_table", {"ks.clamp"})>>)

-----------------------------------------------------------------------------
(* Installers that only the boot scripts run.                              *)

VideoHook == {"vp.hook"}
VideoPth == {"vp.pth"}
VideoPlaceholders == Installer("glm_video_placeholders", Always,
    <<[Edit("site/glm53_video_patch", VideoHook) EXCEPT !.check = "rewrite"],
      [Edit("site/glm53_video_pth", VideoPth) EXCEPT !.check = "rewrite"],
      Edit("layers/sparse_attn_indexer_kpool", {"vp.kpool"})>>)

CompactBlock == {"dc.block"}
CompactValid == {"dc.valid"}
CompactDrop == {"dc.drop"}
DraftCompactPage == Installer("draft_compact_page", "DRAFT_COMPACT_PAGE",
    <<[Edit("core/kv_cache_utils", CompactBlock \cup CompactValid)
        EXCEPT !.needs = {"dg.groups", "dg.validate"}],
      [Edit("core/kv_cache_coordinator", CompactDrop) EXCEPT !.needs = {"coord.spec"}]>>)

TailEvictSites == {"te.pop", "te.def"}
CacheTailEvict == Installer("cache_tail_evict", "CACHE_TAIL_EVICT",
    <<[Edit("core/block_pool", TailEvictSites) EXCEPT !.check = "marker"]>>)

HotProtectSites == {"hp.hit", "hp.reset"}
CacheHotProtect == [Installer("cache_hot_protect", "CACHE_HOT_PROTECT",
    <<[Edit("core/single_type_manager", {"hp.hit"}) EXCEPT !.needs = {"te.def"}],
      [Edit("core/kv_cache_utils", {"hp.reset"}) EXCEPT !.needs = {"te.def"}]>>)
    EXCEPT !.unmixed = TRUE]

RetentionHelper == {"pg.import", "coord.spec", "pg.helper"}
RetentionInit == {"pg.init"}
RetentionCalls == {"pg.base_cache", "pg.hybrid_loop", "pg.hybrid_cache"}
PerGroupRetention == Installer("apc_per_group_retention", Always,
    <<[Edit("core/kv_cache_coordinator", RetentionHelper \cup RetentionInit \cup RetentionCalls)
        EXCEPT !.shares = {"coord.spec"}, !.check = "marker"]>>)

RouterGemmSites == {"rg.init", "rg.set_dtype"}
RouterGemm == Installer("router_gemm_gb10", Always, <<Edit("fused_moe/gate", RouterGemmSites)>>)

RouterOnce == Installer("router_once", "ROUTER_ONCE", <<Edit("glm5next/model", {"ro.gate"})>>)

SharedExpertsSites == {"se.init", "se.sync", "se.forward"}
SharedExperts == Installer("shared_experts_overlap", "SHARED_EXPERTS_EARLY",
    <<Edit("fused_moe/shared_experts", SharedExpertsSites)>>)

Spinwait == Installer("spinwait_gb10", "SPINWAIT_2MS",
    <<[Edit("distributed/shm_broadcast", {"sw.busy"}) EXCEPT !.check = "marker"]>>)

ShmRecheck == Installer("shm_recheck", "SHM_RECHECK_50MS",
    <<[Edit("distributed/shm_broadcast", {"sr.recheck"}) EXCEPT !.check = "marker"]>>)

FineGrainedSites == {"fg.veto", "fg.diag"}
FineGrainedApc == Installer("fine_grained_apc", "FINE_GRAINED_APC",
    <<Edit("core/kv_cache_coordinator", FineGrainedSites)>>)

AlignFloorSites == {"af.helper", "af.split"}
AlignFloor == Installer("align_floor", Always,
    <<[Edit("core/scheduler", {"sched.os"} \cup AlignFloorSites)
        EXCEPT !.shares = {"sched.os"}]>>)

TailBoundarySites == {"tb.sched", "tb.full", "tb.mamba"}
TailBoundary == [Installer("apc_tail_boundary", "APC_TAIL_FLOOR",
    <<Edit("core/scheduler", {"tb.sched"}),
      Edit("core/single_type_manager", {"tb.full", "tb.mamba"})>>)
    EXCEPT !.preflight = FALSE]

AdaptiveSchedSites == {"ak.helper", "ak.observe", "ak.update"}
AdaptiveGraphSites == {"ak.graph_helper", "ak.query_lens"}
AdaptiveK == [Installer("adaptive_k", Always,
    <<[Edit("core/scheduler", AdaptiveSchedSites) EXCEPT !.needs = {"sched.os"}],
      Edit("worker/cudagraph_utils", AdaptiveGraphSites)>>)
    EXCEPT !.preflight = FALSE]

KdaSites == {"kr.os", "kr.helper", "kr.launch"}
KdaGlmSites == {"kg.os", "kg.helper", "kg.launch"}
KdaRecurrent == [Installer("kda_recurrent", "KDA_REC",
    <<Edit("fla/kda", KdaSites), Edit("glm5next/kda_kernels", KdaGlmSites)>>)
    EXCEPT !.preflight = FALSE]

FlashKdaSites == {"fk.helper", "fk.init"}
FlashKdaCall == {"fk.call", "fk.method"}
FlashKdaCheck == "verbatim"
FlashKda == Installer("flashkda_prefill", "KDA_PREFILL_BACKEND",
    <<[Edit("glm5next/kda", FlashKdaSites \cup FlashKdaCall) EXCEPT !.check = FlashKdaCheck]>>)

CapacityHelpers == {"kc.helpers"}
CapacityLog == Installer("kv_capacity_log", Always,
    <<Edit("core/kv_cache_utils", CapacityHelpers \cup {"kc.call"})>>)

MissStatsSites == {"sm.stats", "sm.manager"}
MissLoggerSites == {"sm.counter", "sm.record"}
SparseMiss == Installer("sparse_miss_metric", "SPARSE_MISS_METRIC",
    <<Edit("metrics/stats", {"sm.stats"}), Edit("core/kv_cache_manager", {"sm.manager"}),
      Edit("metrics/loggers", MissLoggerSites)>>)

RoleTokenSites == {"rc.init", "rc.encode", "rc.salt_sync", "rc.salt_async"}
RoleTokenCache == Installer("role_token_cache", "ROLE_TOKEN_CACHE",
    <<Edit("renderers/base", RoleTokenSites)>>)

NoStoreParamSites == {"ns.field", "ns.helpers", "ns.post"}
NoStoreRequestSites == {"ns.resolve", "ns.method"}
NoStorePoolSites == {"ns.pool_helper", "ns.full", "ns.partial"}
NoStore == Installer("apc_no_store", Always,
    <<Edit("sampling_params", NoStoreParamSites), Edit("request", NoStoreRequestSites),
      Edit("core/block_pool", NoStorePoolSites)>>)

W28HostSites == {"w28.interface", "w28.runner"}
W28MambaSites == {"w28.bind", "w28.seed", "w28.calls"}
W28 == Installer("w28_correctness", Always,
    <<Edit("model_states/interface", {"w28.interface"}), Edit("gpu/model_runner", {"w28.runner"}),
      Edit("model_states/mamba_hybrid", W28MambaSites),
      Edit("mla/flashinfer_sm120", {"w28.sm120"})>>)

KpoolKernelSites == {"kt.doc", "kt.sig", "kt.body", "kt.host", "kt.call"}
KpoolIndexerSites == {"kt.out_sig", "kt.out_doc", "kt.out", "kt.buffer", "kt.out_call"}
KpoolTableSites == {"kt.in_range"}
KpoolCorrectness == Installer("kpool_tail_correctness", "KPOOL_TAIL_CORRECTNESS",
    <<Edit("ops/kpool_compress", KpoolKernelSites),
      Edit("model_states/mamba_hybrid", {"kt.positions"}),
      Edit("mla/indexer", KpoolIndexerSites), Edit("gpu/block_table", KpoolTableSites)>>)

WorkspaceHelpers == {"iw.import", "iw.helpers"}
WorkspaceSites == {"iw.splitter", "iw.chunk_assert"}
WorkspaceGlmSites == {"iw.glm", "iw.kpool_cap"}
IndexerWorkspace == Installer("indexer_workspace", Always,
    <<Edit("mla/indexer", WorkspaceHelpers \cup WorkspaceSites),
      Edit("glm5next/attention", {"iw.glm"}),
      Edit("layers/sparse_attn_indexer_kpool", {"iw.kpool_cap"})>>)

NullGapSites == {"ng.init", "ng.remove", "ng.free"}
NullGap == Installer("mamba_null_gap_retirement", Always,
    <<Edit("core/single_type_manager", NullGapSites)>>)

MergeAssert == Installer("kv_merge_assert", Always, <<Edit("kv_cache_interface", {"ma.merge"})>>)

PrefixAdmitSites == {"pa.helper", "pa.call"}
PrefixAdmit == Installer("prefix_admit", "PREFIX_ADMIT",
    <<[Edit("core/scheduler", PrefixAdmitSites) EXCEPT !.bars = {"rt.helper"}]>>)

ResidentTailSites == {"rt.helper", "rt.loop", "rt.running_cap", "rt.waiting_cap"}
ResidentTail == Installer("resident_tail", "RESIDENT_TAIL",
    <<Edit("core/scheduler", ResidentTailSites)>>)

-----------------------------------------------------------------------------
(* A site written inside another site's new text: the other one no longer  *)
(* stands verbatim.                                                        *)
SpoiledBy(site) ==
    CASE site = "rt.running_cap" -> {"df.running"}
      [] site = "rt.waiting_cap" -> {"df.waiting"}
      [] site = "dc.block" -> {"dg.groups"}
      [] site = "dc.valid" -> {"dg.validate"}
      [] OTHER -> {}

(* The order of the two inner scripts, the same for head and worker.       *)
BootOrder ==
    <<VideoPlaceholders, SuppressStops, DecodeFloor, DrafterGroup, HybridPrefixHit,
      DraftCompactPage, CacheTailEvict, CacheHotProtect, PerGroupRetention, Xgrammar,
      CacheReset, RouterGemm, RouterOnce, SharedExperts, KpoolSlotmap, Spinwait,
      ShmRecheck, FineGrainedApc, AlignFloor, TailBoundary, AdaptiveK, KdaRecurrent,
      FlashKda, CapacityLog, SparseMiss, RoleTokenCache, NoStore, W28, KpoolCorrectness,
      IndexerWorkspace, NullGap, MergeAssert, PrefixAdmit, ResidentTail>>

(* What a Dockerfile runs: the installers in order, the flags it sets for  *)
(* them, whether it starts from the base image, and the sites of sources   *)
(* it fetches anew.                                                        *)
ExtSites == AvxTargets \cup CpuMoeStub \cup PauseRewrite \cup TicketFiles \cup
            {"fat.sources", "fat.include", "fat.def"} \cup PipelineKernelSites \cup
            PipelineHostSites \cup PipelineBindingSites \cup PipelineUnit
ImageRecipe ==
    [order |-> <<ExtAarch64, FatKernel, TicketScheduler, ModelOverrides, Dflash2, GlmEagle3,
                 DrafterGroup, SuppressStops, DecodeFloor, HybridPrefixHit, Xgrammar,
                 CacheReset, KpoolSlotmap>>,
     flags |-> {"EXL3_TICKET_SCHEDULER"}, fromBase |-> TRUE, refetched |-> ExtSites]
PipelineRecipe ==
    [order |-> <<ExtAarch64, FatKernel, TicketScheduler, MoePipeline>>,
     flags |-> {"EXL3_TICKET_SCHEDULER"}, fromBase |-> FALSE, refetched |-> ExtSites]
DflashRecipe ==
    [order |-> <<ModelOverrides, Dflash2, GlmEagle3>>,
     flags |-> {}, fromBase |-> FALSE, refetched |-> {}]
ShmRecipe ==
    [order |-> <<ShmRecheck>>, flags |-> {"SHM_RECHECK_50MS"}, fromBase |-> FALSE,
     refetched |-> {}]
=============================================================================
