------------------------------ MODULE Matching ------------------------------
(***************************************************************************)
(* The choices JobConsumer.scheduleJob makes: which providers of the       *)
(* registry's list a job may be sent to, and which GPU of a provider its   *)
(* rental session is billed against.  Each gate looks at the provider's    *)
(* best GPU for one quantity.  A job is a record with the JSON names of    *)
(* the scheduler's struct Job; module JobWire takes jobs through the loop. *)
(***************************************************************************)
EXTENDS Integers, SequencesExt

Rated == [h100 |-> 700, rtx4090 |-> 450, a100 |-> 400, rtx4080 |-> 350,
          rtx3090 |-> 350, a6000 |-> 300, l40 |-> 300]

(* estimatePowerFromModel *)
EstimatePowerFromModel(m) == IF m \in DOMAIN Rated THEN Rated[m] ELSE 250

PowerOf(g) == IF g.power = 0 THEN EstimatePowerFromModel(g.model) ELSE g.power

Larger(a, b) == IF a > b THEN a ELSE b

BestProviderVRAM(p) ==
  FoldLeft(LAMBDA best, g : Larger(g.vram, best), 0, p.gpus)

BestProviderPowerW(p) ==
  FoldLeft(LAMBDA best, g : Larger(PowerOf(g), best), 0, p.gpus)

(* findProviderGPUType *)
FindProviderGPUType(p) == IF p.gpus = <<>> THEN "unknown-gpu" ELSE p.gpus[1].model

(* Mutant of Passes: providers that are not idle are taken.                *)
PassesBusy(j, p) ==
  /\ p.gpus # <<>>
  /\ j.gpu_type = "" \/ FindProviderGPUType(p) = j.gpu_type
  /\ Len(p.gpus) >= j.gpu_count
  /\ BestProviderVRAM(p) >= j.min_vram_mb
  /\ BestProviderPowerW(p) >= j.min_power_w

(* The gates of the loop.  Names of models are compared without case.      *)
Passes(j, p) ==
  /\ p.idle
  /\ p.gpus # <<>>
  /\ j.gpu_type = "" \/ FindProviderGPUType(p) = j.gpu_type
  /\ Len(p.gpus) >= j.gpu_count
  /\ BestProviderVRAM(p) >= j.min_vram_mb
  /\ BestProviderPowerW(p) >= j.min_power_w

Qualifies(j, g) == g.vram >= j.min_vram_mb /\ PowerOf(g) >= j.min_power_w

(* Mutant of SelectBillingGPU: the first GPU, whatever the floors.         *)
SelectFirstGPU(j, p) == p.gpus[1]

(* selectBillingGPU: a pass over the GPUs that keeps the position of the   *)
(* best one so far, 0 for none; the first GPU when none qualifies.         *)
SelectBillingGPU(j, p) ==
  LET keep(best, k) ==
        IF Qualifies(j, p.gpus[k])
           /\ (best = 0 \/ p.gpus[k].vram > p.gpus[best].vram)
        THEN k ELSE best
      best == FoldLeft(keep, 0, [k \in 1 .. Len(p.gpus) |-> k])
  IN p.gpus[IF best = 0 THEN 1 ELSE best]

(* The arguments of the session request, with the defaults of scheduleJob. *)
BillFor(j, p) ==
  LET g == SelectBillingGPU(j, p)
  IN [model |-> IF g.model # "" THEN g.model ELSE FindProviderGPUType(p),
      vram  |-> IF g.vram > 0 THEN g.vram ELSE 8192,
      power |-> PowerOf(g)]
-----------------------------------------------------------------------------
GPUsOf(p) == {p.gpus[k] : k \in 1 .. Len(p.gpus)}

(* What a job asks for, stated without a loop: an idle provider led by the *)
(* requested type, with enough GPUs, one of them large enough and one of   *)
(* them strong enough.                                                     *)
Fits(j, p) ==
  /\ p.idle
  /\ p.gpus # <<>> /\ j.gpu_type \in {"", p.gpus[1].model}
  /\ Len(p.gpus) >= j.gpu_count
  /\ \E g \in GPUsOf(p) : g.vram >= j.min_vram_mb
  /\ \E g \in GPUsOf(p) : PowerOf(g) >= j.min_power_w
=============================================================================
