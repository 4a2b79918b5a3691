------------------------------ MODULE MCStartup ------------------------------
(***************************************************************************)
(* The deployments Startup is checked on.                                  *)
(***************************************************************************)
EXTENDS Startup

\* Everything unset: the defaults.
Plain ==
  [workers |-> Unset, maxBatch |-> Unset, maxSeq |-> Unset, safety |-> Unset,
   memory |-> Unset, disableAuto |-> FALSE, tokenBudget |-> Unset,
   coefficients |-> Unset, ep |-> "cpu", vram |-> Unset, gpuCount |-> Unset,
   shapes |-> <<>>, guard |-> TRUE, guardSeq |-> Unset, warmupOnly |-> FALSE,
   strict |-> TRUE, probeCache |-> TRUE, tls |-> "none"]

\* The plans earlier grids may have left: none, one short in batches and one
\* short in lengths of this grid, which has a repeated shape, and a token that
\* is no shape.
OldPlans == {{}, {<<1, 2>>, <<2, 8>>}, {<<1, 2>>, <<4, 2>>}}
Grid == << <<1, 2>>, <<1, 8>>, <<4, 2>>, Unset, <<4, 8>>, <<2, 2>>, <<4, 8>> >>

TunedEnvironments ==
  {[Plain EXCEPT !.workers = w, !.maxSeq = q, !.safety = f, !.memory = m] :
     w \in {Unset, 0, 3, 4}, q \in {0, 16}, f \in {Unset, 0, 20}, m \in {Unset, 0, 100000}}

OverrideEnvironments ==
  {[Plain EXCEPT !.memory = m, !.disableAuto = d, !.tokenBudget = t,
                 !.coefficients = c, !.probeCache = p, !.tls = l] :
     m \in {Unset, 30000, 90000}, d \in BOOLEAN, t \in {Unset, 4},
     c \in {Unset, [a |-> -1, b |-> 2]}, p \in BOOLEAN, l \in {"both", "half"}}

GpuEnvironments ==
  {[Plain EXCEPT !.workers = w, !.ep = p, !.vram = 60000, !.gpuCount = g,
                 !.shapes = Grid, !.guardSeq = 0, !.maxBatch = 0,
                 !.warmupOnly = o, !.strict = s] :
     w \in {1, 2, 3, 5}, p \in {"cuda", "tensorrt"}, g \in {Unset, 0, 2},
     o \in BOOLEAN, s \in BOOLEAN}

Bare == [v2 |-> <<>>, v1 |-> Unset, ram |-> 262144, gpus |-> Unset,
         plan |-> {}, persists |-> TRUE]

MemoryHosts ==
  {[Bare EXCEPT !.v2 = <<Unset, 131072, 200000>>],
   [Bare EXCEPT !.v2 = <<Unset, Unset>>, !.v1 = 40000000],
   [Bare EXCEPT !.v1 = 49152],
   [Bare EXCEPT !.ram = Unset]}

GpuHosts ==
  {[Bare EXCEPT !.gpus = g, !.plan = p, !.persists = k] :
     g \in {0, 4}, p \in OldPlans, k \in BOOLEAN}
Pairs(envs, hosts) == {[env |-> e, host |-> h] : e \in envs, h \in hosts}

SmallDeployments ==
  Pairs(TunedEnvironments \cup OverrideEnvironments, MemoryHosts)
    \cup Pairs(GpuEnvironments, GpuHosts)

\* The defaults on TensorRT, on a machine with one device and an empty volume.
DefaultGpuDeployment ==
  Pairs({[Plain EXCEPT !.ep = "tensorrt"]}, {[Bare EXCEPT !.gpus = 1]})

SomeCoefficients == {[a |-> 8, b |-> 1], [a |-> 512, b |-> 4]}
=============================================================================
