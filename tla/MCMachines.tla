----------------------------- MODULE MCMachines -----------------------------
(***************************************************************************)
(* Four machines in one run.  The constants of the module itself are the   *)
(* first: three devices under one switch, in a distributed job.  The       *)
(* others are a machine with a credit-scheduled REDUCE queue and two       *)
(* tensors, one with two PCIe switches, and one whose tensors are on the   *)
(* CPU and compressed, which runs under fairness.  A behaviour stays on    *)
(* the machine it starts with.                                             *)
(***************************************************************************)
EXTENDS MCLocalPipeline

VARIABLE machine

Credits == INSTANCE LocalPipeline WITH
  LocalSize <- 2, SwitchSize <- 2, Distributed <- FALSE, Tensor <- {t1, t2}, KeyList <- TwoTensors,
  KeyLen <- [k \in {0, 10, 11} |-> 1], Priority <- (t1 :> 0) @@ (t2 :> 1), Compressed <- {}, GroupSize <- 2,
  Credit <- 2, InPlace <- TRUE, OnCpu <- FALSE, MaxRound <- 2

Pcie == INSTANCE LocalPipeline WITH
  LocalSize <- 4, SwitchSize <- 2, Distributed <- FALSE, Tensor <- {t1}, KeyList <- OnePart,
  KeyLen <- [k \in {0} |-> 1], Priority <- t1 :> 0, Compressed <- {}, GroupSize <- 2,
  Credit <- 0, InPlace <- FALSE, OnCpu <- FALSE, MaxRound <- 1

Compressing == INSTANCE LocalPipeline WITH
  LocalSize <- 2, SwitchSize <- 2, Distributed <- TRUE, Tensor <- {t1}, KeyList <- TwoParts,
  KeyLen <- [k \in {0, 1} |-> 1], Priority <- t1 :> 0, Compressed <- {t1}, GroupSize <- 2,
  Credit <- 0, InPlace <- TRUE, OnCpu <- TRUE, MaxRound <- 2

allvars == <<machine, vars>>

MachinesInit ==
  \/ machine = "distributed" /\ Init
  \/ machine = "credits"     /\ Credits!Init
  \/ machine = "pcie"        /\ Pcie!Init
  \/ machine = "compressing" /\ Compressing!Init

MachinesNext ==
  /\ UNCHANGED machine
  /\ \/ machine = "distributed" /\ Next
     \/ machine = "credits"     /\ Credits!Next
     \/ machine = "pcie"        /\ Pcie!Next
     \/ machine = "compressing" /\ Compressing!Next

\* On the last machine every loop keeps running, the GPUs and ps-lite answer, and
\* every process goes on to its next push_pull.
On == machine = "compressing" /\ UNCHANGED machine

Fairness ==
  /\ \A d \in Compressing!Device :
       /\ WF_allvars(On /\ Compressing!InitTensor(d, t1))
       /\ WF_allvars(On /\ Compressing!EnqueueTensor(d, t1))
       /\ WF_allvars(On /\ Compressing!GradientReady(d, t1))
       /\ \A op \in CoordinateOp : /\ WF_allvars(On /\ Compressing!Coordinate(d, op))
                                   /\ WF_allvars(On /\ Compressing!SendCoordinate(d, op))
       /\ \A c \in Comm : WF_allvars(On /\ Compressing!Listen(d, c))
       /\ WF_allvars(On /\ Compressing!NcclStep(d))
       /\ WF_allvars(On /\ Compressing!SyncNccl(d))
       /\ WF_allvars(On /\ Compressing!CopyDevice2Host(d))
       /\ WF_allvars(On /\ Compressing!NonRootCopyListen(d))
       /\ WF_allvars(On /\ Compressing!NonRootCopyHost2Device(d))
  /\ WF_allvars(On /\ Compressing!RunCollectives(0))
  /\ \A op \in {"COMPRESS", "DECOMPRESS"} : WF_allvars(On /\ Compressing!SpawnJob(op))
  /\ WF_allvars(On /\ Compressing!CompressJob)
  /\ WF_allvars(On /\ Compressing!DecompressJob)
  /\ WF_allvars(On /\ Compressing!Push)
  /\ WF_allvars(On /\ Compressing!PushDone)
  /\ WF_allvars(On /\ Compressing!Pull)
  /\ WF_allvars(On /\ Compressing!PullDone)
  /\ WF_allvars(On /\ Compressing!RootCopyHost2Device)

MachinesSpec == MachinesInit /\ [][MachinesNext]_allvars /\ Fairness

\* ChecksHold of LocalPipeline, the BPS_CHECKs on another device's signal, and on the
\* machine with credits its TypeOK.
MachineChecks ==
  /\ machine = "credits"     => Credits!TypeOK
  /\ machine = "distributed" => ChecksHold
  /\ machine = "pcie"        => Pcie!ChecksHold
  /\ machine = "compressing" => Compressing!ChecksHold

\* NcclCallsMatch of LocalPipeline: the devices of a switch launch the same groups.
MachineCallsMatch == machine = "distributed" => NcclCallsMatch

\* ResultIsSum of LocalPipeline: what the callback hands over is the sum of the
\* round, on a machine with one switch, with two (one round), and with a compressor;
\* InputNotModified: push_pull into another tensor keeps its input.
MachineResultIsSum ==
  /\ machine = "distributed" => ResultIsSum /\ InputNotModified
  /\ machine = "credits"     => Credits!ResultIsSum
  /\ machine = "pcie"        => Pcie!ResultIsSum /\ Pcie!InputNotModified
  /\ machine = "compressing" => Compressing!ResultIsSum

\* CreditsConserved of LocalPipeline: credits and bytes under way make up the budget.
MachineCredits == machine = "credits" => Credits!CreditsConserved

\* PriorityFirst of LocalPipeline: what stands before a chosen partition has to wait.
MachinePriority ==
  [][machine = "credits" =>
       \A d \in Credits!Device, k \in Credits!Key : Credits!StartsToReduce(d, k) => Credits!MustWait(d, k)]_allvars

\* CallbackRuns of LocalPipeline: every enqueued push_pull calls back.
MachineCallbacks ==
  \A d \in Compressing!Device :
    (machine = "compressing" /\ active[d][t1]) ~> ~active[d][t1]

\* ImplementsPushPull of LocalPipeline, step by step: the devices of the first
\* machine pass through the barrier of PushPull.
MachineBarrier ==
  [][machine = "distributed" => Barrier!ANext \/ UNCHANGED Barrier!avars]_allvars
=============================================================================
