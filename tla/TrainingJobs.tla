---------------------------- MODULE TrainingJobs ----------------------------
(***************************************************************************)
(* Three programs of src/example that survive their job: each saves        *)
(* checkpoints, and a job that was killed is started again and resumes.    *)
(*   resnet50  train_imagenet_resnet50_byteps.py: rank 0 saves a file per  *)
(*             epoch; every process looks for the newest, rank 0 loads it  *)
(*             and broadcasts;                                             *)
(*   ddp       train_imagenet_resnet_byteps_ddp.py, every GPU with its     *)
(*             process: the first process of a node overwrites one file;   *)
(*             every process loads it after the broadcast that             *)
(*             DistributedDataParallel makes;                              *)
(*   fit       fit_byteps.py: every process saves a file of its own per    *)
(*             epoch; the user names the epoch to resume from, and rank 0  *)
(*             broadcasts.                                                 *)
(* Processes share a disk or have their own.  A file that is being written *)
(* is torn, and stays so if the job is killed.  An epoch has one batch.    *)
(* The copy of the best model, which nothing reads, is left out.           *)
(***************************************************************************)
EXTENDS Collective, TLC

CONSTANTS
  Root,         \* the process with rank 0
  Epochs,       \* args.epochs
  WarmupEpochs, \* args.warmup_epochs of resnet50
  Milestones,   \* the epochs that reduce the rate: 30, 60, 80, or args.lr_step_epochs
  Period,       \* the 30 epochs of ddp
  BaseRate,     \* args.base_lr, a multiple of WarmupEpochs
  MaxKills,     \* bound: how often the job is killed
  Scripts       \* [program, sched, decay, disk, local_rank]

VARIABLES
  script,     \* program; sched: what lr_step_epochs asks of fit; decay: args.wd of resnet50 is not 0;
              \* disk[w], local_rank[w]
  pc,         \* pc[w]: where process w is
  epoch,      \* epoch[w]: the epoch it is at; at the start of fit: args.load_epoch
  weight,     \* weight[w]: the parameters
  momentum,   \* momentum[w]: the state of the optimizer
  lr,         \* lr[w]: [base, tenths, poly], base / 10^tenths and how far a polynomial has decayed
  scheduler,  \* scheduler[w] of fit: [tenths, steps, poly, begin]
  sent,       \* the push_pulls by name
  checkpoint, \* checkpoint[d]: file -> content, on disk d
  kills       \* how often the job was killed

vars  == <<script, pc, epoch, weight, momentum, lr, scheduler, sent, checkpoint, kills>>
model == <<weight, momentum>>

Torn       == [epoch |-> 0, weight |-> <<"torn">>]
Dir        == <<"directory of model_prefix">>
Latest     == <<"checkpoint.pth.tar">>
OfEpoch(e) == <<"epoch", e>>
Params(w, e) == <<"params", w, e>>
Symbol(w)  == <<"symbol", w>>

Disk(w)     == checkpoint[script.disk[w]]
Exists(w, f) == f \in DOMAIN Disk(w)
Write(w, files) == [checkpoint EXCEPT ![script.disk[w]] = files @@ @]
Readable(w, f) == Exists(w, f) /\ Disk(w)[f] # Torn

Each(x)    == [w \in Worker |-> x]
OwnWeights == [w \in Worker |-> Once(<<"initial", w>>)]
Names      == {"parameters", "optimizer", "gradient"}
NoRate     == [base |-> 0, tenths |-> 0, poly |-> 0]
NoSchedule == [tenths |-> 0, steps |-> {}, poly |-> FALSE, begin |-> 0]

Init ==
  /\ script \in Scripts
  /\ pc         = Each("start")
  /\ epoch      = Each(0)
  /\ weight     = OwnWeights
  /\ momentum   = Each(Zero)
  /\ lr         = Each(NoRate)
  /\ scheduler  = Each(NoSchedule)
  /\ sent       = Each([n \in Names |-> <<>>])
  /\ checkpoint = [d \in {script.disk[w] : w \in Worker} |-> <<>>]
  /\ kills      = 0

Goto(w, place) == pc' = [pc EXCEPT ![w] = place]

\* load_state_dict of the model and of the optimizer.
Restore(w, content) ==
  /\ weight'   = [weight EXCEPT ![w] = content.weight]
  /\ momentum' = [momentum EXCEPT ![w] = content.momentum]

Fail(w) == Goto(w, "failed") /\ UNCHANGED <<script, epoch, model, lr, scheduler, sent, checkpoint, kills>>

-----------------------------------------------------------------------------
(* resnet50: the newest checkpoint that the process finds *)

\* Mutant: the search goes upwards, and ends at the oldest checkpoint.
ResumeFromEpochOldest(w) ==
  LET found == {e \in 1..Epochs : Exists(w, OfEpoch(e))}
  IN  IF found = {} THEN 0 ELSE CHOOSE e \in found : \A f \in found : e <= f

ResumeFromEpoch(w) ==
  LET found == {e \in 1..Epochs : Exists(w, OfEpoch(e))}
  IN  IF found = {} THEN 0 ELSE CHOOSE e \in found : \A f \in found : f <= e

\* Only rank 0 loads it; the broadcast of resume_from_epoch is commented out.
StartResnet50(w) ==
  /\ script.program = "resnet50" /\ pc[w] = "start"
  /\ LET from == ResumeFromEpoch(w)
         file == OfEpoch(from)
     IN  IF from = 0 \/ w # Root
         THEN /\ epoch' = [epoch EXCEPT ![w] = from]
              /\ Goto(w, "broadcast")
              /\ UNCHANGED <<script, model, lr, scheduler, sent, checkpoint, kills>>
         ELSE IF ~Readable(w, file) THEN Fail(w)
         ELSE /\ epoch' = [epoch EXCEPT ![w] = from]
              /\ Restore(w, Disk(w)[file])
              /\ Goto(w, "broadcast")
              /\ UNCHANGED <<script, lr, scheduler, sent, checkpoint, kills>>

-----------------------------------------------------------------------------
(* ddp: the broadcast comes first, then every process loads the file *)

StartDDP(w) ==
  /\ script.program = "ddp" /\ pc[w] = "start"
  /\ Goto(w, "broadcast")
  /\ UNCHANGED <<script, epoch, model, lr, scheduler, sent, checkpoint, kills>>

LoadDDP(w) ==
  /\ script.program = "ddp" /\ pc[w] = "load"
  /\ IF ~Exists(w, Latest)
     THEN /\ Goto(w, "epoch")
          /\ UNCHANGED <<script, epoch, model, lr, scheduler, sent, checkpoint, kills>>
     ELSE IF ~Readable(w, Latest) THEN Fail(w)
     ELSE /\ epoch' = [epoch EXCEPT ![w] = Disk(w)[Latest].epoch]
          /\ Restore(w, Disk(w)[Latest])
          /\ Goto(w, "epoch")
          /\ UNCHANGED <<script, lr, scheduler, sent, checkpoint, kills>>

-----------------------------------------------------------------------------
(* fit: the epoch that the user names *)

\* A rank above 0 has a prefix of its own once it has saved a model.
ModelPrefix(w) == IF w # Root /\ Exists(w, Symbol(w)) THEN w ELSE Root

\* _load_model; no state of the optimizer is saved.
StartFit(w) ==
  /\ script.program = "fit" /\ pc[w] = "start"
  /\ LET file == Params(ModelPrefix(w), epoch[w])
     IN  IF epoch[w] = 0
         THEN Goto(w, "isdir") /\ UNCHANGED <<script, epoch, model, lr, scheduler, sent, checkpoint, kills>>
         ELSE IF ~Readable(w, file) THEN Fail(w)
         ELSE /\ weight' = [weight EXCEPT ![w] = Disk(w)[file].weight]
              /\ Goto(w, "isdir")
              /\ UNCHANGED <<script, epoch, momentum, lr, scheduler, sent, checkpoint, kills>>

\* _save_model looks for the directory and then makes it.
IsDir(w) ==
  /\ pc[w] = "isdir"
  /\ Goto(w, IF Exists(w, Dir) THEN "schedule" ELSE "mkdir")
  /\ UNCHANGED <<script, epoch, model, lr, scheduler, sent, checkpoint, kills>>

\* Another process may have made it in between.
MkDir(w) ==
  /\ pc[w] = "mkdir"
  /\ IF Exists(w, Dir) THEN Fail(w)
     ELSE /\ checkpoint' = Write(w, Dir :> Zero)
          /\ Goto(w, "schedule")
          /\ UNCHANGED <<script, epoch, model, lr, scheduler, sent, kills>>

\* _get_lr_scheduler: the reductions of the epochs before begin are in the rate, the
\* others come at updates counted from begin.  An epoch has one update here.
GetLrScheduler(begin) ==
  CASE script.sched = "none" -> NoSchedule
    [] script.sched = "pow"  -> [NoSchedule EXCEPT !.poly = TRUE, !.begin = begin]
    [] script.sched = "step" ->
         [tenths |-> Cardinality({s \in Milestones : begin >= s}),
          steps  |-> {s - begin : s \in {x \in Milestones : x - begin > 0}},
          poly   |-> FALSE,
          begin  |-> begin]

\* MultiFactorScheduler refuses an empty list of steps.
Accepted(s) == script.sched = "step" => s.steps # {}

Schedule(w) ==
  /\ pc[w] = "schedule"
  /\ LET s == GetLrScheduler(epoch[w])
     IN  IF ~Accepted(s) THEN Fail(w)
         ELSE /\ scheduler' = [scheduler EXCEPT ![w] = s]
              /\ Goto(w, "broadcast")
              /\ UNCHANGED <<script, epoch, model, lr, sent, checkpoint, kills>>

-----------------------------------------------------------------------------
(* The broadcast from rank 0: pushes of zero from everybody else *)

Pushed(w, tensor) == IF w = Root THEN tensor ELSE Zero

Broadcast(w) ==
  /\ pc[w] = "broadcast"
  /\ sent' = Push(sent, w, "parameters", Pushed(w, weight[w]))
  /\ Goto(w, "broadcasting")
  /\ UNCHANGED <<script, epoch, model, lr, scheduler, checkpoint, kills>>

Decay == <<"decay", 0>>

\* broadcast_optimizer_state: a process whose optimizer has no state yet makes one by a
\* step with zero gradients, which moves what it steps only if the optimizer decays weights.
StateMade(w, content) ==
  IF script.decay /\ momentum[w] = Zero THEN content (+) Once(Decay) ELSE content

\* The optimizer state is broadcast by resnet50 only.
Broadcasted(w) ==
  /\ pc[w] = "broadcasting" /\ Finished(sent, "parameters", 1)
  /\ IF script.program = "resnet50"
     THEN /\ weight'   = [weight EXCEPT ![w] = StateMade(w, Summed(sent, "parameters", 1))]
          /\ momentum' = [momentum EXCEPT ![w] = Pushed(w, StateMade(w, @))]
          /\ sent'     = Push(sent, w, "optimizer", momentum'[w])
          /\ Goto(w, "optimizer")
     ELSE /\ weight' = [weight EXCEPT ![w] = Summed(sent, "parameters", 1)]
          /\ Goto(w, IF script.program = "ddp" THEN "load" ELSE "epoch")
          /\ UNCHANGED <<momentum, sent>>
  /\ UNCHANGED <<script, epoch, lr, scheduler, checkpoint, kills>>

OptimizerBroadcasted(w) ==
  /\ pc[w] = "optimizer" /\ Finished(sent, "optimizer", 1)
  /\ momentum' = [momentum EXCEPT ![w] = Summed(sent, "optimizer", 1)]
  /\ Goto(w, "epoch")
  /\ UNCHANGED <<script, epoch, weight, lr, scheduler, sent, checkpoint, kills>>

-----------------------------------------------------------------------------
(* The epochs *)

\* adjust_learning_rate of resnet50, in its only batch.
RateResnet50(e) ==
  IF e < WarmupEpochs
  THEN [NoRate EXCEPT !.base = (BaseRate * (e + 1) * (Size - 1)) \div WarmupEpochs + BaseRate]
  ELSE [NoRate EXCEPT !.base = BaseRate * Size, !.tenths = Cardinality({s \in Milestones : ~(e < s)})]

\* adjust_learning_rate of ddp.
RateDDP(e) == [NoRate EXCEPT !.base = BaseRate, !.tenths = e \div Period]

\* The scheduler is asked with the number of the update, from 1 on after every start.
RateFit(s, e) ==
  LET update == e - s.begin + 1
  IN  [base   |-> BaseRate,
       tenths |-> s.tenths + Cardinality({x \in s.steps : update > x}),
       poly   |-> IF s.poly THEN update ELSE 0]

Rate(w) ==
  CASE script.program = "resnet50" -> RateResnet50(epoch[w])
    [] script.program = "ddp"      -> RateDDP(epoch[w])
    [] script.program = "fit"      -> RateFit(scheduler[w], epoch[w])

\* train(): the gradients of the epoch.
Train(w) ==
  /\ pc[w] = "epoch" /\ epoch[w] < Epochs
  /\ lr'   = [lr EXCEPT ![w] = Rate(w)]
  /\ sent' = Push(sent, w, "gradient", Once(<<w, epoch[w]>>))
  /\ Goto(w, "train")
  /\ UNCHANGED <<script, epoch, model, scheduler, checkpoint, kills>>

Saves(w) ==
  CASE script.program = "resnet50" -> w = Root
    [] script.program = "ddp"      -> script.local_rank[w] = 0
    [] script.program = "fit"      -> TRUE

\* optimizer.step(), the last of the epoch.
Step(w) ==
  /\ pc[w] = "train" /\ Finished(sent, "gradient", LastCall(sent, w, "gradient"))
  /\ LET average == Averaged(sent, "gradient", LastCall(sent, w, "gradient"))
     IN  /\ weight'   = [weight EXCEPT ![w] = @ (+) average]
         /\ momentum' = [momentum EXCEPT ![w] = @ (+) average]
  /\ epoch' = [epoch EXCEPT ![w] = @ + 1]
  /\ Goto(w, IF Saves(w) THEN "save" ELSE "epoch")
  /\ UNCHANGED <<script, lr, scheduler, sent, checkpoint, kills>>

File(w) ==
  CASE script.program = "resnet50" -> OfEpoch(epoch[w])
    [] script.program = "ddp"      -> Latest
    [] script.program = "fit"      -> Params(w, epoch[w])

\* save_checkpoint opens the file; do_checkpoint of MXNet has saved the symbol before.
OpenFile(w) ==
  /\ pc[w] = "save"
  /\ checkpoint' = Write(w, (File(w) :> Torn) @@ IF script.program = "fit" THEN Symbol(w) :> Zero ELSE <<>>)
  /\ Goto(w, "saving")
  /\ UNCHANGED <<script, epoch, model, lr, scheduler, sent, kills>>

\* epoch has been counted up: the file holds the number of the next epoch.
WriteFile(w) ==
  /\ pc[w] = "saving"
  /\ checkpoint' = Write(w, File(w) :> [epoch |-> epoch[w], weight |-> weight[w], momentum |-> momentum[w]])
  /\ Goto(w, "epoch")
  /\ UNCHANGED <<script, epoch, model, lr, scheduler, sent, kills>>

Finish(w) ==
  /\ pc[w] = "epoch" /\ epoch[w] = Epochs
  /\ Goto(w, "done")
  /\ UNCHANGED <<script, epoch, model, lr, scheduler, sent, checkpoint, kills>>

-----------------------------------------------------------------------------
\* The user of fit names an epoch that rank 0 has saved, or none.
LoadEpochs ==
  IF script.program # "fit" THEN {0}
  ELSE {0} \cup {e \in 1..(Epochs - 1) : Readable(Root, Params(Root, e))}

\* The job is killed and started again; what is left are the disks.
Kill ==
  /\ kills < MaxKills /\ \E w \in Worker : pc[w] # "done"
  /\ \E e \in LoadEpochs : epoch' = Each(e)
  /\ pc'        = Each("start")
  /\ weight'    = OwnWeights
  /\ momentum'  = Each(Zero)
  /\ lr'        = Each(NoRate)
  /\ scheduler' = Each(NoSchedule)
  /\ sent'      = Each([n \in Names |-> <<>>])
  /\ kills'     = kills + 1
  /\ UNCHANGED <<script, checkpoint>>

\* When a process has failed or ended, the others may wait in vain for its push_pulls.
Terminated == (\E w \in Worker : pc[w] \in {"done", "failed"}) /\ UNCHANGED vars

Process(w) ==
  \/ StartResnet50(w) \/ StartDDP(w) \/ StartFit(w) \/ IsDir(w) \/ MkDir(w) \/ Schedule(w)
  \/ Broadcast(w) \/ Broadcasted(w) \/ OptimizerBroadcasted(w) \/ LoadDDP(w) \/ Train(w) \/ Step(w) \/ OpenFile(w) \/ WriteFile(w)
  \/ Finish(w)

Next == (\E w \in Worker : Process(w)) \/ Kill \/ Terminated

Spec == Init /\ [][Next]_vars

-----------------------------------------------------------------------------
(* Properties *)

\* The files that the processes read are the same.
OneDisk == \A w, u \in Worker : script.disk[w] = script.disk[u]

InRound(w, u) == pc[w] = "train" /\ pc[u] = "train" /\ LastCall(sent, w, "gradient") = LastCall(sent, u, "gradient")

\* The parameters but for the weight decay of the step that makes the optimizer state.
Undecayed(content) == [c \in DOMAIN content \ {Decay} |-> content[c]]

\* Processes whose gradients are averaged train the same parameters, also after a kill at any
\* time: with disks of their own too where rank 0 broadcasts what it has loaded (resnet50, fit);
\* ddp, where everybody loads after the broadcast, only on one disk.  On one disk, or when
\* the user names the epoch, they are also in the same epoch, with the same rate and the
\* same optimizer state.  With weight decay resnet50 promises less once it has been killed:
\* rank 0 has loaded a state and the others make theirs by a step after the broadcast of the
\* parameters, which then agree only up to that decay.
\* train_imagenet_resnet50_byteps.py:145-155, train_imagenet_resnet_byteps_ddp.py:174-194,
\* fit_byteps.py:308-315, torch/__init__.py:317-333.
SameTraining ==
  \A w, u \in Worker : InRound(w, u) =>
    /\ (script.program # "ddp" \/ OneDisk) =>
         /\ Undecayed(weight[w]) = Undecayed(weight[u])
         /\ (~script.decay \/ kills = 0) => weight[w] = weight[u]
    /\ (script.program = "fit" \/ OneDisk) =>
         epoch[w] = epoch[u] /\ lr[w] = lr[u] /\ momentum[w] = momentum[u]

\* A resumed job trains every epoch once: in the parameters that are trained in epoch e are
\* the averages of all epochs before e and of no other, however often the job was killed,
\* also while a file was being written; and unless the user names the epoch, none that has
\* been saved is trained again.
EpochsOnce ==
  (script.program = "fit" \/ OneDisk) =>
    \A w \in Worker : pc[w] = "train" =>
      /\ \A u \in Worker, e \in 0..Epochs :
           CopiesIn(<<u, e>>, weight[w]) = IF e < epoch[w] THEN Scale \div Size ELSE 0
      /\ (script.program # "fit" /\ ~Finished(sent, "gradient", LastCall(sent, w, "gradient")))
           => \A f \in DOMAIN Disk(w) : Disk(w)[f].epoch <= epoch[w]

\* The rate follows the documented schedule across kills: resnet50 climbs to base_lr * size
\* at the end of the warm-up, and then loses a factor of 10 at each of its milestones
\* (lines 219-222); ddp loses one every 30 epochs (line 403); fit at every epoch of
\* lr_step_epochs that has come, whether before or after the epoch it has resumed from.
RatesAsDocumented ==
  \A w \in Worker : pc[w] = "train" =>
    LET passed == Cardinality({s \in Milestones : s <= epoch[w]})
        rate   == lr[w]
    IN  CASE script.program = "resnet50" ->
               /\ BaseRate < rate.base /\ rate.base <= BaseRate * Size
               /\ (rate.base = BaseRate * Size) <=> (epoch[w] >= WarmupEpochs - 1)
               /\ rate.tenths = IF epoch[w] < WarmupEpochs THEN 0 ELSE passed
          [] script.program = "ddp" -> Period * rate.tenths <= epoch[w] /\ epoch[w] < Period * (rate.tenths + 1)
          [] script.program = "fit" -> script.sched = "step" => rate.tenths = passed
=============================================================================
