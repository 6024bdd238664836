--------------------------- MODULE KerasTraining ---------------------------
(***************************************************************************)
(* The Keras plugin, src/byteps/_keras with its faces byteps.keras and     *)
(* byteps.tensorflow.keras, under the program keras_imagenet_resnet50.py:  *)
(* rank 0 restores a checkpoint if there is one, the first batch ends with *)
(* a broadcast of the variables, callbacks set the learning rate, metrics  *)
(* are averaged after every epoch, and rank 0 saves a checkpoint.  The job *)
(* may be killed and started again, also while a file is being written.    *)
(*                                                                         *)
(* A learning rate is an integer, a multiple of a small enough unit; a     *)
(* momentum is a fraction <<p, q>> of the one that the optimizer is made   *)
(* with.  The content of the variables counts each gradient as often as    *)
(* the learning rate says; the velocity of the optimizer is left out.      *)
(***************************************************************************)
EXTENDS Collective, SequencesExt

CONSTANTS
  Root,       \* root_rank, the process with the checkpoints
  Epochs,     \* the number of epochs
  WarmupEpochs, \* args.warmup_epochs
  Batches,    \* the batches that Keras trains in an epoch
  BaseRate,   \* args.base_lr * size()
  MaxKills,   \* bound: how often the job is killed
  Scripts     \* [correction, given, graph, aggregates: BOOLEAN, params, logs]

VARIABLES
  script,       \* correction: the callbacks correct the momentum; given: initial_lr is
                \* passed to them; graph: not executing eagerly;
                \* aggregates: fit() has the optimizer aggregate the gradients; params: what
                \* Keras tells the callbacks; logs[w]: the metrics in the order of the dict
  pc,           \* pc[w]: where process w is
  epoch, batch, \* epoch[w], batch[w]: the batch it is at
  lr, momentum, \* the variables of its optimizer
  weight,       \* weight[w]: the other variables
  cb,           \* cb[w][i]: [initial_lr, restore] of its i-th schedule callback
  broadcasted,  \* broadcast_done
  logs,         \* logs[w]: metric -> its value after the last epoch
  sent,         \* the push_pulls by name
  checkpoint,   \* the files of Root: epoch -> [lr, weight], or Torn
  kills         \* how often the job was killed

vars == <<script, pc, epoch, batch, lr, momentum, weight, cb, broadcasted, logs, sent, checkpoint, kills>>

position == <<epoch, batch>>
rates    == <<lr, momentum, cb>>

Unset      == 0
NoMomentum == <<>>
Initial(w) == <<"initial", w>>
Torn       == [lr |-> 0, weight |-> <<"torn">>]
Names      == {"resume", "gradient", "broadcast", "metric", "score"}

\* The constructors of the schedule callbacks; a constant multiplier is a fraction.
LearningRateScheduleCallback(multiplier, start, end) ==
  [staircase |-> TRUE, multiplier |-> multiplier, start |-> start, end |-> end, correction |-> script.correction]

LearningRateWarmupCallback(warmup) ==
  [staircase |-> FALSE, multiplier |-> <<1, 1>>, start |-> 0, end |-> warmup, correction |-> script.correction]

\* The schedule callbacks of the script, the last without end_epoch; two of its four
\* stages are left out.
CallbackList ==
  <<LearningRateWarmupCallback(WarmupEpochs),
    LearningRateScheduleCallback(<<1, 1>>, WarmupEpochs, WarmupEpochs + 1),
    LearningRateScheduleCallback(<<1, 2>>, WarmupEpochs + 1, Epochs)>>

Callbacks == DOMAIN CallbackList

\* The state of a process that has just been started.
Each(x)      == [w \in Worker |-> x]
OwnWeights   == [w \in Worker |-> Once(Initial(w))]
NewCallbacks == [i \in Callbacks |-> [initial_lr |-> IF script.given THEN BaseRate ELSE Unset, restore |-> NoMomentum]]

Init ==
  /\ script \in Scripts
  /\ pc          = Each("resume")
  /\ epoch       = Each(0)
  /\ batch       = Each(0)
  /\ lr          = Each(BaseRate)
  /\ momentum    = Each(<<1, 1>>)
  /\ weight      = OwnWeights
  /\ cb          = Each(NewCallbacks)
  /\ broadcasted = Each(FALSE)
  /\ logs        = Each(<<>>)
  /\ sent        = Each([n \in Names |-> <<>>])
  /\ checkpoint  = <<>>
  /\ kills       = 0

-----------------------------------------------------------------------------
(* Start and resumption *)

AsTensor(n) == IF n = 0 THEN Zero ELSE [c \in {"epoch"} |-> n]

\* The search for the newest file finds one that is being written, too.
ResumeFromEpoch == IF DOMAIN checkpoint = {} THEN 0 ELSE CHOOSE e \in DOMAIN checkpoint : \A f \in DOMAIN checkpoint : f <= e

\* broadcast(resume_from_epoch): only Root has checkpoints, the others push zero.
Resume(w) ==
  /\ pc[w] = "resume"
  /\ sent' = Push(sent, w, "resume", AsTensor(IF w = Root THEN ResumeFromEpoch ELSE 0))
  /\ pc'   = [pc EXCEPT ![w] = "resuming"]
  /\ UNCHANGED <<script, position, rates, weight, broadcasted, logs, checkpoint, kills>>

\* load_model wraps the optimizer of the saved model, with its state.
LoadModel(from) == checkpoint[from]
NewModel(w) == [lr |-> lr[w], weight |-> weight[w]]

\* The result is the first epoch; Root loads the model and its optimizer, or fails.
Resumed(w) ==
  /\ pc[w] = "resuming" /\ Finished(sent, "resume", 1)
  /\ LET from  == CopiesIn("epoch", Summed(sent, "resume", 1))
         loads == from > 0 /\ w = Root
         fails == loads /\ LoadModel(from) = Torn
         model == IF loads /\ ~fails THEN LoadModel(from) ELSE NewModel(w)
     IN  /\ epoch'  = [epoch EXCEPT ![w] = from]
         /\ lr'     = [lr EXCEPT ![w] = model.lr]
         /\ weight' = [weight EXCEPT ![w] = model.weight]
         /\ pc'     = [pc EXCEPT ![w] = IF fails THEN "failed" ELSE "train_begin"]
  /\ UNCHANGED <<script, batch, momentum, cb, broadcasted, logs, sent, checkpoint, kills>>

\* _autodetect_steps_per_epoch raises a ValueError where Keras tells neither number.
Detected == script.params.steps > 0 \/ (script.params.samples > 0 /\ script.params.batch_size > 0)

\* on_train_begin of the schedule callbacks.
TrainBegin(w) ==
  /\ pc[w] = "train_begin"
  /\ cb' = [cb EXCEPT ![w] = [i \in Callbacks |->
              [@[i] EXCEPT !.initial_lr = IF @ = Unset THEN lr[w] ELSE @]]]
  /\ pc' = [pc EXCEPT ![w] = IF ~Detected THEN "failed" ELSE IF epoch[w] < Epochs THEN "batch_begin" ELSE "evaluate"]
  /\ UNCHANGED <<script, position, lr, momentum, weight, broadcasted, logs, sent, checkpoint, kills>>

-----------------------------------------------------------------------------
(* The learning rate schedule *)

\* What _autodetect_steps_per_epoch returns.
StepsPerEpoch ==
  IF script.params.steps > 0 THEN script.params.steps
  ELSE script.params.samples \div script.params.batch_size

\* initial_lr * multiplier(epoch) of LearningRateWarmupCallback, the batch as a fraction
\* of the epoch.
Warmup(initial, e, b, warmup) ==
  (initial * ((e * StepsPerEpoch + b + 1) * (Size - 1) + warmup * StepsPerEpoch)) \div (Size * warmup * StepsPerEpoch)

NewRate(c, initial, e, b) ==
  IF c.staircase THEN (initial * c.multiplier[1]) \div c.multiplier[2]
  ELSE Warmup(initial, e, b, c.end)

\* Mutant: a callback still adjusts in its end_epoch.
InScopeThroughEnd(c, e) == c.start <= e /\ e <= c.end

InScope(c, e) == c.start <= e /\ e < c.end

Adjusts(c, e, b) == InScope(c, e) /\ (c.staircase => b = 0)

\* _adjust_learning_rate; s holds the variables of the optimizer and the callbacks.
Adjust(s, i, e, b) ==
  LET c   == CallbackList[i]
      new == NewRate(c, s.cb[i].initial_lr, e, b)
  IN  IF ~Adjusts(c, e, b) THEN s
      ELSE IF ~c.correction THEN [s EXCEPT !.lr = new]
      ELSE [lr       |-> new,
            momentum |-> <<s.momentum[1] * new, s.momentum[2] * s.lr>>,
            cb       |-> [s.cb EXCEPT ![i].restore = s.momentum]]

\* _restore_momentum_if_needed
Restore(s, i) ==
  IF s.cb[i].restore = NoMomentum THEN s
  ELSE [s EXCEPT !.momentum = s.cb[i].restore, !.cb[i].restore = NoMomentum]

Order   == [i \in Callbacks |-> i]
Rates(w) == [lr |-> lr[w], momentum |-> momentum[w], cb |-> cb[w]]

SetRates(w, s) ==
  /\ lr'       = [lr EXCEPT ![w] = s.lr]
  /\ momentum' = [momentum EXCEPT ![w] = s.momentum]
  /\ cb'       = [cb EXCEPT ![w] = s.cb]

\* on_batch_begin of all callbacks, and the gradients of the batch.
BatchBegin(w) ==
  /\ pc[w] = "batch_begin" /\ script.aggregates
  /\ SetRates(w, FoldLeft(LAMBDA s, i : Adjust(s, i, epoch[w], batch[w]), Rates(w), Order))
  /\ sent' = Push(sent, w, "gradient", Once(<<w, epoch[w], batch[w]>>))
  /\ pc'   = [pc EXCEPT ![w] = "gradient"]
  /\ UNCHANGED <<script, position, weight, broadcasted, logs, checkpoint, kills>>

\* apply_gradients() raises where the gradients were not aggregated.
NotAggregated(w) ==
  /\ pc[w] = "batch_begin" /\ ~script.aggregates
  /\ pc' = [pc EXCEPT ![w] = "failed"]
  /\ UNCHANGED <<script, position, rates, weight, broadcasted, logs, sent, checkpoint, kills>>

Times(t, n) == [c \in DOMAIN t |-> t[c] * n]

\* The averages are applied.
Apply(w) ==
  /\ pc[w] = "gradient" /\ Finished(sent, "gradient", LastCall(sent, w, "gradient"))
  /\ weight' = [weight EXCEPT ![w] = @ (+) Times(Averaged(sent, "gradient", LastCall(sent, w, "gradient")), lr[w])]
  /\ pc'     = [pc EXCEPT ![w] = IF broadcasted[w] \/ Size <= 1 THEN "batch_end" ELSE "broadcast"]
  /\ UNCHANGED <<script, position, rates, broadcasted, logs, sent, checkpoint, kills>>

-----------------------------------------------------------------------------
(* BroadcastGlobalVariablesCallback, the first in the list *)

\* In a graph, the learning rate and the momentum are global variables too.
Broadcast(w) ==
  /\ pc[w] = "broadcast"
  /\ sent' = Push(sent, w, "broadcast",
       IF w = Root THEN [weight |-> weight[w], lr |-> lr[w], momentum |-> momentum[w]] ELSE Zero)
  /\ pc'   = [pc EXCEPT ![w] = "broadcasting"]
  /\ UNCHANGED <<script, position, rates, weight, broadcasted, logs, checkpoint, kills>>

Received(w) == sent[Root]["broadcast"][1].weight

Broadcasted(w) ==
  /\ pc[w] = "broadcasting" /\ Finished(sent, "broadcast", 1)
  /\ weight'   = [weight EXCEPT ![w] = Received(w)]
  /\ lr'       = [lr EXCEPT ![w] = IF script.graph THEN sent[Root]["broadcast"][1].lr ELSE @]
  /\ momentum' = [momentum EXCEPT ![w] = IF script.graph THEN sent[Root]["broadcast"][1].momentum ELSE @]
  /\ broadcasted' = [broadcasted EXCEPT ![w] = TRUE]
  /\ pc'       = [pc EXCEPT ![w] = "batch_end"]
  /\ UNCHANGED <<script, position, cb, logs, sent, checkpoint, kills>>

\* on_batch_end of the schedule callbacks.
BatchEnd(w) ==
  /\ pc[w] = "batch_end"
  /\ SetRates(w, FoldLeft(Restore, Rates(w), Order))
  /\ batch' = [batch EXCEPT ![w] = (@ + 1) % Batches]
  /\ pc'    = [pc EXCEPT ![w] = IF batch[w] + 1 = Batches THEN "epoch_end" ELSE "batch_begin"]
  /\ logs'  = [logs EXCEPT ![w] = <<>>]
  /\ UNCHANGED <<script, epoch, weight, broadcasted, sent, checkpoint, kills>>

-----------------------------------------------------------------------------
(* MetricAverageCallback and the checkpoint *)

\* sorted(logs.items()); a metric is a number here.
Metrics(w) == SortSeq(script.logs[w], <)

\* Every push_pull of a metric has a name of its own, random in eager mode, so that the
\* processes' calls meet by their order.
PushMetric(w) ==
  /\ pc[w] = "epoch_end" /\ Len(logs[w]) < Len(script.logs[w])
  /\ sent' = Push(sent, w, "metric", Once(<<w, Metrics(w)[Len(logs[w]) + 1]>>))
  /\ pc'   = [pc EXCEPT ![w] = "metric"]
  /\ UNCHANGED <<script, position, rates, weight, broadcasted, logs, checkpoint, kills>>

MetricReturns(w) ==
  /\ pc[w] = "metric" /\ Finished(sent, "metric", LastCall(sent, w, "metric"))
  /\ logs' = [logs EXCEPT ![w] = Append(@, Averaged(sent, "metric", LastCall(sent, w, "metric")))]
  /\ pc'   = [pc EXCEPT ![w] = "epoch_end"]
  /\ UNCHANGED <<script, position, rates, weight, broadcasted, sent, checkpoint, kills>>

\* The end of the epoch; the epochs before it have their files.
NextEpoch(w) ==
  /\ epoch' = [epoch EXCEPT ![w] = @ + 1]
  /\ pc'    = [pc EXCEPT ![w] = IF epoch[w] + 1 < Epochs THEN "batch_begin" ELSE "evaluate"]

EpochEnd(w) ==
  /\ pc[w] = "epoch_end" /\ Len(logs[w]) = Len(script.logs[w]) /\ w # Root
  /\ NextEpoch(w)
  /\ UNCHANGED <<script, batch, rates, weight, broadcasted, logs, sent, checkpoint, kills>>

File(w, content) == checkpoint' = [e \in DOMAIN checkpoint \cup {epoch[w] + 1} |-> IF e = epoch[w] + 1 THEN content ELSE checkpoint[e]]

\* ModelCheckpoint on Root opens the file of the epoch, and writes the model to it.
OpenFile(w) ==
  /\ pc[w] = "epoch_end" /\ Len(logs[w]) = Len(script.logs[w]) /\ w = Root
  /\ File(w, Torn)
  /\ pc' = [pc EXCEPT ![w] = "saving"]
  /\ UNCHANGED <<script, position, rates, weight, broadcasted, logs, sent, kills>>

WriteFile(w) ==
  /\ pc[w] = "saving"
  /\ File(w, [lr |-> lr[w], weight |-> weight[w]])
  /\ NextEpoch(w)
  /\ UNCHANGED <<script, batch, rates, weight, broadcasted, logs, sent, kills>>

\* push_pull of the score.
Evaluate(w) ==
  /\ pc[w] = "evaluate"
  /\ sent' = Push(sent, w, "score", Once(<<w, "score">>))
  /\ pc'   = [pc EXCEPT ![w] = "evaluating"]
  /\ UNCHANGED <<script, position, rates, weight, broadcasted, logs, checkpoint, kills>>

Evaluated(w) ==
  /\ pc[w] = "evaluating" /\ Finished(sent, "score", 1)
  /\ pc' = [pc EXCEPT ![w] = "done"]
  /\ UNCHANGED <<script, position, rates, weight, broadcasted, logs, sent, checkpoint, kills>>

-----------------------------------------------------------------------------
\* The job is killed and started again; the files are what is left.
Kill ==
  /\ kills < MaxKills /\ \E w \in Worker : pc[w] # "done"
  /\ UNCHANGED <<script, checkpoint>>
  /\ pc'          = Each("resume")
  /\ epoch'       = Each(0)
  /\ batch'       = Each(0)
  /\ lr'          = Each(BaseRate)
  /\ momentum'    = Each(<<1, 1>>)
  /\ weight'      = OwnWeights
  /\ cb'          = Each(NewCallbacks)
  /\ broadcasted' = Each(FALSE)
  /\ logs'        = Each(<<>>)
  /\ sent'        = Each([n \in Names |-> <<>>])
  /\ kills'       = kills + 1

\* A process that has failed leaves the others waiting for its push_pulls.
Terminated ==
  /\ (\A w \in Worker : pc[w] = "done") \/ (\E w \in Worker : pc[w] = "failed")
  /\ UNCHANGED vars

Process(w) ==
  \/ Resume(w) \/ Resumed(w) \/ TrainBegin(w) \/ BatchBegin(w) \/ NotAggregated(w) \/ Apply(w)
  \/ Broadcast(w) \/ Broadcasted(w) \/ BatchEnd(w) \/ PushMetric(w) \/ MetricReturns(w) \/ EpochEnd(w)
  \/ OpenFile(w) \/ WriteFile(w) \/ Evaluate(w) \/ Evaluated(w)

Next == (\E w \in Worker : Process(w)) \/ Kill \/ Terminated

Spec == Init /\ [][Next]_vars

-----------------------------------------------------------------------------
(* Properties *)

\* Two processes that have finished the same batch since the broadcast hold the same
\* variables, also after the job was killed and only Root had a checkpoint to restore:
\* their learning rates have been the same in every batch.
\* keras_imagenet_resnet50.py:102-103, _keras/callbacks.py:31-49.
SameVariables ==
  \A w, u \in Worker :
    (pc[w] = "batch_end" /\ pc[u] = "batch_end" /\ epoch[w] = epoch[u] /\ batch[w] = batch[u])
      => weight[w] = weight[u]

InBatch(w) == pc[w] \in {"gradient", "broadcast", "broadcasting", "batch_end"}

\* Is u's batch before w's?
Before(u, w) == epoch[u] < epoch[w] \/ (epoch[u] = epoch[w] /\ batch[u] < batch[w])

\* The learning rate in force in a batch.  Before end_epoch of the warm-up it never falls
\* below the rate of one process: a process that is a batch ahead trains with a larger
\* rate than one that is still in the batch before it, and each epoch ends with the rate
\* that the docstring's formula has for the end of the epoch, the last with the base rate
\* (keras/callbacks.py:110-119; "round numbers at the end of each epoch",
\* _keras/callbacks.py:180-183, for which the code runs one batch ahead of the formula).
\* From then on it is the base rate times the multiplier of the epoch.  A resumed job
\* takes up the schedule where the epoch it resumes from has it.
RateFollowsSchedule ==
  \A w \in Worker : InBatch(w) =>
    \A i \in Callbacks : LET c == CallbackList[i] IN
      c.start <= epoch[w] /\ epoch[w] < c.end =>
        IF c.staircase THEN lr[w] * c.multiplier[2] = BaseRate * c.multiplier[1]
        ELSE /\ BaseRate <= lr[w] * Size
             /\ \A u \in Worker : InBatch(u) /\ Before(u, w) => lr[u] < lr[w]
             /\ batch[w] = Batches - 1 =>
                  lr[w] * Size * c.end = BaseRate * ((epoch[w] + 1) * (Size - 1) + c.end)

\* Between two batches the momentum is the one the optimizer was made with: every
\* correction is undone, also that of the batch in which the broadcast brings the
\* corrected momentum of Root (_keras/callbacks.py:134-143).
MomentumRestored ==
  \A w \in Worker : pc[w] \in {"batch_begin", "epoch_end"} => momentum[w][1] = momentum[w][2]

\* The metrics of an epoch are the averages of the same metric of all processes, in
\* whatever order the dicts hold them (_keras/callbacks.py:66-87).
MetricsAveraged ==
  \A w \in Worker : \A k \in DOMAIN logs[w] :
    logs[w][k] = [c \in {<<u, k>> : u \in Worker} |-> Scale \div Size]
=============================================================================
