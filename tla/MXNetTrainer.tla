---------------------------- MODULE MXNetTrainer ----------------------------
(***************************************************************************)
(* The MXNet plugin, src/byteps/mxnet: DistributedTrainer (the gluon API), *)
(* or DistributedOptimizer after broadcast_parameters (the module API).    *)
(* With compression_params the trainer takes momentum and weight decay     *)
(* away from the optimizer and has them added elsewhere: by the compressor *)
(* of the C++ library where the tensor is large enough to be compressed,   *)
(* else by NagAdapter; for 1bit, weight decay by its own adapter.          *)
(*                                                                         *)
(* mu and wd are 1/2, the learning rate is 1 and an update is added.  What *)
(* a compressor loses is left out: the properties are about what is added. *)
(* The branch of DistributedOptimizer for BYTEPS_ENABLE_ASYNC is left out. *)
(***************************************************************************)
EXTENDS Collective

CONSTANTS
  NumParam,   \* the parameters are 1..NumParam
  Elements,   \* Elements[i]: the number of elements of parameter i
  Threshold,  \* BYTEPS_MIN_COMPRESS_BYTES
  Root,       \* root_rank
  Steps,      \* the training steps
  Scripts     \* [gluon, fp16, momentum, wd: BOOLEAN, compressor: {"none", "topk", "onebit"}]

VARIABLES
  script,    \* the API and the compression_params that every process uses
  pc,        \* pc[w]: where process w is
  step,      \* step[w]: the current training step
  todo,      \* todo[w]: the gradients whose push_pull is not over
  grad,      \* grad[w][i]: the gradient of parameter i
  weight,    \* weight[w][i]: its content
  mom,       \* mom[w][i]: the momentum of NagAdapter, of the C++ compressor or of the optimizer
  wdmom,     \* wdmom[w][i]: the momentum of WeightDecayMomentumAdapter
  sent       \* the push_pulls by name

vars == <<script, pc, step, todo, grad, weight, mom, wdmom, sent>>

Param == 1..NumParam
Half(t) == Divide(t, 2)
Initial(w, i) == <<w, i, 0>>

-----------------------------------------------------------------------------
(* Who adds momentum and weight decay *)

\* _register_compressor takes momentum, and for 1bit weight decay, from the optimizer.
Taken   == script.gluon /\ script.compressor # "none" /\ script.momentum
WdTaken == Taken /\ script.compressor = "onebit" /\ script.wd

\* The names of the attributes that it gives a parameter, in their parts.
Attributes ==
  IF ~script.gluon \/ script.compressor = "none" THEN {}
  ELSE {<<"byteps", "compressor", "type">>} \cup
       (IF script.momentum THEN {<<"byteps", "momentum", "type">>, <<"byteps", "momentum", "mu">>} ELSE {})

\* byteps_declare_tensor hands them to the C++ library, without their first part.
DeclareTensor == {Tail(a) : a \in Attributes}

\* The sizes that decide: 4 bytes per element in compression.py; in the C++ library,
\* the bytes of what is pushed.
PythonSize(i) == 4 * Elements[i]
PushedSize(i) == IF script.fp16 THEN 2 * Elements[i] ELSE 4 * Elements[i]


Nag(i)   == Taken /\ PythonSize(i) < Threshold
WdMom(i) == WdTaken /\ PythonSize(i) >= Threshold

\* InitTensor drops the compressor, and its momentum with it, of small tensors.
Compressed(i) == <<"compressor", "type">> \in DeclareTensor /\ PushedSize(i) >= Threshold
AddsMomentum(i) == Compressed(i) /\ <<"momentum", "type">> \in DeclareTensor

\* Nesterov momentum of a tensor: the momentum, and the tensor with it added.
NextMom(m, t) == Half(m (+) t)

\* __init__; the processes start with weights of their own.
Init ==
  /\ script \in Scripts
  /\ pc     = [w \in Worker |-> "init"]
  /\ step   = [w \in Worker |-> 1]
  /\ todo   = [w \in Worker |-> {}]
  /\ grad   = [w \in Worker |-> [i \in Param |-> Zero]]
  /\ weight = [w \in Worker |-> [i \in Param |-> Once(Initial(w, i))]]
  /\ mom    = [w \in Worker |-> [i \in Param |-> Zero]]
  /\ wdmom  = [w \in Worker |-> [i \in Param |-> Zero]]
  /\ sent   = [w \in Worker |-> [n \in {"parameter", "gradient"} \X Param |-> <<>>]]

PushAll(w, kind, t) ==
  sent' = [sent EXCEPT ![w] = [n \in DOMAIN @ |-> IF n[1] = kind THEN Append(@[n], t[n[2]]) ELSE @[n]]]

Zeroed(w, i) == IF w = Root THEN weight[w][i] ELSE Zero

BroadcastParameters(w) ==
  /\ pc[w] = "init"
  /\ pc'     = [pc EXCEPT ![w] = "initializing"]
  /\ weight' = [weight EXCEPT ![w] = [i \in Param |-> Zeroed(w, i)]]
  /\ PushAll(w, "parameter", weight'[w])
  /\ UNCHANGED <<script, step, todo, grad, mom, wdmom>>

\* The trainer's first step().
InitParams(w) == script.gluon /\ BroadcastParameters(w)

\* fit(): the program broadcasts the parameters before it gives them to the model.
Fit(w) == ~script.gluon /\ BroadcastParameters(w)

\* wait_to_read, or the engine before it reads a parameter.
ParamsReady(w) ==
  /\ pc[w] = "initializing"
  /\ \A i \in Param : Finished(sent, <<"parameter", i>>, 1)
  /\ pc'     = [pc EXCEPT ![w] = "backward"]
  /\ weight' = [weight EXCEPT ![w] = [i \in Param |-> Summed(sent, <<"parameter", i>>, 1)]]
  /\ UNCHANGED <<script, step, todo, grad, mom, wdmom, sent>>

\* What the C++ compressor pushes for a gradient: its momentum added.
Pushed(w, i, g) == IF AddsMomentum(i) THEN g (+) NextMom(mom[w][i], g) ELSE g

\* The gradients of the next batch.
Backward(w) == [i \in Param |-> Once(<<w, i, step[w]>>)]

\* The gradients are divided by the number of processes and pushed.
PushGradients(w) ==
  /\ pc[w] = "backward"
  /\ pc'   = [pc EXCEPT ![w] = "reduce"]
  /\ grad' = [grad EXCEPT ![w] = [i \in Param |-> Divide(Backward(w)[i], Size)]]
  /\ mom'  = [mom EXCEPT ![w] = [i \in Param |-> IF AddsMomentum(i) THEN NextMom(@[i], grad'[w][i]) ELSE @[i]]]
  /\ PushAll(w, "gradient", [i \in Param |-> Pushed(w, i, grad'[w][i])])
  /\ todo' = [todo EXCEPT ![w] = Param]
  /\ UNCHANGED <<script, step, weight, wdmom>>

\* step() of the trainer, and update() of DistributedOptimizer.
AllreduceGrads(w) == script.gluon /\ PushGradients(w)
DoPushPull(w)     == ~script.gluon /\ PushGradients(w)

\* WeightDecayMomentumAdapter.decompress.
Decayed(w, i, t) ==
  IF ~WdTaken THEN t
  ELSE t (+) Half(weight[w][i]) (+) (IF WdMom(i) THEN NextMom(wdmom[w][i], Half(weight[w][i])) ELSE Zero)

\* decompress() of the adapters, when the push_pull of a gradient is over.
Decompress(w, i) ==
  /\ pc[w] = "reduce" /\ i \in todo[w]
  /\ Finished(sent, <<"gradient", i>>, step[w])
  /\ todo'  = [todo EXCEPT ![w] = @ \ {i}]
  /\ LET t == Decayed(w, i, Summed(sent, <<"gradient", i>>, step[w]))
     IN  /\ mom'  = [mom EXCEPT ![w][i] = IF Nag(i) THEN NextMom(@, t) ELSE @]
         /\ grad' = [grad EXCEPT ![w][i] = IF Nag(i) THEN t (+) mom'[w][i] ELSE t]
  /\ wdmom' = [wdmom EXCEPT ![w][i] = IF WdMom(i) THEN NextMom(@, Half(weight[w][i])) ELSE @]
  /\ UNCHANGED <<script, pc, step, weight, sent>>

\* The update of the optimizer, with what _register_compressor has left it.
Update(w) ==
  /\ pc[w] = "reduce" /\ todo[w] = {}
  /\ LET d == [i \in Param |-> grad[w][i] (+) (IF script.wd /\ ~WdTaken THEN Half(weight[w][i]) ELSE Zero)]
         own == script.momentum /\ ~Taken
     IN  /\ mom'    = [mom EXCEPT ![w] = [i \in Param |-> IF own THEN NextMom(@[i], d[i]) ELSE @[i]]]
         /\ weight' = [weight EXCEPT ![w] = [i \in Param |-> @[i] (+) d[i] (+) (IF own THEN mom'[w][i] ELSE Zero)]]
  /\ step' = [step EXCEPT ![w] = @ + 1]
  /\ pc'   = [pc EXCEPT ![w] = IF step[w] = Steps THEN "done" ELSE "backward"]
  /\ UNCHANGED <<script, todo, grad, wdmom, sent>>

-----------------------------------------------------------------------------
Terminated == (\A w \in Worker : pc[w] = "done") /\ UNCHANGED vars

Process(w) ==
  \/ InitParams(w) \/ Fit(w) \/ ParamsReady(w) \/ AllreduceGrads(w) \/ DoPushPull(w)
  \/ (\E i \in Param : Decompress(w, i)) \/ Update(w)

Next == (\E w \in Worker : Process(w)) \/ Terminated

Spec == Init /\ [][Next]_vars

-----------------------------------------------------------------------------
(* Properties *)

\* The reference: Nesterov momentum on the average gradient plus weight decay.
Average(i, s) == [c \in {<<w, i, s>> : w \in Worker} |-> Scale \div Size]

Trajectory(i) ==
  LET T[s \in 0..Steps] ==
        IF s = 0 THEN [m |-> Zero, x |-> Once(Initial(Root, i))]
        ELSE LET d == Average(i, s) (+) (IF script.wd THEN Half(T[s - 1].x) ELSE Zero)
                 m == IF script.momentum THEN NextMom(T[s - 1].m, d) ELSE Zero
             IN  [m |-> m, x |-> T[s - 1].x (+) d (+) m]
  IN  T

=============================================================================
