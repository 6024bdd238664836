------------------------------ MODULE MCTorch ------------------------------
(***************************************************************************)
(* The parts of the PyTorch plugin in one run, each with two processes: a  *)
(* behaviour stays with the part it starts with.                           *)
(***************************************************************************)
EXTENDS Integers, Sequences, TLC

CONSTANTS w1, w2, p1, p2, buffer1

VARIABLES
  part,  \* which part of the plugin runs
  script, pc, step, pass, todo, delay, handles, should_sync, failed, grad, weight, sent, computed,
  grad_count, buffer,
  queue, waiting, tensor, option, bytes,
  layer,
  called, handle_map, starting, announced, initialized, number, input, output, arrived, results, returned

Processes == {w1, w2}
None      == "none"  \* a variable that the part does not have

-----------------------------------------------------------------------------
(* The instances: two processes, two parameters and two or three training steps *)

OptimizerScripts ==
  {[usage |-> u, passes |-> <<1, 1>>] : u \in {"step", "clip", "skip"}}
    \cup {[usage |-> "step", passes |-> <<2, 1>>]}

Optimizer == INSTANCE TorchOptimizer WITH
  Worker <- Processes, Scale <- 4, Param <- {p1, p2}, Scripts <- OptimizerScripts

Same(s) == [w \in Processes |-> s]
Whole   == {p1, p2}

\* All parameters used, with and without buffers and the call of synchronize(); a
\* first pass under no_sync(); a branch that every process skips in the first pass.
DDPScripts ==
  {[used |-> Same(<<Whole, Whole>>), quiet |-> <<FALSE, FALSE>>, call |-> c, buffers |-> b] : c, b \in BOOLEAN}
    \cup {[used |-> Same(<<Whole, Whole>>), quiet |-> <<TRUE, FALSE>>, call |-> FALSE, buffers |-> TRUE],
          [used |-> Same(<<{p1}, Whole>>), quiet |-> <<FALSE, FALSE>>, call |-> TRUE, buffers |-> TRUE]}

DDP == INSTANCE TorchDDP WITH
  Worker <- Processes, Scale <- 4, Param <- Whole, Buffer <- buffer1, Root <- w1, Scripts <- DDPScripts

Lengths == (w1 :> 1) @@ (w2 :> 2)

\* Dicts in any order of their items, from scratch and resumed, without weight decay;
\* a list, from scratch, with weight decay.
BroadcastScripts ==
  {[pickles |-> k, dict |-> TRUE, order |-> o, resumed |-> r, decay |-> FALSE, length |-> Lengths] :
     k \in BOOLEAN, o \in [Processes -> {<<1, 2>>, <<2, 1>>}], r \in BOOLEAN}
    \cup {[pickles |-> TRUE, dict |-> FALSE, order |-> Same(<<2, 1>>), resumed |-> FALSE, decay |-> TRUE, length |-> Lengths]}

Broadcast == INSTANCE TorchBroadcast WITH
  Worker <- Processes, Scale <- 4, Param <- 1..2, Root <- w1, Scripts <- BroadcastScripts

\* Waiting for every push_pull only in the last step, or only in the first; and two
\* backward passes per step.
HalfScripts ==
  {[passes |-> 1, wait |-> <<FALSE, FALSE, TRUE>>], [passes |-> 1, wait |-> <<TRUE, FALSE, FALSE>>],
   [passes |-> 2, wait |-> <<TRUE>>]}

Half == INSTANCE HalfOptimizer WITH
  Worker <- Processes, Scale <- 4, NumLayer <- 2, Scripts <- HalfScripts

Call(k, n, a, d, f) == [kind |-> k, name |-> n, average |-> a, dtype |-> d, fp16 |-> f]

\* Two names, one of them used twice, in and out of place, float and integer.
OpsScripts ==
  {<<Call("push_pull_async", "a", TRUE, "float32", FALSE), Call("push_pull_inplace", "b", FALSE, "float32", FALSE),
     Call("push_pull", "a", TRUE, "int32", TRUE)>>,
   <<Call("push_pull", "a", TRUE, "float32", TRUE), Call("push_pull_async_inplace", "b", TRUE, "float64", FALSE),
     Call("push_pull_async", "a", FALSE, "float32", FALSE)>>}

Ops == INSTANCE TorchOps WITH
  Worker <- Processes, Scale <- 4, Names <- {"a", "b"}, Scripts <- OpsScripts

-----------------------------------------------------------------------------
allvars == <<part, script, pc, step, pass, todo, delay, handles, should_sync, failed, grad, weight, sent,
             computed, grad_count, buffer, queue, waiting, tensor, option, bytes, layer, called,
             handle_map, starting, announced, initialized, number, input, output, arrived, results, returned>>

ofOptimizer == should_sync
ofDDP       == <<grad_count, buffer>>
ofBroadcast == <<queue, waiting, tensor, option, bytes>>
ofOps       == <<called, handle_map, starting, announced, initialized, number, input, output, arrived, results, returned>>
ofTraining  == <<pass, handles, grad, weight, computed>>

NoOptimizer == should_sync = None
NoDDP       == grad_count = None /\ buffer = None
NoBroadcast == queue = None /\ waiting = None /\ tensor = None /\ option = None /\ bytes = None
NoTraining  == pass = None /\ handles = None /\ grad = None /\ weight = None /\ computed = None
NoOps ==
  /\ called = None /\ handle_map = None /\ starting = None /\ announced = None /\ initialized = None
  /\ number = None /\ input = None /\ output = None /\ arrived = None /\ results = None /\ returned = None

TorchInit ==
  \/ /\ part = "optimizer" /\ Optimizer!Init
     /\ layer = None /\ NoDDP /\ NoBroadcast /\ NoOps
  \/ /\ part = "ddp" /\ DDP!Init
     /\ step = None /\ delay = None /\ failed = None /\ layer = None /\ NoOptimizer /\ NoBroadcast /\ NoOps
  \/ /\ part = "broadcast" /\ Broadcast!Init
     /\ step = None /\ todo = None /\ delay = None /\ failed = None /\ layer = None
     /\ NoTraining /\ NoOptimizer /\ NoDDP /\ NoOps
  \/ /\ part = "half" /\ Half!Init
     /\ todo = None /\ NoOptimizer /\ NoDDP /\ NoBroadcast /\ NoOps
  \/ /\ part = "ops" /\ Ops!Init
     /\ pc = None /\ step = None /\ todo = None /\ delay = None /\ failed = None /\ layer = None
     /\ NoTraining /\ NoOptimizer /\ NoDDP /\ NoBroadcast

OnOptimizer == part = "optimizer" /\ UNCHANGED <<part, layer, ofDDP, ofBroadcast, ofOps>>
OnDDP       == part = "ddp" /\ UNCHANGED <<part, step, delay, failed, layer, ofOptimizer, ofBroadcast, ofOps>>
OnBroadcast == part = "broadcast" /\ UNCHANGED <<part, step, todo, delay, failed, layer, ofTraining, ofOptimizer, ofDDP, ofOps>>
OnHalf      == part = "half" /\ UNCHANGED <<part, todo, ofOptimizer, ofDDP, ofBroadcast, ofOps>>
OnOps       == part = "ops" /\ UNCHANGED <<part, pc, step, todo, delay, failed, layer, ofTraining, ofOptimizer, ofDDP, ofBroadcast>>

TorchNext ==
  \/ OnOptimizer /\ Optimizer!Next
  \/ OnDDP       /\ DDP!Next
  \/ OnBroadcast /\ Broadcast!Next
  \/ OnHalf      /\ Half!Next
  \/ OnOps       /\ Ops!Next

\* Every process keeps running, and so do the threads of the library behind it.
Fairness ==
  \A w \in Processes :
    /\ WF_allvars(OnOptimizer /\ Optimizer!Process(w))
    /\ WF_allvars(OnDDP       /\ DDP!Process(w))
    /\ WF_allvars(OnBroadcast /\ Broadcast!Process(w))
    /\ WF_allvars(OnHalf      /\ Half!Process(w))
    /\ WF_allvars(OnOps       /\ Ops!Main(w))
    /\ WF_allvars(OnOps       /\ Ops!Thread(w))

-----------------------------------------------------------------------------
\* The scripts have ended.
Ended ==
  CASE part = "ops"  -> \A w \in Processes : Ops!Finish(w)
    [] part = "half" -> \A w \in Processes : Half!Ended(w)
    [] OTHER         -> \A w \in Processes : pc[w] = "done"
=============================================================================
