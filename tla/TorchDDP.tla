------------------------------ MODULE TorchDDP ------------------------------
(***************************************************************************)
(* DistributedDataParallel of src/byteps/torch/parallel/distributed.py     *)
(* with the group counter of src/byteps/torch/ops.cc.  The constructor     *)
(* broadcasts the model from rank 0; forward() broadcasts the buffers; the *)
(* hook of a gradient pushes it and counts it, and the hook that reaches   *)
(* the number of gradients waits for all of them.                          *)
(*                                                                         *)
(* A script gives, for each process and backward pass, the parameters used *)
(* and whether the pass is under no_sync(), and whether the script calls   *)
(* synchronize() after backward(), as the class documentation asks for     *)
(* models with branches.                                                   *)
(***************************************************************************)
EXTENDS Collective

CONSTANTS
  Param,    \* the parameters, which all require a gradient
  Buffer,   \* the name of the module's buffer
  Root,     \* the process of rank 0
  Scripts   \* [used: process -> sequence of sets of parameters, quiet: pass -> BOOLEAN,
            \*  call: BOOLEAN, buffers: BOOLEAN]

VARIABLES
  script,      \* the script that every process runs
  pc,          \* pc[w]: where process w is
  pass,        \* pass[w]: the current backward pass
  todo,        \* todo[w]: the parameters whose hook is still to run in this pass
  grad_count,  \* grad_count_ of ops.cc
  handles,     \* _handles
  grad,        \* grad[w][p]: p.grad
  weight,      \* weight[w][p]: the content of p
  buffer,      \* buffer[w]: the content of the module's buffer
  sent,        \* the push_pulls by name
  computed     \* the gradients computed, as <<worker, parameter, pass>>

vars == <<script, pc, pass, todo, grad_count, handles, grad, weight, buffer, sent, computed>>

NumGrads  == Cardinality(Param)  \* _num_grads, set_num_grads
LastPass  == Len(script.quiet)
State     == {<<"Parameter", p>> : p \in Param}
Gradients == {<<"Gradient", p>> : p \in Param}
Initial(w, x) == <<"initial", w, x>>

\* What a process contributes to a broadcast: zeros, except from the root.
Contribute(w, t) == IF w = Root THEN t ELSE Zero

\* _handles, _num_grads and the hooks of __init__; every process has weights of its own.
Init ==
  /\ script     \in Scripts
  /\ pc         = [w \in Worker |-> "construct"]
  /\ pass       = [w \in Worker |-> 1]
  /\ todo       = [w \in Worker |-> {}]
  /\ grad_count = [w \in Worker |-> 0]
  /\ handles    = [w \in Worker |-> <<>>]
  /\ grad       = [w \in Worker |-> [p \in Param |-> Zero]]
  /\ weight     = [w \in Worker |-> [p \in Param |-> Once(Initial(w, p))]]
  /\ buffer     = [w \in Worker |-> Once(Initial(w, Buffer))]
  /\ sent       = [w \in Worker |-> [n \in State \cup Gradients \cup {Buffer} |-> <<>>]]
  /\ computed   = {}

-----------------------------------------------------------------------------
\* The end of __init__: broadcast_parameters of the module's state, all at once
\* here; module TorchBroadcast has it tensor by tensor.
Construct(w) ==
  /\ pc[w] = "construct"
  /\ pc'   = [pc EXCEPT ![w] = "constructing"]
  /\ sent' = [sent EXCEPT ![w] = [n \in DOMAIN @ |->
                IF n \in State THEN Append(@[n], Contribute(w, weight[w][n[2]])) ELSE @[n]]]
  /\ UNCHANGED <<script, pass, todo, grad_count, handles, grad, weight, buffer, computed>>

Constructed(w) ==
  /\ pc[w] = "constructing"
  /\ \A n \in State : Finished(sent, n, 1)
  /\ pc'     = [pc EXCEPT ![w] = "forward"]
  /\ weight' = [weight EXCEPT ![w] = [p \in Param |-> Summed(sent, <<"Parameter", p>>, 1)]]
  /\ UNCHANGED <<script, pass, todo, grad_count, handles, grad, buffer, sent, computed>>

\* forward(): _sync_params broadcasts the buffers, if the module has any, ...
SyncParams(w) ==
  /\ pc[w] = "forward" /\ script.buffers
  /\ pc'   = [pc EXCEPT ![w] = "syncing"]
  /\ sent' = Push(sent, w, Buffer, Contribute(w, buffer[w]))
  /\ UNCHANGED <<script, pass, todo, grad_count, handles, grad, weight, buffer, computed>>

\* ... and the module runs: it updates its buffers, and loss.backward() follows.
Forward(w) ==
  /\ \/ pc[w] = "forward" /\ ~script.buffers /\ UNCHANGED buffer
     \/ /\ pc[w] = "syncing" /\ Finished(sent, Buffer, LastCall(sent, w, Buffer))
        /\ buffer' = [buffer EXCEPT ![w] = Summed(sent, Buffer, LastCall(sent, w, Buffer)) (+) Once(<<w, Buffer, pass[w]>>)]
  /\ pc'   = [pc EXCEPT ![w] = "backward"]
  /\ todo' = [todo EXCEPT ![w] = script.used[w][pass[w]]]
  /\ UNCHANGED <<script, pass, grad_count, handles, grad, weight, sent, computed>>

\* Mutant: the counter of DoPushPullGroupSync does not start again.
CountGradients(n, w) == grad_count[w] + n

\* grad_count_ after n pushes of DoPushPullGroupSync: it starts again at num_grads_.
CountGradient(n, w) == (grad_count[w] + n) % NumGrads

\* The synchronize() of a hook or of the script, up to its first wait: the
\* gradients without a handle are pushed.
Missing(w) == Param \ DOMAIN handles[w]

\* Autograd adds the gradient of p, and the hook runs.
Hook(w, p) ==
  /\ pc[w] = "backward" /\ p \in todo[w]
  /\ todo'     = [todo EXCEPT ![w] = @ \ {p}]
  /\ grad'     = [grad EXCEPT ![w][p] = @ (+) Once(<<w, p, pass[w]>>)]
  /\ computed' = computed \cup {<<w, p, pass[w]>>}
  /\ IF script.quiet[pass[w]]
       THEN UNCHANGED <<sent, handles, grad_count, pc>>
       ELSE /\ sent'       = Push(sent, w, <<"Gradient", p>>, grad'[w][p])
            /\ handles'    = [handles EXCEPT ![w] = [q \in DOMAIN @ \cup {p} |->
                                IF q = p THEN LastCall(sent', w, <<"Gradient", p>>) ELSE @[q]]]
            /\ grad_count' = [grad_count EXCEPT ![w] = CountGradient(1, w)]
            /\ pc' = [pc EXCEPT ![w] = IF grad_count[w] + 1 = NumGrads THEN "hook_syncs" ELSE @]
  /\ UNCHANGED <<script, pass, weight, buffer>>

BackwardDone(w) ==
  /\ pc[w] = "backward" /\ todo[w] = {}
  /\ pc' = [pc EXCEPT ![w] = IF script.quiet[pass[w]] THEN "step_done" ELSE IF script.call THEN "syncs" ELSE "step"]
  /\ UNCHANGED <<script, pass, todo, grad_count, handles, grad, weight, buffer, sent, computed>>

Synchronize(w) ==
  /\ pc[w] \in {"hook_syncs", "syncs"}
  /\ pc'         = [pc EXCEPT ![w] = IF @ = "syncs" THEN "waits" ELSE "hook_waits"]
  /\ sent'       = [sent EXCEPT ![w] = [n \in DOMAIN @ |->
                      IF n \in Gradients /\ n[2] \in Missing(w) THEN Append(@[n], grad[w][n[2]]) ELSE @[n]]]
  /\ handles'    = [handles EXCEPT ![w] = [p \in Param |->
                      IF p \in Missing(w) THEN LastCall(sent', w, <<"Gradient", p>>) ELSE @[p]]]
  /\ grad_count' = [grad_count EXCEPT ![w] = CountGradient(Cardinality(Missing(w)), w)]
  /\ UNCHANGED <<script, pass, todo, grad, weight, buffer, computed>>

\* synchronize() has waited for every handle.
SynchronizeReturns(w) ==
  /\ pc[w] \in {"hook_waits", "waits"}
  /\ \A p \in Param : Finished(sent, <<"Gradient", p>>, handles[w][p])
  /\ pc'      = [pc EXCEPT ![w] = IF @ = "waits" THEN "step" ELSE "backward"]
  /\ grad'    = [grad EXCEPT ![w] = [p \in Param |-> Averaged(sent, <<"Gradient", p>>, handles[w][p])]]
  /\ handles' = [handles EXCEPT ![w] = <<>>]
  /\ UNCHANGED <<script, pass, todo, grad_count, weight, buffer, sent, computed>>

\* The script: step() and zero_grad() of a plain optimizer.
OptimizerStep(w) ==
  /\ pc[w] = "step"
  /\ weight' = [weight EXCEPT ![w] = [p \in Param |-> @[p] (+) grad[w][p]]]
  /\ grad'   = [grad EXCEPT ![w] = [p \in Param |-> Zero]]
  /\ pc'     = [pc EXCEPT ![w] = "step_done"]
  /\ UNCHANGED <<script, pass, todo, grad_count, handles, buffer, sent, computed>>

NextPass(w) ==
  /\ pc[w] = "step_done"
  /\ pass' = [pass EXCEPT ![w] = @ + 1]
  /\ pc'   = [pc EXCEPT ![w] = IF pass[w] = LastPass THEN "done" ELSE "forward"]
  /\ UNCHANGED <<script, todo, grad_count, handles, grad, weight, buffer, sent, computed>>

-----------------------------------------------------------------------------
Terminated == (\A w \in Worker : pc[w] = "done") /\ UNCHANGED vars

Process(w) ==
  \/ Construct(w) \/ Constructed(w) \/ SyncParams(w) \/ Forward(w)
  \/ \E p \in Param : Hook(w, p)
  \/ BackwardDone(w) \/ Synchronize(w) \/ SynchronizeReturns(w) \/ OptimizerStep(w) \/ NextPass(w)

Next == (\E w \in Worker : Process(w)) \/ Terminated

Spec == Init /\ [][Next]_vars

-----------------------------------------------------------------------------
(* Properties *)

\* What a step of a plain optimizer adds up to: the weights of the root, and the
\* average over all processes of every gradient of the passes before.
Averages(w, p) ==
  Once(Initial(Root, p))
    (+) [c \in {d \in computed : d[2] = p /\ d[3] < pass[w] + (IF pc[w] = "step_done" THEN 1 ELSE 0)} |-> Scale \div Size]

\* After a step that followed a synchronised pass, every process holds the same
\* weights: those of rank 0 and the averages of all gradients, also of the passes
\* under no_sync() (distributed.py:261-287, "During the backwards pass, gradients
\* from each node are averaged").
GradientsAveraged ==
  \A w \in Worker : pc[w] = "step_done" /\ ~script.quiet[pass[w]] =>
    \A p \in Param : weight[w][p] = Averages(w, p)

\* A module runs with the buffers of rank 0: whatever it added to its own copy in
\* an earlier pass is gone, except on the root (distributed.py:214-220).
BuffersOfRoot ==
  \A w \in Worker : pc[w] = "backward" /\ script.buffers =>
    \A c \in DOMAIN buffer[w] : \/ c = Initial(Root, Buffer)
                                \/ c[1] = Root /\ c[3] < pass[w]
                                \/ c = <<w, Buffer, pass[w]>>
=============================================================================
