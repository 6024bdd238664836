--------------------------- MODULE HalfOptimizer ---------------------------
(***************************************************************************)
(* The half precision optimizer of src/byteps/misc/imagenet18/__init__.py: *)
(* step() may return while push_pulls are under way; the forward hook of a *)
(* layer waits for the layer's own parameter, updating any other parameter *)
(* whose push_pull is over in the meantime.  A parameter's fp32 copy is    *)
(* updated and copied to its fp16 copy in one step, so both are weight.    *)
(***************************************************************************)
EXTENDS Collective

CONSTANTS
  NumLayer,  \* the layers, with one parameter each
  Scripts    \* [passes: Nat, wait: step -> BOOLEAN]: backward passes per step, and
             \* whether each step() waits for all push_pulls (wait_for_finish)

VARIABLES
  script,    \* the script that every process runs
  pc,        \* pc[w]: where process w is
  step,      \* step[w]: the current training step
  pass,      \* pass[w]: the current backward pass of the step
  layer,     \* layer[w]: the next layer of the forward or backward computation
  delay,     \* _push_pull_delay
  handles,   \* _handles; the handle None is 0
  failed,    \* failed[w]: a call has raised an error
  grad,      \* the gradient of the fp16 parameter
  weight,    \* the content of the parameter
  sent,      \* the push_pulls by name
  computed   \* the gradients computed, as <<worker, layer, step, pass>>

vars == <<script, pc, step, pass, layer, delay, handles, failed, grad, weight, sent, computed>>

Layer == 1..NumLayer
Steps == Len(script.wait)

\* __init__, with the hooks registered.
Init ==
  /\ script   \in Scripts
  /\ pc       = [w \in Worker |-> "forward"]
  /\ step     = [w \in Worker |-> 1]
  /\ pass     = [w \in Worker |-> 1]
  /\ layer    = [w \in Worker |-> 1]
  /\ delay    = [w \in Worker |-> [p \in Layer |-> script.passes]]
  /\ handles  = [w \in Worker |-> <<>>]
  /\ failed   = [w \in Worker |-> FALSE]
  /\ grad     = [w \in Worker |-> [p \in Layer |-> Zero]]
  /\ weight   = [w \in Worker |-> [p \in Layer |-> Zero]]
  /\ sent     = [w \in Worker |-> [p \in Layer |-> <<>>]]
  /\ computed = {}

-----------------------------------------------------------------------------
\* Mutant: a layer does not wait for its parameter.
MustWaitNever(w, p) == FALSE

\* pre_forward_hook waits as long as the parameter of the layer has a handle.
MustWait(w, p) == p \in DOMAIN handles[w]

\* after_forward_hook, _zero_one_grad.
Cleared(w, p) == Zero

\* A layer runs, and after_forward_hook clears its gradient.
Forward(w) ==
  /\ pc[w] = "forward" /\ ~failed[w]
  /\ ~MustWait(w, layer[w])
  /\ grad'  = [grad EXCEPT ![w][layer[w]] = Cleared(w, layer[w])]
  /\ layer' = [layer EXCEPT ![w] = IF @ = NumLayer THEN @ ELSE @ + 1]
  /\ pc'    = [pc EXCEPT ![w] = IF layer[w] = NumLayer THEN "backward" ELSE @]
  /\ UNCHANGED <<script, step, pass, delay, handles, failed, weight, sent, computed>>

\* _try_to_synchronize(p), of the parameter a layer waits for, of another one in
\* the meantime, or of _wait_for_all: a finished push_pull is averaged and applied.
TryToSynchronize(w, p) ==
  /\ ~failed[w]
  /\ \/ pc[w] = "forward" /\ MustWait(w, layer[w])
     \/ pc[w] = "wait"
  /\ p \in DOMAIN handles[w] /\ handles[w][p] # 0 /\ Finished(sent, p, handles[w][p])
  /\ delay'   = [delay EXCEPT ![w][p] = script.passes]
  /\ grad'    = [grad EXCEPT ![w][p] = Summed(sent, p, handles[w][p])]
  /\ weight'  = [weight EXCEPT ![w][p] = @ (+) Averaged(sent, p, handles[w][p])]
  /\ handles' = [handles EXCEPT ![w] = Restrict(@, DOMAIN @ \ {p})]
  /\ UNCHANGED <<script, pc, step, pass, layer, failed, sent, computed>>

\* The same call with the handle None that a hook leaves before the last of several
\* backward passes: poll(None) raises an error.
PollNone(w) ==
  /\ pc[w] = "forward" /\ ~failed[w] /\ MustWait(w, layer[w]) /\ handles[w][layer[w]] = 0
  /\ failed' = [failed EXCEPT ![w] = TRUE]
  /\ UNCHANGED <<script, pc, step, pass, layer, delay, handles, grad, weight, sent, computed>>

\* Autograd adds the gradient of the layer, the last layer first, and the hook runs;
\* it raises an error when the last push_pull of the parameter has not been applied.
Hook(w) ==
  /\ pc[w] = "backward" /\ ~failed[w]
  /\ LET p == layer[w]
         c == <<w, p, step[w], pass[w]>>
     IN  /\ computed' = computed \cup {c}
         /\ grad'     = [grad EXCEPT ![w][p] = @ (+) Once(c)]
         /\ failed'   = [failed EXCEPT ![w] = delay[w][p] <= 0]
         /\ delay'    = [delay EXCEPT ![w][p] = @ - 1]
         /\ sent'     = IF delay'[w][p] = 0 THEN Push(sent, w, p, grad'[w][p]) ELSE sent
         /\ handles'  = [handles EXCEPT ![w] = [q \in DOMAIN @ \cup {p} |->
                           IF q # p THEN @[q] ELSE IF delay'[w][p] = 0 THEN LastCall(sent', w, p) ELSE 0]]
         /\ layer'    = [layer EXCEPT ![w] = IF p = 1 THEN 1 ELSE p - 1]
         /\ pass'     = [pass EXCEPT ![w] = IF p = 1 THEN @ + 1 ELSE @]
         /\ pc'       = [pc EXCEPT ![w] = IF p > 1 THEN @ ELSE IF pass[w] < script.passes THEN "forward" ELSE "step"]
  /\ UNCHANGED <<script, step, weight>>

NextStep(w) ==
  /\ step' = [step EXCEPT ![w] = @ + 1]
  /\ pass' = [pass EXCEPT ![w] = 1]
  /\ pc'   = [pc EXCEPT ![w] = IF step[w] = Steps THEN "done" ELSE "forward"]

\* The parameters that _sync_missing_gradients pushes: no handle, or None.
Unpushed(w) == {p \in Layer : p \notin DOMAIN handles[w] \/ handles[w][p] = 0}

Step(w) ==
  /\ pc[w] = "step"
  /\ sent'    = [sent EXCEPT ![w] = [p \in Layer |-> IF p \in Unpushed(w) THEN Append(@[p], grad[w][p]) ELSE @[p]]]
  /\ handles' = [handles EXCEPT ![w] = [p \in Layer |-> IF p \in Unpushed(w) THEN LastCall(sent', w, p) ELSE @[p]]]
  /\ IF script.wait[step[w]] THEN pc' = [pc EXCEPT ![w] = "wait"] /\ UNCHANGED <<step, pass>>
                             ELSE NextStep(w)
  /\ UNCHANGED <<script, layer, delay, failed, grad, weight, computed>>

\* _wait_for_all returns when no handle is left.
WaitForAll(w) ==
  /\ pc[w] = "wait" /\ handles[w] = <<>>
  /\ NextStep(w)
  /\ UNCHANGED <<script, layer, delay, handles, failed, grad, weight, sent, computed>>

-----------------------------------------------------------------------------
Ended(w) == pc[w] = "done" \/ failed[w]

Terminated == (\A w \in Worker : Ended(w)) /\ UNCHANGED vars

Process(w) ==
  \/ Forward(w) \/ (\E p \in Layer : TryToSynchronize(w, p)) \/ PollNone(w)
  \/ Hook(w) \/ Step(w) \/ WaitForAll(w)

Next == (\E w \in Worker : Process(w)) \/ Terminated

Spec == Init /\ [][Next]_vars

-----------------------------------------------------------------------------
(* Properties *)

\* The average over all processes of the gradients of the steps before s.
AveragesBefore(s, p) == [c \in {d \in computed : d[2] = p /\ d[3] < s} |-> Scale \div Size]

\* A layer never runs with a weight that lacks an update of an earlier step, nor
\* with one that another step has leaked into, although step() returned before the
\* push_pulls were over: the layers that have run in this step hold exactly the
\* averages of all earlier steps (__init__.py:153-175, "block forward computation
\* until the push-pull and parameter update is finished").
LayersRunUpdated ==
  \A w \in Worker : ~failed[w] /\ pc[w] \in {"forward", "backward"} /\ pass[w] = 1 =>
    \A p \in Layer : pc[w] = "backward" \/ p < layer[w] => weight[w][p] = AveragesBefore(step[w], p)

\* With one backward pass per step no call raises an error: no hook runs before the
\* last push_pull is applied, and no handle is None when it is polled
\* (__init__.py:161, 214-222, 310-312).  More than one pass per step, which the
\* docstring allows ("accumulating gradients over multiple mini-batches",
\* __init__.py:363-367), never gets to a step(): the first layer of the second pass polls
\* the handle None, and nothing else fails.
NoCallFails ==
  \A w \in Worker :
    /\ failed[w] => script.passes > 1 /\ pc[w] = "forward" /\ step[w] = 1 /\ pass[w] = 2 /\ layer[w] = 1
    /\ script.passes > 1 => pc[w] \notin {"step", "wait", "done"}
=============================================================================
