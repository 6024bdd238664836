--------------------------- MODULE TorchOptimizer ---------------------------
(***************************************************************************)
(* _DistributedOptimizer of src/byteps/torch/__init__.py: every process    *)
(* trains its own copy of the model, a hook pushes a gradient when its     *)
(* last backward pass has accumulated it, and synchronize() waits for the  *)
(* averages before step() applies them.  A backward pass computes the      *)
(* gradients of some of the parameters: which, depends on the data.        *)
(*                                                                         *)
(* Usage is how the training script drives the optimizer: "step" calls     *)
(* step() after the backward passes; "clip" and "skip" call synchronize()  *)
(* themselves, change the gradients and then call step(), the second under *)
(* skip_synchronize().  Training with BYTEPS_ENABLE_ASYNC is left out: the *)
(* servers fail at the first pull in that mode (server.cc:62).             *)
(***************************************************************************)
EXTENDS Collective

CONSTANTS
  Param,   \* the parameters that require a gradient, each with a name
  Scripts  \* the training scripts to consider: how they use the optimizer, and
           \* passes[s], the backward passes of step s

None == 0  \* a handle of None; real handles are call numbers, from 1

VARIABLES
  script,      \* the script that every process runs
  pc,          \* pc[w]: where the training loop of w is
  step,        \* step[w]: the current step
  pass,        \* pass[w]: the current backward pass
  todo,        \* todo[w]: the parameters whose hook is still to run in this pass
  delay,       \* _push_pull_delay
  handles,     \* _handles
  should_sync, \* _should_sync
  failed,      \* failed[w]: an assertion of a hook has failed
  grad,        \* grad[w][p]: p.grad
  weight,      \* weight[w][p]: the sum of the updates applied to p
  sent,        \* the push_pulls of "Gradient."+name
  computed     \* the gradients computed so far, as <<worker, parameter, step, pass>>

loop   == <<pc, step, pass, todo>>
opt    == <<delay, handles, should_sync, failed>>
model  == <<grad, weight>>
vars   == <<script, loop, opt, model, sent, computed>>

usage  == script.usage
Passes == script.passes
Hooked == Size > 1  \* __init__ registers the hooks only then
RequiresUpdate == IF Hooked THEN Param ELSE {}

\* __init__, with the first backward_passes_per_step.
Init ==
  /\ script      \in Scripts
  /\ pc          = [w \in Worker |-> "zero_grad"]
  /\ step        = [w \in Worker |-> 1]
  /\ pass        = [w \in Worker |-> 1]
  /\ todo        = [w \in Worker |-> {}]
  /\ delay       = [w \in Worker |-> [p \in Param |-> Passes[1]]]
  /\ handles     = [w \in Worker |-> <<>>]
  /\ should_sync = [w \in Worker |-> TRUE]
  /\ failed      = [w \in Worker |-> FALSE]
  /\ grad        = [w \in Worker |-> [p \in Param |-> Zero]]
  /\ weight      = [w \in Worker |-> [p \in Param |-> Zero]]
  /\ sent        = [w \in Worker |-> [p \in Param |-> <<>>]]
  /\ computed    = {}

-----------------------------------------------------------------------------
(* The training script *)

\* zero_grad() before the first pass, and set_backward_passes_per_step() where
\* the number of passes changes.
ZeroGrad(w) ==
  /\ pc[w] = "zero_grad"
  /\ pc'    = [pc EXCEPT ![w] = "backward"]
  /\ pass'  = [pass EXCEPT ![w] = 1]
  /\ delay' = IF step[w] > 1 /\ Passes[step[w]] # Passes[step[w] - 1]
                THEN [delay EXCEPT ![w] = [p \in Param |-> Passes[step[w]]]] ELSE delay
  /\ grad'  = [grad EXCEPT ![w] = [p \in Param |-> Zero]]
  /\ todo'  \in {[todo EXCEPT ![w] = used] : used \in SUBSET Param}
  /\ UNCHANGED <<script, step, handles, should_sync, failed, weight, sent, computed>>

\* A backward pass is over: the next one, or on to the optimizer.
PassDone(w) ==
  /\ pc[w] = "backward" /\ todo[w] = {}
  /\ IF pass[w] < Passes[step[w]]
       THEN /\ pass' = [pass EXCEPT ![w] = @ + 1]
            /\ todo' \in {[todo EXCEPT ![w] = used] : used \in SUBSET Param}
            /\ UNCHANGED pc
       ELSE /\ pc' = [pc EXCEPT ![w] = IF usage \in {"clip", "skip"} THEN "synchronize" ELSE "step"]
            /\ UNCHANGED <<pass, todo>>
  /\ UNCHANGED <<script, step, opt, model, sent, computed>>

\* The script has clipped the synchronized gradients, the same on every process,
\* and calls step(), for "skip" inside skip_synchronize().
Clip(w) ==
  /\ pc[w] = "clip"
  /\ pc' = [pc EXCEPT ![w] = "step"]
  /\ should_sync' = [should_sync EXCEPT ![w] = usage # "skip"]
  /\ UNCHANGED <<script, step, pass, todo, delay, handles, failed, model, sent, computed>>

-----------------------------------------------------------------------------
(* The optimizer *)

Gradient(w, p) == <<w, p, step[w], pass[w]>>

\* Mutant: every pass pushes.
LastAny(w, p) == TRUE

\* This pass is the last that the gradient of p waits for.
Last(w, p) == delay[w][p] = 1

\* Autograd adds the gradient of p, and the hook of _make_hook runs.
Hook(w, p) ==
  /\ pc[w] = "backward" /\ p \in todo[w]
  /\ todo'     = [todo EXCEPT ![w] = @ \ {p}]
  /\ grad'     = [grad EXCEPT ![w][p] = @ (+) Once(Gradient(w, p))]
  /\ computed' = computed \cup {Gradient(w, p)}
  /\ LET push == Hooked /\ Last(w, p)
     IN  /\ failed' = [failed EXCEPT ![w] = @ \/ (Hooked /\ delay[w][p] <= 0)]
         /\ delay'  = [delay EXCEPT ![w][p] = IF Hooked THEN @ - 1 ELSE @]
         /\ sent'   = IF push THEN Push(sent, w, p, grad'[w][p]) ELSE sent
         /\ handles' = IF Hooked
                         THEN [handles EXCEPT ![w] = [q \in DOMAIN @ \cup {p} |->
                                 IF q # p THEN @[q] ELSE IF push THEN LastCall(sent', w, p) ELSE None]]
                         ELSE handles
  /\ UNCHANGED <<script, pc, step, pass, should_sync, weight>>

\* The parameters that synchronize() pushes itself: without a hook in this step,
\* or with fewer passes than announced.
Unpushed(w) == (RequiresUpdate \ DOMAIN handles[w]) \cup {p \in DOMAIN handles[w] : handles[w][p] = None}

\* synchronize(), up to the first wait; called by the script or by step().
Synchronize(w) ==
  /\ pc[w] = "synchronize" \/ (pc[w] = "step" /\ should_sync[w])
  /\ pc'      = [pc EXCEPT ![w] = IF @ = "step" THEN "step_waits" ELSE "waits"]
  /\ sent'    = [sent EXCEPT ![w] = [p \in Param |-> IF p \in Unpushed(w) THEN Append(@[p], grad[w][p]) ELSE @[p]]]
  /\ handles' = [handles EXCEPT ![w] = [p \in DOMAIN @ \cup Unpushed(w) |-> IF p \in Unpushed(w) THEN LastCall(sent', w, p) ELSE @[p]]]
  /\ UNCHANGED <<script, step, pass, todo, delay, should_sync, failed, model, computed>>

ResetDelay(w) == [delay EXCEPT ![w] = [p \in Param |-> IF p \in DOMAIN handles[w] THEN Passes[step[w]] ELSE @[p]]]

\* synchronize() has waited for every handle.
SynchronizeReturns(w) ==
  /\ pc[w] \in {"waits", "step_waits"}
  /\ \A p \in DOMAIN handles[w] : Finished(sent, p, handles[w][p])
  /\ pc'      = [pc EXCEPT ![w] = IF @ = "waits" THEN "clip" ELSE "apply"]
  /\ grad'    = [grad EXCEPT ![w] = [p \in Param |->
                   IF p \in DOMAIN handles[w] THEN Averaged(sent, p, handles[w][p]) ELSE @[p]]]
  /\ delay'   = ResetDelay(w)
  /\ handles' = [handles EXCEPT ![w] = <<>>]
  /\ UNCHANGED <<script, step, pass, todo, should_sync, failed, weight, sent, computed>>

StepDone(w) ==
  /\ step' = [step EXCEPT ![w] = @ + 1]
  /\ pc'   = [pc EXCEPT ![w] = IF step[w] = Len(Passes) THEN "done" ELSE "zero_grad"]

\* step() of the wrapped optimizer; leaving skip_synchronize() restores the flag.
Apply(w) ==
  /\ pc[w] = "apply" \/ (pc[w] = "step" /\ ~should_sync[w])
  /\ weight' = [weight EXCEPT ![w] = [p \in Param |-> @[p] (+) grad[w][p]]]
  /\ should_sync' = [should_sync EXCEPT ![w] = TRUE]
  /\ StepDone(w)
  /\ UNCHANGED <<script, pass, todo, delay, handles, failed, grad, sent, computed>>

-----------------------------------------------------------------------------
Terminated == (\A w \in Worker : pc[w] = "done") /\ UNCHANGED vars

Process(w) ==
  \/ ZeroGrad(w) \/ PassDone(w) \/ Clip(w)
  \/ \E p \in Param : Hook(w, p)
  \/ Synchronize(w) \/ SynchronizeReturns(w) \/ Apply(w)

Next == (\E w \in Worker : Process(w)) \/ Terminated

Spec == Init /\ [][Next]_vars

-----------------------------------------------------------------------------
(* Properties *)

Between(w) == pc[w] \in {"zero_grad", "done"}

\* Once a process has finished a step, its weights hold the average over all
\* processes of every gradient computed in its steps so far, each exactly once,
\* whichever parameters each pass of each process used, and whether the script
\* calls synchronize() itself (torch/__init__.py:160-183, 195-223).
StepAppliesAverage ==
  \A w \in Worker : Between(w) => \A p \in Param :
    weight[w][p] = [c \in {d \in computed : d[2] = p /\ d[3] < step[w]} |-> Scale \div Size]

\* The processes call push_pull equally often under every name in every step, also
\* for a parameter that a process did not use (missing_p): otherwise a round of the
\* servers would add up gradients of different steps.
RoundsAligned ==
  Hooked => \A w \in Worker : Between(w) => \A p \in Param :
    Len(sent[w][p]) = (step[w] - 1) * (IF usage = "clip" THEN 2 ELSE 1)

\* No hook finds its delay used up ("Gradients were computed more than
\* backward_passes_per_step times"), over steps with different numbers of passes.
NoAssertionFails == \A w \in Worker : ~failed[w]
=============================================================================
