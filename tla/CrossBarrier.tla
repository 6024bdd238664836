---------------------------- MODULE CrossBarrier ----------------------------
(***************************************************************************)
(* The cross barrier of the PyTorch plugin (src/byteps/torch/              *)
(* cross_barrier.py) in one process of a job of several: the training      *)
(* thread runs forward and backward passes and step(), gradient hooks      *)
(* start push_pulls, and a poller thread applies each parameter's update   *)
(* when its push_pull is done.  A lock per parameter, taken by the hook    *)
(* and released by the poller, keeps the next forward pass away from a     *)
(* parameter until it is updated.                                          *)
(*                                                                         *)
(* Gradients are sets of contributions <<step, pass>>.  The push_pull      *)
(* itself (module LocalPipeline) is done at any time after it was started. *)
(* All parameters require gradients and belong to leaf modules, where the  *)
(* forward hooks are; the gradients are not compressed, so p.grad is the   *)
(* memory that is reduced in place.                                        *)
(***************************************************************************)
EXTENDS Integers, Sequences

CONSTANTS
  Param,      \* the parameters
  FinalStep,  \* num_steps: the training steps the optimizer was told of
  Passes,     \* backward_passes_per_step
  NoParam     \* no parameter: the None of the poller's end marker

VARIABLES
  pc,           \* where the training thread is
  step,         \* self._step
  pass,         \* the backward passes run since the last step()
  fwd,          \* the parameters whose module this forward pass has still to run
  bwd,          \* the parameters whose gradient this backward pass has still to compute
  starting,     \* how far _push_pull_grad_async is: "no", "acquire" or "put"
  param,        \* its parameter
  handles,      \* self._handles[p]: {} without an entry, {0} for (None, None), else {handle}
  delay,        \* self._push_pull_delay[p]
  locks,        \* the parameters whose lock is held
  event_queue,  \* self._event_queue
  poller,       \* "get", "poll", "release" or "exited"
  event,        \* the <<parameter, handle>> the poller works on
  results,      \* HandleManager::results_ by handle: "pending", "done" or "cleared"
  grad,         \* the contributions in p.grad
  pushed,       \* history: p.grad when the push_pull of a handle was started
  computed,     \* history: the contributions the backward passes have computed
  updated       \* history: the contributions p.data was updated with

trainer == <<pc, step, pass, fwd, bwd, starting, param>>
shared  == <<delay, locks, event_queue, results, grad>>
thread  == <<poller, event>>
history == <<pushed, computed, updated>>
vars    == <<trainer, handles, shared, thread, history>>

Sentinel == <<NoParam, 0>>

Init ==
  /\ pc = "init" /\ step = 0 /\ pass = 1
  /\ fwd = {} /\ bwd = {}
  /\ starting = "no" /\ param = NoParam
  /\ handles     = [p \in Param |-> {}]
  /\ delay       = [p \in Param |-> Passes]
  /\ locks       = {}
  /\ event_queue = <<>>
  /\ poller = "get" /\ event = Sentinel
  /\ results  = <<>>
  /\ grad     = [p \in Param |-> {}]
  /\ pushed   = <<>>
  /\ computed = [p \in Param |-> {}]
  /\ updated  = [p \in Param |-> {}]

-----------------------------------------------------------------------------
(* The training thread *)

\* step() number 0, called by broadcast_optimizer_state: the wrapped optimizer's own.
StepZero ==
  /\ pc = "init"
  /\ step' = 1
  /\ pc' = "batch"
  /\ UNCHANGED <<pass, fwd, bwd, starting, param, handles, shared, thread, history>>

\* The script calls the model.  The batch decides which modules run.
CallModel ==
  /\ pc = "batch"
  /\ \E used \in (SUBSET Param) \ {{}} : fwd' = used /\ bwd' = used
  /\ pc' = "forward"
  /\ UNCHANGED <<step, pass, starting, param, handles, shared, thread, history>>

\* Mutant: the forward pass does not wait for the parameter.
PreForwardHookNoWait(p) ==
  /\ pc = "forward" /\ p \in fwd
  /\ handles' = [handles EXCEPT ![p] = {}]
  /\ fwd' = fwd \ {p}
  /\ pc'  = IF fwd' = {} THEN "backward" ELSE pc
  /\ UNCHANGED <<step, pass, bwd, starting, param, shared, thread, history>>

\* pre_forward_hook forgets the handle and waits until the lock is free.
PreForwardHook(p) ==
  /\ pc = "forward" /\ p \in fwd
  /\ p \notin locks
  /\ handles' = [handles EXCEPT ![p] = {}]
  /\ fwd' = fwd \ {p}
  /\ pc'  = IF fwd' = {} THEN "backward" ELSE pc
  /\ UNCHANGED <<step, pass, bwd, starting, param, shared, thread, history>>

\* The delay has run down: this backward pass is the last of the step.
PushNow(p) == delay[p] = 1

\* A gradient is accumulated and its hook runs.
Hook(p) ==
  /\ pc = "backward" /\ starting = "no" /\ p \in bwd
  /\ bwd'      = bwd \ {p}
  /\ grad'     = [grad EXCEPT ![p] = @ \cup {<<step, pass>>}]
  /\ computed' = [computed EXCEPT ![p] = @ \cup {<<step, pass>>}]
  /\ delay'    = [delay EXCEPT ![p] = @ - 1]
  /\ IF PushNow(p)
       THEN starting' = "acquire" /\ param' = p /\ UNCHANGED handles
       ELSE handles' = [handles EXCEPT ![p] = {0}] /\ UNCHANGED <<starting, param>>
  /\ UNCHANGED <<pc, step, pass, fwd, locks, event_queue, results, thread, pushed, updated>>

\* _push_pull_grad_async takes the lock and calls byteps_push_pull, which
\* allocates a handle and enqueues p.grad ...
PushPullGradAsync ==
  /\ starting = "acquire"
  /\ param \notin locks
  /\ locks'    = locks \cup {param}
  /\ results'  = Append(results, "pending")
  /\ pushed'   = Append(pushed, grad[param])
  /\ starting' = "put"
  /\ UNCHANGED <<pc, step, pass, fwd, bwd, param, handles, delay, event_queue, grad, thread, computed, updated>>

\* ... and tells the poller; the caller records the handle.
PutEvent ==
  /\ starting = "put"
  /\ event_queue' = Append(event_queue, <<param, Len(results)>>)
  /\ handles'     = [handles EXCEPT ![param] = {Len(results)}]
  /\ starting'    = "no"
  /\ UNCHANGED <<pc, step, pass, fwd, bwd, param, delay, locks, results, grad, thread, history>>

\* The backward pass is over.
EndBackward ==
  /\ pc = "backward" /\ starting = "no" /\ bwd = {}
  /\ IF pass < Passes THEN pass' = pass + 1 /\ pc' = "batch"
                      ELSE pass' = 1 /\ pc' = "step"
  /\ UNCHANGED <<step, fwd, bwd, starting, param, handles, shared, thread, history>>

\* Mutant: parameters without a handle are not pushed.
UnpushedMissing == {}

\* _synchronize: the parameters without an entry or with a handle of None.
Unpushed == {p \in Param : handles[p] \subseteq {0}}

Synchronize ==
  /\ pc = "step" /\ starting = "no"
  /\ \E p \in Unpushed : param' = p
  /\ starting' = "acquire"
  /\ UNCHANGED <<pc, step, pass, fwd, bwd, handles, shared, thread, history>>

\* step() ends, or waits for the poller if it is the last one.
Step ==
  /\ pc = "step" /\ starting = "no" /\ Unpushed = {}
  /\ IF step = FinalStep THEN pc' = "drain" /\ UNCHANGED step
                         ELSE pc' = "batch" /\ step' = step + 1
  /\ UNCHANGED <<pass, fwd, bwd, starting, param, handles, shared, thread, history>>

\* The last step() finds the event queue empty ...
Drained ==
  /\ pc = "drain" /\ event_queue = <<>>
  /\ pc' = "finish"
  /\ UNCHANGED <<step, pass, fwd, bwd, starting, param, handles, shared, thread, history>>

\* ... sends the end marker ...
PutSentinel ==
  /\ pc = "finish"
  /\ event_queue' = Append(event_queue, Sentinel)
  /\ pc' = "join"
  /\ UNCHANGED <<step, pass, fwd, bwd, starting, param, handles, delay, locks, results, grad, thread, history>>

\* ... and joins the poller.
Join ==
  /\ pc = "join" /\ poller = "exited"
  /\ pc' = "done"
  /\ step' = step + 1
  /\ UNCHANGED <<pass, fwd, bwd, starting, param, handles, shared, thread, history>>

-----------------------------------------------------------------------------
(* The poller thread, and the completion of push_pulls *)

\* A push_pull is done: StartTask's callback averages and marks the handle.
MarkDone(h) ==
  /\ results[h] = "pending"
  /\ results' = [results EXCEPT ![h] = "done"]
  /\ UNCHANGED <<trainer, handles, delay, locks, event_queue, grad, thread, history>>

GetEvent ==
  /\ poller = "get" /\ event_queue # <<>>
  /\ event_queue' = Tail(event_queue)
  /\ event'  = Head(event_queue)
  /\ poller' = IF Head(event_queue) = Sentinel THEN "exited" ELSE "poll"
  /\ UNCHANGED <<trainer, handles, delay, locks, results, grad, history>>

\* poll(handle) is false: the event goes to the end of the queue.
PutBack ==
  /\ poller = "poll" /\ results[event[2]] = "pending"
  /\ event_queue' = Append(event_queue, event)
  /\ poller' = "get"
  /\ UNCHANGED <<trainer, handles, delay, locks, results, grad, event, history>>

ResetDelay(p) == [delay EXCEPT ![p] = Passes]

\* _sgd, _adam or _rmsprop: p.data is updated with all that p.grad holds.
Update(p) == [updated EXCEPT ![p] = @ \cup grad[p]]

\* poll(handle) is true: synchronize clears the handle, the delay is reset and
\* the optimizer updates the parameter.
ApplyUpdate ==
  LET p == event[1]
  IN  /\ poller = "poll" /\ results[event[2]] = "done"
      /\ results' = [results EXCEPT ![event[2]] = "cleared"]
      /\ delay'   = ResetDelay(p)
      /\ updated' = Update(p)
      /\ poller'  = "release"
      /\ UNCHANGED <<trainer, handles, locks, event_queue, grad, event, pushed, computed>>

\* Mutant: the gradient is kept.
ZeroOneGradNot(p) == grad

ZeroOneGrad(p) == [grad EXCEPT ![p] = {}]

\* The gradient is cleared and the parameter is free for the next forward pass.
Release ==
  /\ poller = "release"
  /\ grad'   = ZeroOneGrad(event[1])
  /\ locks'  = locks \ {event[1]}
  /\ poller' = "get"
  /\ UNCHANGED <<trainer, handles, delay, event_queue, results, event, history>>

-----------------------------------------------------------------------------
Terminated == pc = "done" /\ UNCHANGED vars

Trainer ==
  \/ StepZero \/ CallModel \/ EndBackward \/ Synchronize \/ Step
  \/ \E p \in Param : PreForwardHook(p) \/ Hook(p)
  \/ PushPullGradAsync \/ PutEvent \/ Drained \/ PutSentinel \/ Join

Poll == GetEvent \/ PutBack \/ ApplyUpdate \/ Release

Next == Trainer \/ Poll \/ (\E h \in DOMAIN results : MarkDone(h)) \/ Terminated

Spec == Init /\ [][Next]_vars

-----------------------------------------------------------------------------
(* Properties *)

\* The event of a push_pull of p that was started and is not yet applied.
Outstanding(p, h) ==
  \/ \E i \in DOMAIN event_queue : event_queue[i] = <<p, h>>
  \/ poller = "poll" /\ event = <<p, h>>
  \/ starting = "put" /\ param = p /\ h = Len(results)

\* The gradient is reduced in place, so nothing may touch p.grad from the
\* push_pull (cross_barrier.py:153) to the update (line 169): the next backward
\* pass of p comes after its forward pass, which waits for the lock.
InFlightUntouched ==
  \A p \in Param, h \in DOMAIN results : Outstanding(p, h) => grad[p] = pushed[h]

\* "Maintaining correct dependencies" (cross_barrier.py:30): a module that has run
\* its forward pass in this step has seen every gradient its parameters
\* contributed in earlier steps, although step() did not wait for them.
ForwardSeesUpdates ==
  \A p \in Param :
    (pc = "forward" /\ p \in bwd \ fwd) \/ (pc = "backward" /\ p \in bwd) =>
      {c \in computed[p] : c[1] < step} \subseteq updated[p]

\* An update consists of the gradients of one step only, all of those the
\* backward passes have computed, and none is used twice: accumulation, zeroing and
\* the delay of the push_pull agree over several passes.
UpdatesOneStep ==
  \A p \in Param : updated'[p] # updated[p] =>
    \E s \in 1..FinalStep :
      /\ grad[p] = {c \in computed[p] : c[1] = s}
      /\ grad[p] \cap updated[p] = {}

\* No assertion of the hook (torch/__init__.py:144-152) fails, and the handle that
\* the poller polls has not been cleared (handle_manager.cc:36).
NoException ==
  /\ \A p \in Param : pc = "backward" /\ starting = "no" /\ p \in bwd => delay[p] > 0
  /\ poller = "poll" => results[event[2]] # "cleared"

\* A parameter is locked exactly while an event of it is outstanding, which is one
\* at most: the poller never releases a lock it does not own, and no event is lost
\* while the poller runs.
LockMeansOutstanding ==
  \A p \in Param :
    LET open == {h \in DOMAIN results : Outstanding(p, h) \/ (poller = "release" /\ event = <<p, h>>)}
    IN  \/ p \in locks /\ \E h \in open : open = {h}
        \/ p \notin locks /\ open = {}

\* "if it is the final training step, wait for the completion of all tensors"
\* (cross_barrier.py:81): after the last step() every gradient has been applied.
FinalStepComplete ==
  pc = "done" => \A p \in Param : updated[p] = computed[p]
=============================================================================
