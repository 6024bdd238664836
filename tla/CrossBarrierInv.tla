--------------------------- MODULE CrossBarrierInv ---------------------------
(***************************************************************************)
(* The inductive invariant of CrossBarrier: what the two threads, the      *)
(* locks, the event queue and the gradients have to do with each other.    *)
(* It says why a gradient under reduction is not touched although step()   *)
(* does not wait, and why every update is that of one step.                *)
(***************************************************************************)
EXTENDS CrossBarrier

\* A parameter is not None, and the optimizer is told of a step and of a pass at least.
CrossAssumption ==
  /\ NoParam \notin Param
  /\ FinalStep \in Nat \ {0}
  /\ Passes \in Nat \ {0}

Events == Param \X (Nat \ {0})

Gradients == SUBSET (Nat \X Nat)

\* The type of the state.
CrossTypeOK ==
  /\ pc \in {"init", "batch", "forward", "backward", "step", "drain", "finish", "join", "done"}
  /\ step \in Nat /\ pass \in 1..Passes
  /\ fwd \subseteq Param /\ bwd \subseteq Param
  /\ starting \in {"no", "acquire", "put"}
  /\ param \in Param \cup {NoParam}
  /\ handles \in [Param -> SUBSET Nat]
  /\ delay \in [Param -> Int]
  /\ locks \subseteq Param
  /\ event_queue \in Seq(Events \cup {Sentinel})
  /\ poller \in {"get", "poll", "release", "exited"}
  /\ event \in Events \cup {Sentinel}
  /\ results \in Seq({"pending", "done", "cleared"})
  /\ grad \in [Param -> Gradients]
  /\ pushed \in Seq(Gradients)
  /\ Len(pushed) = Len(results)
  /\ computed \in [Param -> Gradients]
  /\ updated \in [Param -> Gradients]

\* A push_pull is started in the last backward pass of a step or in step(), for a
\* parameter that is through with its backward pass and has no handle.
TrainerInv ==
  /\ pc = "init" => step = 0
  /\ pc \notin {"init", "done"} => step \in 1..FinalStep
  /\ pc \notin {"batch", "forward", "backward"} => pass = 1
  /\ pc \notin {"forward", "backward"} => bwd = {}
  /\ starting # "no" =>
       /\ pc = "step" \/ (pc = "backward" /\ pass = Passes)
       /\ param \in Param \ bwd
       /\ handles[param] \subseteq {0}
  /\ pc \in {"drain", "finish", "join", "done"} => Unpushed = {}

\* The poller works on an event.
Working == poller \in {"poll", "release"}

\* Two events have neither their parameter nor their handle in common.
Apart(e, f) == e[1] # f[1] /\ e[2] # f[2]

\* The push_pull of event e is under way: its parameter is locked, its handle not
\* cleared, and p.grad as it was handed over.
UnderWay(e) ==
  /\ e[1] \in locks
  /\ e[2] \in 1..Len(results)
  /\ results[e[2]] # "cleared"
  /\ grad[e[1]] = pushed[e[2]]

\* The event that _push_pull_grad_async is about to put.
StartedEvent == <<param, Len(results)>>

\* A parameter has one event at most and a handle is in one event at most, in the
\* queue, with the poller, or about to be put.
EventInv ==
  /\ \A i \in 1..Len(event_queue) : event_queue[i] # Sentinel =>
       /\ UnderWay(event_queue[i])
       /\ \A j \in 1..Len(event_queue) : i # j => Apart(event_queue[i], event_queue[j])
       /\ Working => Apart(event_queue[i], event)
       /\ starting = "put" => Apart(event_queue[i], StartedEvent)
  /\ Working =>
       /\ event[1] \in locks
       /\ event[2] \in 1..Len(results)
       /\ starting = "put" => Apart(event, StartedEvent)
  /\ poller = "poll" => UnderWay(event)
  /\ starting = "put" => UnderWay(StartedEvent)

\* A locked parameter has an event.
LockInv ==
  \A p \in locks :
    \/ \E i \in 1..Len(event_queue) : event_queue[i][1] = p
    \/ Working /\ event[1] = p
    \/ starting = "put" /\ param = p

\* p has run its forward pass and not its backward pass.
BackwardAhead(p) == p \in bwd /\ (pc = "backward" \/ (pc = "forward" /\ p \notin fwd))

\* The parameters whose update is made and not yet released.
Releasing(p) == poller = "release" /\ event[1] = p

\* The hook of p may still run in this step.
HookAhead(p) == pc \in {"batch", "forward"} \/ (pc = "backward" /\ (p \in bwd \/ pass < Passes))

\* The passes of this step in which the hook of p may still run, at most.
PassesAhead(p) ==
  IF pc \in {"batch", "forward"} \/ (pc = "backward" /\ p \in bwd) THEN Passes - pass + 1
  ELSE IF pc = "backward" THEN Passes - pass
  ELSE 0

\* The gradients of p: all that was computed is in the parameter or in p.grad, which
\* holds gradients of one step, not yet applied ones until the poller applies them, and
\* of this step unless p is locked; gradients that no event carries belong to a
\* parameter that step() will push.
GradientInv(p) ==
  /\ computed[p] = updated[p] \cup grad[p]
  /\ \A c \in computed[p] : c[1] \in 1..step /\ c[1] <= FinalStep
  /\ \A c, d \in grad[p] : c[1] = d[1]
  /\ IF Releasing(p) THEN grad[p] \subseteq updated[p]
                     ELSE \A c \in updated[p], d \in grad[p] : c[1] # d[1]
  /\ p \notin locks => \A c \in grad[p] : c[1] = step
  /\ ~(handles[p] \subseteq {0}) => p \in locks \/ grad[p] = {}
  /\ BackwardAhead(p) => p \notin locks /\ handles[p] = {}
  /\ HookAhead(p) =>
       /\ \A c \in updated[p] : c[1] < step
       /\ p \in locks => \A c \in grad[p] : c[1] < step

\* The delay of p covers the hooks to come, so that it runs down in the last pass of a
\* step only, and it is what it was at the start when p has no gradient.
DelayInv(p) ==
  /\ Releasing(p) => delay[p] = Passes
  /\ p \notin locks =>
       /\ delay[p] >= PassesAhead(p)
       /\ ~(starting = "acquire" /\ param = p) => delay[p] >= 1
       /\ grad[p] = {} => delay[p] = Passes

\* The inductive invariant of the cross barrier (cross_barrier.py:60-201).
CrossInv ==
  /\ CrossTypeOK
  /\ TrainerInv
  /\ EventInv
  /\ LockInv
  /\ \A p \in Param : GradientInv(p) /\ DelayInv(p)
=============================================================================
