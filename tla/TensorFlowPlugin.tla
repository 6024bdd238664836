-------------------------- MODULE TensorFlowPlugin --------------------------
(***************************************************************************)
(* The TensorFlow plugin, src/byteps/tensorflow, under the programs        *)
(* tensorflow_mnist.py ("session": DistributedOptimizer and                *)
(* BroadcastGlobalVariablesHook in a monitored session) and                *)
(* tensorflow2_mnist.py ("function": DistributedGradientTape in a          *)
(* tf.function that broadcasts the variables after the first batch).       *)
(*                                                                         *)
(* A tensor is known to the servers by its key, the number of tensors      *)
(* declared before it in the process.  The plugin declares a tensor when   *)
(* its operation is put into the graph; TensorFlow then runs the           *)
(* operations of a graph in an order of its own in every process.  The     *)
(* rounding of fp16 compression is left out; slots are variables as the    *)
(* others.  Training with BYTEPS_ENABLE_ASYNC is left out: the servers     *)
(* fail at the first pull in that mode (server.cc:62).                     *)
(***************************************************************************)
EXTENDS Collective, SequencesExt

CONSTANTS
  NumVar,    \* the variables are 1..NumVar, in the order of tf.global_variables
  Root,      \* root_rank
  LastStep,  \* last_step of StopAtStepHook
  Scripts    \* [api: {"session", "function"}, passes, restored: Nat, none: SUBSET 1..NumVar]

VARIABLES
  script,     \* the program; none: the variables without gradient; restored: the step in the checkpoint of Root
  pc,         \* pc[w]: where process w is
  step,       \* step[w]: its variable global_step
  run,        \* run[w]: what the current run of the graph executes, "broadcast", "train" or "none"
  ready,      \* ready[w]: the variables whose operation has not started in this run
  waiting,    \* waiting[w]: those whose push_pull has started: variable -> its number
  declared,   \* declared[w]: the names declared, in order
  weight,     \* weight[w][v]: the content of a variable
  sent        \* the push_pulls by key

vars == <<script, pc, step, run, ready, waiting, declared, weight, sent>>

Var        == 1..NumVar
GlobalStep == NumVar + 1
Session    == script.api = "session"
Initial(w, v) == <<w, v, 0>>
Trained    == Var \ script.none

\* Only Root has a checkpoint directory, and restores from it.
Init ==
  /\ script   \in Scripts
  /\ pc       = [w \in Worker |-> "build"]
  /\ step     = [w \in Worker |-> IF w = Root THEN script.restored ELSE 0]
  /\ run      = [w \in Worker |-> "none"]
  /\ ready    = [w \in Worker |-> {}]
  /\ waiting  = [w \in Worker |-> <<>>]
  /\ declared = [w \in Worker |-> <<>>]
  /\ weight   = [w \in Worker |-> [v \in Var |-> Once(Initial(w, v))]]
  /\ sent     = [w \in Worker |-> [k \in 1..(2 * NumVar + 1) |-> <<>>]]

-----------------------------------------------------------------------------
(* Construction of the graph *)

\* What DistributedOptimizer refuses.
Refused == Session /\ script.passes > 1

Ordered(kind, V) ==
  LET s == SetToSortSeq(V, <) IN [i \in DOMAIN s |-> <<kind, s[i]>>]

\* broadcast_variables broadcasts nothing in a single process.
Broadcasted == IF Size <= 1 THEN {} ELSE IF Session THEN Var \cup {GlobalStep} ELSE Var

\* compute_gradients and gradient() push nothing in a single process.
Pushed == IF Size > 1 THEN Trained ELSE {}

\* minimize() or the tracing of the function, then the hook's begin().
Build(w) ==
  /\ pc[w] = "build" /\ ~Refused
  /\ declared' = [declared EXCEPT ![w] = Ordered("gradient", Pushed) \o Ordered("broadcast", Broadcasted)]
  /\ pc' = [pc EXCEPT ![w] = IF Session THEN "start" ELSE "train"]
  /\ UNCHANGED <<script, step, run, ready, waiting, weight, sent>>

\* The ValueError of DistributedOptimizer.
Refuse(w) ==
  /\ pc[w] = "build" /\ Refused
  /\ pc' = [pc EXCEPT ![w] = "done"]
  /\ UNCHANGED <<script, step, run, ready, waiting, declared, weight, sent>>

Key(w, kind, v) == CHOOSE k \in DOMAIN declared[w] : declared[w][k] = <<kind, v>>

-----------------------------------------------------------------------------
(* Runs of the graph *)

\* The hook's after_create_session, or broadcast_variables in the first call of the function.
RunBroadcast(w) ==
  /\ pc[w] \in {"start", "first"}
  /\ run'   = [run EXCEPT ![w] = "broadcast"]
  /\ ready' = [ready EXCEPT ![w] = Broadcasted]
  /\ pc'    = [pc EXCEPT ![w] = "running"]
  /\ UNCHANGED <<script, step, waiting, declared, weight, sent>>

\* run(train_op), or a call of the function.
RunTrain(w) ==
  /\ pc[w] = "train" /\ step[w] < LastStep
  /\ run'   = [run EXCEPT ![w] = "train"]
  /\ ready' = [ready EXCEPT ![w] = Trained]
  /\ pc'    = [pc EXCEPT ![w] = "running"]
  /\ UNCHANGED <<script, step, waiting, declared, weight, sent>>

Stop(w) ==
  /\ pc[w] = "train" /\ step[w] >= LastStep
  /\ pc' = [pc EXCEPT ![w] = "done"]
  /\ UNCHANGED <<script, step, run, ready, waiting, declared, weight, sent>>

Gradient(w, v) == Once(<<w, v, step[w] + 1>>)

StartPush(w, v, kind, t) ==
  /\ ready'   = [ready EXCEPT ![w] = @ \ {v}]
  /\ sent'    = Push(sent, w, Key(w, kind, v), t)
  /\ waiting' = [waiting EXCEPT ![w] = @ @@ (v :> LastCall(sent', w, Key(w, kind, v)))]
  /\ UNCHANGED <<script, pc, run, declared>>

\* The other processes subtract the variable from itself first.
Zeroed(w, v) == IF w = Root THEN weight[w][v] ELSE Zero

\* broadcast of a variable.
StartBroadcast(w, v) ==
  /\ run[w] = "broadcast" /\ v \in ready[w] \cap Var
  /\ weight' = [weight EXCEPT ![w][v] = Zeroed(w, v)]
  /\ StartPush(w, v, "broadcast", weight'[w][v])
  /\ UNCHANGED step

Steps       == <<"steps", GlobalStep, 0>>
AsTensor(n) == IF n = 0 THEN Zero ELSE [c \in {Steps} |-> n]

\* broadcast of global_step: Root pushes it, the others zero.
StartBroadcastStep(w) ==
  /\ run[w] = "broadcast" /\ GlobalStep \in ready[w]
  /\ step' = [step EXCEPT ![w] = IF w = Root THEN @ ELSE 0]
  /\ StartPush(w, GlobalStep, "broadcast", AsTensor(step'[w]))
  /\ UNCHANGED weight

\* The push_pull of a gradient; without one, the gradient is applied at once.
StartGradient(w, v) ==
  /\ run[w] = "train" /\ v \in ready[w]
  /\ IF v \in Pushed
     THEN StartPush(w, v, "gradient", Gradient(w, v)) /\ UNCHANGED weight
     ELSE /\ ready'  = [ready EXCEPT ![w] = @ \ {v}]
          /\ weight' = [weight EXCEPT ![w][v] = @ (+) Gradient(w, v)]
          /\ UNCHANGED <<script, pc, run, waiting, declared, sent>>
  /\ UNCHANGED step

Returned(w, v) ==
  /\ waiting' = [waiting EXCEPT ![w] = [u \in DOMAIN @ \ {v} |-> @[u]]]
  /\ UNCHANGED <<script, pc, run, ready, declared, sent>>

\* The assignment of broadcast_variables.
EndBroadcast(w, v) ==
  /\ run[w] = "broadcast" /\ v \in DOMAIN waiting[w]
  /\ LET k == Key(w, "broadcast", v)
     IN  /\ Finished(sent, k, waiting[w][v])
         /\ IF v = GlobalStep
            THEN step' = [step EXCEPT ![w] = CopiesIn(Steps, Summed(sent, k, waiting[w][v]))] /\ UNCHANGED weight
            ELSE weight' = [weight EXCEPT ![w][v] = Summed(sent, k, waiting[w][v])] /\ UNCHANGED step
  /\ Returned(w, v)

\* push_pull divides by size() in the framework.
Reduced(k, n) == Divide(Summed(sent, k, n), Size)

\* The average gradient is applied.
EndGradient(w, v) ==
  /\ run[w] = "train" /\ v \in DOMAIN waiting[w]
  /\ LET k == Key(w, "gradient", v)
     IN  /\ Finished(sent, k, waiting[w][v])
         /\ weight' = [weight EXCEPT ![w][v] = @ (+) Reduced(k, waiting[w][v])]
  /\ Returned(w, v)
  /\ UNCHANGED step

EndRun(w) ==
  /\ pc[w] = "running" /\ ready[w] = {} /\ DOMAIN waiting[w] = {}
  /\ LET first == ~Session /\ run[w] = "train" /\ step[w] = 0
     IN  pc' = [pc EXCEPT ![w] = IF first THEN "first" ELSE "train"]
  /\ step' = [step EXCEPT ![w] = IF run[w] = "train" THEN @ + 1 ELSE @]
  /\ run'  = [run EXCEPT ![w] = "none"]
  /\ UNCHANGED <<script, ready, waiting, declared, weight, sent>>

-----------------------------------------------------------------------------
Terminated == (\A w \in Worker : pc[w] = "done") /\ UNCHANGED vars

Process(w) ==
  \/ Build(w) \/ Refuse(w) \/ RunBroadcast(w) \/ RunTrain(w) \/ Stop(w)
  \/ (\E v \in Var : StartBroadcast(w, v) \/ StartGradient(w, v) \/ EndGradient(w, v))
  \/ StartBroadcastStep(w)
  \/ (\E v \in Var \cup {GlobalStep} : EndBroadcast(w, v))
  \/ EndRun(w)

Next == (\E w \in Worker : Process(w)) \/ Terminated

Spec == Init /\ [][Next]_vars

-----------------------------------------------------------------------------
(* Properties *)

Between(w) == pc[w] \in {"train", "done"} /\ ~Refused

Origin(w) == IF step[w] = 0 /\ ~Session THEN w ELSE Root

Averages(v, first, last) ==
  [c \in {<<u, v, s>> : u \in Worker, s \in first..last} |-> Scale \div Size]

\* Between two steps every variable is the one of the root at the start plus the average
\* gradients of the steps since, in whatever order the processes ran the operations of
\* their graphs: each operation meets the operations for the same variable under its key
\* (ops.py:110-135, 150-191), the other processes contribute nothing to a broadcast, and
\* an update is an average (__init__.py:66-81).  In a function the first step is taken
\* before the broadcast, with the average gradient but from the variables of the process.
VariablesAgree ==
  \A w \in Worker : Between(w) =>
    \A v \in Var :
      weight[w][v] = Once(Initial(Origin(w), v))
                       (+) (IF v \in Trained
                            THEN Averages(v, IF Session THEN script.restored + 1 ELSE 1, step[w])
                            ELSE Zero)
=============================================================================
