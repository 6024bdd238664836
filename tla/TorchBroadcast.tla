--------------------------- MODULE TorchBroadcast ---------------------------
(***************************************************************************)
(* broadcast_parameters, broadcast_optimizer_state and broadcast_object of *)
(* src/byteps/torch/__init__.py, in the order in which the example scripts *)
(* call them before training.  A broadcast is a push_pull to which every   *)
(* process but the root contributes zeros; the tensors are broadcast one   *)
(* after the other, and each one is waited for.  The variants of           *)
(* src/byteps/misc/imagenet18/__init__.py broadcast every scalar of the    *)
(* optimizer as a tensor, before the tensors of its state.                 *)
(***************************************************************************)
EXTENDS Collective, SequencesExt

CONSTANTS
  Param,    \* the parameters, 1..n in the order of the layers
  Root,     \* the process root_rank
  Scripts   \* [pickles: BOOLEAN, dict: BOOLEAN, order: process -> sequence of Param, resumed: BOOLEAN,
            \*  decay: BOOLEAN, length: process -> Nat]

VARIABLES
  script,   \* the script: whether scalars are pickled, whether the parameters come as a dict, the order in which each
            \* process lists them, whether the root has loaded a checkpoint of the optimizer,
            \* whether the optimizer decays weights, and the length of each pickled object
  pc,       \* pc[w]: the call that process w is in
  queue,    \* queue[w]: the names that the current broadcast_parameters has still to do
  waiting,  \* waiting[w]: the first of the queue has been pushed
  tensor,   \* tensor[w][n]: the content of the tensor that w broadcasts under n
  option,   \* option[w]: the scalars of the optimizer (learning rate ...)
  bytes,    \* bytes[w]: the length of the tensor that holds the pickled scalars
  sent      \* the push_pulls by name

vars == <<script, pc, queue, waiting, tensor, option, bytes, sent>>

Parameters == {<<"Parameter", p>> : p \in Param}
Momenta    == {<<"Momentum", p>> : p \in Param}
ObjectSize == <<"Size", 0>>
ObjectData == <<"Object", 0>>
ScalarTensor == <<"Scalar", 0>>
Names      == Parameters \cup Momenta \cup {ObjectSize, ObjectData, ScalarTensor}
Absent     == <<>>   \* no momentum yet

Initial(w, x) == <<w, x>>

\* Mutant: the items of a dict are taken as they come.
ItemsUnsorted(w) == script.order[w]

\* The list that broadcast_parameters makes of its argument: the items of a dict
\* sorted by name, a list as it is.
Items(w) == IF script.dict THEN SetToSortSeq(Param, <) ELSE script.order[w]

Listed(kind, s) == [i \in DOMAIN s |-> <<kind, s[i]>>]

Init ==
  /\ script  \in Scripts
  /\ pc      = [w \in Worker |-> "parameters"]
  /\ queue   = [w \in Worker |-> Listed("Parameter", Items(w))]
  /\ waiting = [w \in Worker |-> FALSE]
  /\ tensor  = [w \in Worker |-> [n \in Names |->
                  IF n \in Momenta /\ ~(script.resumed /\ w = Root) THEN Absent ELSE Once(Initial(w, n))]]
  /\ option  = [w \in Worker |-> w]
  /\ bytes   = [w \in Worker |-> 0]
  /\ sent    = [w \in Worker |-> [n \in Names |-> <<>>]]

-----------------------------------------------------------------------------
\* Mutant: no process fills its tensor with zeros.
FilledNot(w, n) == tensor[w][n]

\* What a process pushes: zeros, except the root.
Filled(w, n) == IF w = Root THEN tensor[w][n] ELSE Zero

\* One round of the loop of broadcast_parameters: the others fill with zeros,
\* and the tensor is pushed.
Broadcast(w) ==
  /\ queue[w] # <<>> /\ ~waiting[w]
  /\ LET n == Head(queue[w])
     IN  /\ tensor' = [tensor EXCEPT ![w][n] = Filled(w, n)]
         /\ sent'   = Push(sent, w, n, tensor'[w][n])
  /\ waiting' = [waiting EXCEPT ![w] = TRUE]
  /\ UNCHANGED <<script, pc, queue, option, bytes>>

\* synchronize(handle): the sum of all contributions is the tensor of the root.
BroadcastReturns(w) ==
  /\ waiting[w]
  /\ LET n == Head(queue[w])
     IN  /\ Finished(sent, n, LastCall(sent, w, n))
         /\ tensor' = [tensor EXCEPT ![w][n] = Summed(sent, n, LastCall(sent, w, n))]
  /\ waiting' = [waiting EXCEPT ![w] = FALSE]
  /\ queue'   = [queue EXCEPT ![w] = Tail(@)]
  /\ UNCHANGED <<script, pc, option, bytes, sent>>

Returned(w, from) == pc[w] = from /\ queue[w] = <<>>

\* The step of a plain optimizer with zero gradients: it makes the momenta, zero unless
\* the optimizer decays weights; then the decay is in them, and has moved the weights.
Stepped(w) ==
  LET decayed(p) == IF script.decay THEN Divide(tensor[w][<<"Parameter", p>>], 2) ELSE Zero
  IN  [n \in Names |->
         CASE n \in Momenta                     -> decayed(n[2])
           [] n \in Parameters /\ script.decay -> decayed(n[2])
           [] OTHER                             -> tensor[w][n]]

\* The list for broadcast_parameters: the tensors of the state, numbered in the order
\* of the parameters; without pickling, the scalars wrapped in tensors before them.
StateTensors == (IF script.pickles THEN <<>> ELSE <<ScalarTensor>>) \o Listed("Momentum", SetToSortSeq(Param, <))

\* broadcast_optimizer_state: a process whose optimizer has no state makes one by
\* a step; then the tensors are broadcast.
OptimizerState(w) ==
  /\ Returned(w, "parameters")
  /\ tensor' = [tensor EXCEPT ![w] = IF \A n \in Momenta : @[n] = Absent THEN Stepped(w) ELSE @]
  /\ queue'  = [queue EXCEPT ![w] = StateTensors]
  /\ pc'     = [pc EXCEPT ![w] = "state"]
  /\ UNCHANGED <<script, waiting, option, bytes, sent>>

\* broadcast_object of the scalars: first the length of the root's pickle ...
ObjectLength(w) ==
  /\ Returned(w, "state") /\ script.pickles
  /\ queue' = [queue EXCEPT ![w] = <<ObjectSize>>]
  /\ pc'    = [pc EXCEPT ![w] = "size"]
  /\ UNCHANGED <<script, waiting, tensor, option, bytes, sent>>

\* The process whose tensor n has been received.
Received(w, n) == CHOOSE r \in Worker : Initial(r, n) \in DOMAIN tensor[w][n]

\* The length of the tensor for the object: received, except on the root.
Room(w) == script.length[Received(w, ObjectSize)]

\* ... then the pickle.
ObjectContent(w) ==
  /\ Returned(w, "size")
  /\ bytes' = [bytes EXCEPT ![w] = Room(w)]
  /\ queue' = [queue EXCEPT ![w] = <<ObjectData>>]
  /\ pc'    = [pc EXCEPT ![w] = "object"]
  /\ UNCHANGED <<script, waiting, tensor, option, sent>>

\* The callbacks assign the scalars that were received.
AssignScalars(w) ==
  /\ \/ Returned(w, "object") /\ option' = [option EXCEPT ![w] = Received(w, ObjectData)]
     \/ Returned(w, "state") /\ ~script.pickles /\ option' = [option EXCEPT ![w] = Received(w, ScalarTensor)]
  /\ pc' = [pc EXCEPT ![w] = "done"]
  /\ UNCHANGED <<script, queue, waiting, tensor, bytes, sent>>

-----------------------------------------------------------------------------
Terminated == (\A w \in Worker : pc[w] = "done") /\ UNCHANGED vars

Process(w) ==
  \/ Broadcast(w) \/ BroadcastReturns(w) \/ OptimizerState(w)
  \/ ObjectLength(w) \/ ObjectContent(w) \/ AssignScalars(w)

Next == (\E w \in Worker : Process(w)) \/ Terminated

Spec == Init /\ [][Next]_vars

-----------------------------------------------------------------------------
(* Properties *)

\* Training starts from one state: a process that has finished the broadcasts has
\* the weights, the momenta and the scalars of the root, whether or not the root has
\* resumed from a checkpoint (__init__.py:268-424, "Broadcasts an optimizer state
\* from root rank to all other processes").
SameStart ==
  \A w \in Worker : pc[w] = "done" =>
    /\ \A n \in Parameters \cup Momenta : tensor[w][n] = tensor[Root][n] /\ \A c \in DOMAIN tensor[w][n] : c[1] = Root
    /\ option[w] = Root

=============================================================================
