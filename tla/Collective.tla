----------------------------- MODULE Collective -----------------------------
(***************************************************************************)
(* push_pull as the framework plugins call it.  A worker's calls under one *)
(* name are numbered, and the servers add up the calls with the same       *)
(* number: the call with number k is over when every worker has made its   *)
(* k-th call under that name.  This is the barrier of module PushPull,     *)
(* which the server and the devices of a machine implement.                *)
(*                                                                         *)
(* A tensor is a bag of the gradients (or initial values) summed into it,  *)
(* in units of 1/Scale: Scale copies of a gradient are that gradient once. *)
(***************************************************************************)
EXTENDS Integers, Sequences, FiniteSets, Bags, Functions

CONSTANTS
  Worker,  \* the processes, size() of them
  Scale    \* a multiple of every number a tensor is divided by

Size == Cardinality(Worker)

Zero    == EmptyBag
Once(c) == [x \in {c} |-> Scale]

Divide(t, n) == [c \in DOMAIN t |-> t[c] \div n]

Total(f) == FoldFunction(LAMBDA a, b : a (+) b, EmptyBag, f)

\* sent[w][name]: the tensors that w has given to push_pull under name, in order.
Push(sent, w, name, t) == [sent EXCEPT ![w][name] = Append(@, t)]

\* The handle of w's last call under name is its number.
LastCall(sent, w, name) == Len(sent[w][name])

Finished(sent, name, k) == \A w \in Worker : Len(sent[w][name]) >= k

Summed(sent, name, k) == Total([w \in Worker |-> sent[w][name][k]])

\* average=True: the callback divides the sum by byteps_size().
Averaged(sent, name, k) == Divide(Summed(sent, name, k), Size)
=============================================================================
