-------------------------- MODULE MCTorchBroadcast --------------------------
(* TorchBroadcast after the root has loaded a checkpoint, as the ImageNet  *)
(* example does: an optimizer with weight decay.                           *)
EXTENDS TorchBroadcast

ResumedScripts ==
  {[pickles |-> TRUE, dict |-> TRUE, order |-> [w \in Worker |-> <<1, 2>>], resumed |-> TRUE, decay |-> TRUE,
    length |-> [w \in Worker |-> 1]]}
=============================================================================
