------------------------------ MODULE MCKeras ------------------------------
(***************************************************************************)
(* keras_imagenet_resnet50.py as it is: its callbacks are made without     *)
(* initial_lr, and the job is killed once and resumed.                     *)
(***************************************************************************)
EXTENDS KerasTraining, TLC

CONSTANTS w1, w2

Resuming ==
  {[correction |-> TRUE, given |-> FALSE, graph |-> TRUE, aggregates |-> TRUE,
    params |-> [steps |-> 2, samples |-> 0, batch_size |-> 0],
    logs   |-> (w1 :> <<1, 2>>) @@ (w2 :> <<2, 1>>)]}
=============================================================================
