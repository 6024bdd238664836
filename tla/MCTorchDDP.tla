---------------------------- MODULE MCTorchDDP ----------------------------
(* TorchDDP with a branch that one process skips in the first pass and the *)
(* other does not; both call synchronize() after backward().               *)
EXTENDS TorchDDP, TLC

CONSTANTS w1, w2, p1, p2

BranchScripts ==
  {[used |-> (w1 :> <<{p1}, Param>>) @@ (w2 :> <<Param, Param>>), quiet |-> <<FALSE, FALSE>>,
    call |-> TRUE, buffers |-> FALSE]}
=============================================================================
