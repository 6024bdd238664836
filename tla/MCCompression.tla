--------------------------- MODULE MCCompression ---------------------------
(***************************************************************************)
(* Two workers push compressed tensors of six elements with the same       *)
(* compressor, for one round.                                              *)
(***************************************************************************)
EXTENDS Compression

CONSTANTS w1, w2

TwoWorkers == {w1, w2}

Codec(type, k) == [type |-> type, k |-> k, scaling |-> FALSE, natural |-> FALSE, width |-> 16]

OneRound ==
  {[workers |-> {w1, w2}, codec |-> Codec("onebit", 1), ef |-> FALSE, mu |-> 0, rates |-> <<1>>, lr_s |-> "none",
    grads |-> (w1 :> <<<<1, -1, 1, -1, 1, -1>>>>) @@ (w2 :> <<<<-3, -3, -3, 3, 3, 3>>>>)]}
=============================================================================
