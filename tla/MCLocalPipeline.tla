-------------------------- MODULE MCLocalPipeline --------------------------
(* Small machines for TLC: one or two tensors of one or two partitions. *)
EXTENDS LocalPipeline, TLC

CONSTANTS t1, t2

OnePart   == t1 :> <<0>>
TwoParts  == t1 :> <<0, 1>>
TwoTensors == (t1 :> <<0>>) @@ (t2 :> <<10, 11>>)
UnitLen   == [k \in Key |-> 1]
Rising    == [t \in Tensor |-> IF t = t1 THEN 0 ELSE 1]
=============================================================================
