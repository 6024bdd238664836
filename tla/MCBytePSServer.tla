--------------------------- MODULE MCBytePSServer ---------------------------
(* Instances of BytePSServer for TLC. *)
EXTENDS BytePSServerData

\* Keys of one length: GetThreadID deals them out to the threads in turn.
KeyLenDef == [k \in Key |-> 1]
=============================================================================
