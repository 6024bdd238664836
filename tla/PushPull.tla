------------------------------ MODULE PushPull ------------------------------
(***************************************************************************)
(* What a BytePS server promises the workers, per key and without its      *)
(* engine: a key is usable once every worker has declared it, and then     *)
(* every push_pull of it is a round of a barrier.  A worker returns from   *)
(* round r only when every worker has contributed to round r.              *)
(***************************************************************************)
EXTENDS Naturals

CONSTANTS Worker, Key

VARIABLES
  ready,  \* ready[k]: every worker has declared k
  inside, \* inside[w][k]: w has called push_pull and has not returned
  round   \* round[w][k]: the number of calls w has made

avars == <<ready, inside, round>>

AInit ==
  /\ ready  = [k \in Key |-> FALSE]
  /\ inside = [w \in Worker |-> [k \in Key |-> FALSE]]
  /\ round  = [w \in Worker |-> [k \in Key |-> 0]]

Declare(k) ==
  /\ ~ready[k]
  /\ ready' = [ready EXCEPT ![k] = TRUE]
  /\ UNCHANGED <<inside, round>>

Call(w, k) ==
  /\ ready[k]
  /\ ~inside[w][k]
  /\ inside' = [inside EXCEPT ![w][k] = TRUE]
  /\ round'  = [round EXCEPT ![w][k] = @ + 1]
  /\ UNCHANGED ready

\* The workers in S return together: one engine step answers every pull it finds queued.
Return(S, k) ==
  /\ \A w \in S : inside[w][k] /\ \A v \in Worker : round[v][k] >= round[w][k]
  /\ inside' = [w \in Worker |-> [inside[w] EXCEPT ![k] = IF w \in S THEN FALSE ELSE @]]
  /\ UNCHANGED <<ready, round>>

ANext ==
  \E k \in Key :
    \/ Declare(k)
    \/ \E w \in Worker : Call(w, k)
    \/ \E S \in SUBSET Worker : Return(S, k)

ASpec == AInit /\ [][ANext]_avars

\* No worker is left inside a round that everyone has joined.
AFairness ==
  \A w \in Worker, k \in Key :
    WF_avars(\E S \in SUBSET Worker : w \in S /\ Return(S, k))

AFairSpec == ASpec /\ AFairness
=============================================================================
