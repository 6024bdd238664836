-------------------------- MODULE BytePSServerInv --------------------------
(***************************************************************************)
(* The inductive invariant behind RoundBarrier, PullBookkeeping and the    *)
(* refinement of PushPull.  With respect to the last round e that every    *)
(* worker has pushed, a key is in one of three states: its ALL_RECV is     *)
(* pending, its responses are being given out (finished), or neither.      *)
(***************************************************************************)
EXTENDS BytePSServer

\* The workers whose requests are buffered for k.
InRequest(k) == {request[k][i] : i \in 1..Len(request[k])}

IsAllRecv(t, i, k) == engine_queue[t][i].ops = "ALL_RECV" /\ engine_queue[t][i].key = k

AllRecvQueued(t, k) == \E i \in 1..Len(engine_queue[t]) : IsAllRecv(t, i, k)

\* ALL_RECV of k is queued or in its first half.
AllRecvPending(k) == \E t \in Thread : k \in busy[t] \/ AllRecvQueued(t, k)

Finished(k) == \E t \in Thread : is_push_finished[t][k]

\* A sender is buffered once, and a full buffer is emptied in the same step.
RequestInv(k) ==
  /\ Len(request[k]) < NumWorkers
  /\ \A i, j \in 1..Len(request[k]) : request[k][i] = request[k][j] => i = j

\* Everything of k lives on the thread k is cached on.
RouteInv(k) ==
  \A t \in Thread : hash_cache[k] # t =>
    /\ ~is_push_finished[t][k]
    /\ seen_sender[t][k] = {}
    /\ \A w \in Worker : q_pull_reqmeta[t][k][w] = 0
    /\ k \notin busy[t]
    /\ ~AllRecvQueued(t, k)

\* At most one ALL_RECV of k is queued.
QueuedOnce(t, k) ==
  \A i, j \in 1..Len(engine_queue[t]) : IsAllRecv(t, i, k) /\ IsAllRecv(t, j, k) => i = j

\* At most one ALL_RECV of k is pending.
AllRecvOnce(k) ==
  \A t \in Thread :
    /\ k \in busy[t] => busy[t] = {k} /\ ~AllRecvQueued(t, k)
    /\ QueuedOnce(t, k)

CountInv(k) ==
  \A t \in Thread :
    /\ pull_cnt[t][k] = Cardinality(seen_sender[t][k])
    /\ ~is_push_finished[t][k] => seen_sender[t][k] = {}

\* A pull is queued exactly while its worker waits.
WaitingInv(k) ==
  \A w \in Worker :
    /\ phase[w][k] = "waiting" => hash_cache[k] \in Thread /\ q_pull_reqmeta[hash_cache[k]][k][w] = 1
    /\ phase[w][k] # "waiting" => \A t \in Thread : q_pull_reqmeta[t][k][w] = 0

\* Before the store is allocated the workers are collecting the init pushes.
Declaring(k) ==
  /\ hash_cache[k] = NoThread
  /\ \A w \in Worker :
       /\ round[w][k] = 0
       /\ phase[w][k] = IF w \in InRequest(k) THEN "init" ELSE "start"

\* The workers in the request buffer have pushed round e + 1, the others e.
Rounds(k, e) ==
  \A w \in Worker :
    IF w \in InRequest(k)
      THEN round[w][k] = e + 1 /\ phase[w][k] \in {"pushed", "waiting"}
      ELSE round[w][k] = e

Pending(k) ==
  /\ AllRecvPending(k)
  /\ ~Finished(k)
  /\ InRequest(k) = {}
  /\ \A w \in Worker : phase[w][k] \in {"pushed", "waiting"}

Answering(k) ==
  /\ ~AllRecvPending(k)
  /\ Finished(k)
  /\ \A w \in Worker \ InRequest(k) : phase[w][k] \in {"idle", "pushed"}
  /\ seen_sender[hash_cache[k]][k] = InRequest(k) \cup {w \in Worker : phase[w][k] = "idle"}
  /\ seen_sender[hash_cache[k]][k] # Worker

Between(k) ==
  /\ ~AllRecvPending(k)
  /\ ~Finished(k)
  /\ \A w \in Worker \ InRequest(k) : phase[w][k] = "idle"

Training(k) ==
  \E e \in Round :
    /\ Rounds(k, e)
    /\ Pending(k) \/ Answering(k) \/ Between(k)
    /\ InRequest(k) # {} => hash_cache[k] \in Thread

KeyInv(k) ==
  /\ RequestInv(k)
  /\ RouteInv(k)
  /\ AllRecvOnce(k)
  /\ CountInv(k)
  /\ WaitingInv(k)
  /\ IF has_tensor[k] THEN Training(k) ELSE Declaring(k)

\* The inductive invariant: the state of every key agrees with the flags, the
\* engine queue and the workers' progress (server.cc:169-196, 337-467).
ServerInv == \A k \in Key : KeyInv(k)

\* Only a worker whose pull was answered is being sent a response.
SendingInv == \A w \in Worker, k \in Key : sending[w][k] => phase[w][k] = "idle"
=============================================================================
