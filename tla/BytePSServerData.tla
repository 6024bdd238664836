-------------------------- MODULE BytePSServerData --------------------------
(***************************************************************************)
(* The inductive invariant behind what the store and the answers contain:  *)
(* what the engine still has to do for a key, in which order, and what the *)
(* store and the replica slots hold meanwhile.                             *)
(***************************************************************************)
EXTENDS BytePSServerInv

\* The messages of k in a queue.
WorkOf(q, k) == {m \in {q[i] : i \in 1..Len(q)} : m.key = k}

Work(t, k) == WorkOf(engine_queue[t], k)

IsData(m)    == m.ops # "ALL_RECV"
IsOpening(m) == m.ops = "COPY_FIRST" /\ m.dst = "stored"
IsPart(m)    == IsData(m) /\ m.dst = "stored"

\* The opening COPY_FIRST of a round comes first and its ALL_RECV last.
Rank(m) == IF IsOpening(m) THEN 0 ELSE IF IsData(m) THEN 1 ELSE 2

\* No message of k is queued twice, and they are in the order of their ranks.
Ordered(q, k) ==
  \A i, j \in 1..Len(q) : q[i].key = k /\ q[j].key = k =>
    /\ q[i] = q[j] => i = j
    /\ Rank(q[i]) < Rank(q[j]) => i < j

OrderInv(k) == \A t \in Thread : Ordered(engine_queue[t], k)

Busy(k) == \E t \in Thread : k \in busy[t]

\* The workers whose gradients the engine has been given and has not yet answered with.
Pushed(k) ==
  IF AllRecvPending(k) THEN Worker ELSE IF has_tensor[k] THEN InRequest(k) ELSE {}

\* Queued gradients are those of the round being collected, on the thread of the key,
\* each once for the store and once for a replica slot of its own.
WorkInv(k) ==
  \A t \in Thread :
    /\ k \in busy[t] => Work(t, k) = {}
    /\ \A m \in Work(t, k) : IsData(m) =>
         /\ hash_cache[k] = t
         /\ m.src[1] \in Pushed(k)
         /\ m.src[2] = round[m.src[1]][k]
         /\ m.dst = "replica" /\ ~AllRecvPending(k) => m.slot < Len(request[k])
    /\ \A m, n \in Work(t, k) :
         /\ IsOpening(m) /\ IsOpening(n) => m = n
         /\ IsPart(m) /\ IsPart(n) /\ m.src = n.src => m = n
         /\ m.dst = "replica" /\ n.dst = "replica" /\ m.slot = n.slot => m = n

\* The round's first gradient has not been copied to the store.
Opening(k) == \E t \in Thread : \E m \in Work(t, k) : IsOpening(m)

\* The workers whose gradient has not been added to the store.
Left(k) == {w \in Worker : \E t \in Thread : \E m \in Work(t, k) : IsPart(m) /\ m.src[1] = w}

\* The sum of the last gradients of the workers in S.
PartSum(S, k) == [g \in Grad |-> IF g[1] \in S /\ g[2] = round[g[1]][k] THEN 1 ELSE 0]

\* The last round is being answered, or an answer of it is still read from the store.
Served(k) == Finished(k) \/ \E w \in Worker : sending[w][k]

\* The store holds the last round until the next one opens, then what was added of it.
StoreInv(k) ==
  /\ Opening(k) => Left(k) = Pushed(k)
  /\ ~Opening(k) /\ Pushed(k) # {} /\ ~Busy(k) =>
       /\ Left(k) # Pushed(k)
       /\ stored[k] = PartSum(Pushed(k) \ Left(k), k)
  /\ Busy(k) \/ (Served(k) /\ (Opening(k) \/ Pushed(k) = {})) =>
       \A w \in Worker \ InRequest(k) : stored[k] = RoundSum(round[w][k])

\* Replica slot s is still to be written.
SlotQueued(s, k) == \E t \in Thread : \E m \in Work(t, k) : m.dst = "replica" /\ m.slot = s

\* Replica slot s holds the last gradient of w, or will when the queue is worked off.
Holds(s, w, k) ==
  \/ \E t \in Thread : ReplicaMsg(k, s, <<w, round[w][k]>>) \in Work(t, k)
  \/ ~SlotQueued(s, k) /\ replica[k][s] = <<w, round[w][k]>>

\* The slots are filled in the order of the request buffer, in the end one per worker.
ReplicaInv(k) ==
  IF AllRecvPending(k)
    THEN \E f \in [Slot -> Worker] :
           /\ \A s, u \in Slot : f[s] = f[u] => s = u
           /\ \A w \in Worker : \E s \in Slot : f[s] = w
           /\ \A s \in Slot : Holds(s, f[s], k)
    ELSE has_tensor[k] => \A i \in 1..Len(request[k]) : Holds(i - 1, request[k][i], k)

\* The response pointer is set before the first response.
MergedInv(k) == Finished(k) \/ Busy(k) => merged_tensor[k]

DataKeyInv(k) == OrderInv(k) /\ WorkInv(k) /\ StoreInv(k) /\ ReplicaInv(k) /\ MergedInv(k)

\* The contents of store and replica agree with the engine's queue and with what the
\* workers have pushed (server.cc:98-167, 337-430).
DataInv == \A k \in Key : DataKeyInv(k)

\* The inductive invariant of the server: the progress of every key, the responses under
\* way and the contents of store and replica.
FullInv == ServerInv /\ SendingInv /\ DataInv
=============================================================================
