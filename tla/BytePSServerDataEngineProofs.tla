-------------------- MODULE BytePSServerDataEngineProofs --------------------
(* The engine threads keep DataInv, and so does every step. *)
EXTENDS BytePSServerDataPushProofs

\* Engine thread t takes the message m of k from the head of its queue.
Pop(t, m, k) ==
  /\ engine_queue[t] # <<>>
  /\ m = Head(engine_queue[t]) /\ k = m.key
  /\ engine_queue' = [engine_queue EXCEPT ![t] = Tail(@)]

\* The message of k that a thread takes is a first one, and what is left is the rest.
LEMMA PopWork ==
  ASSUME TypeOK, DataInv, NEW t \in Thread, NEW m, NEW k, Pop(t, m, k)
  PROVE  /\ m \in Message /\ k \in Key /\ m \in Work(t, k)
         /\ \A n \in Work(t, k) : Rank(m) <= Rank(n)
         /\ \A u \in Thread, j \in Key : /\ Ordered(engine_queue[u], j)'
                                         /\ u # t \/ j # k => Work(u, j)' = Work(u, j)
         /\ Work(t, k)' = Work(t, k) \ {m}
<1> DEFINE q == engine_queue[t]
<1>1. /\ engine_queue \in [Thread -> Seq(Message)] /\ q \in Seq(Message) /\ q # <<>>
      /\ m = Head(q) /\ k = m.key /\ engine_queue' = [engine_queue EXCEPT ![t] = Tail(@)]
  BY Zenon DEF TypeOK, Pop
<1>2. \A j \in Key : \A u \in Thread : Ordered(engine_queue[u], j)
  BY Zenon DEF DataInv, DataKeyInv, OrderInv
<1>3. engine_queue'[t] = Tail(q) /\ \A u \in Thread : u # t => engine_queue'[u] = engine_queue[u]
  BY <1>1, Zenon
<1>4. m \in Message /\ k \in Key
  <2>1. m \in Message
    BY <1>1
  <2> QED BY <1>1, <2>1, Zenon DEF Message
<1>5. \A j \in Key : /\ Ordered(Tail(q), j)
                     /\ WorkOf(Tail(q), j) = WorkOf(q, j) \ {m}
                     /\ m.key = j => /\ m \in WorkOf(q, j)
                                     /\ \A n \in WorkOf(q, j) : Rank(m) <= Rank(n)
  BY <1>1, <1>2, PopQueue, ZenonT(60)
<1> HIDE DEF q
<1>6. \A j \in Key : j # k => WorkOf(Tail(q), j) = WorkOf(q, j)
  <2> SUFFICES ASSUME NEW j \in Key, j # k PROVE WorkOf(Tail(q), j) = WorkOf(q, j)
    BY Zenon
  <2>1. m \notin WorkOf(q, j)
    BY <1>1, Zenon DEF WorkOf
  <2>2. WorkOf(Tail(q), j) = WorkOf(q, j) \ {m}
    BY <1>5, Zenon
  <2> HIDE DEF WorkOf
  <2> QED BY <2>1, <2>2, Zenon
<1>7. \A u \in Thread, j \in Key : /\ Work(u, j) = WorkOf(engine_queue[u], j)
                                   /\ Work(u, j)' = WorkOf(engine_queue'[u], j)
                                   /\ Ordered(engine_queue[u], j)' <=> Ordered(engine_queue'[u], j)
  BY Zenon DEF Work, WorkOf, Ordered
<1>8. m \in Work(t, k) /\ \A n \in Work(t, k) : Rank(m) <= Rank(n)
  BY <1>1, <1>4, <1>5, <1>7, Zenon DEF q
<1>9. ASSUME NEW u \in Thread, NEW j \in Key
      PROVE  /\ Ordered(engine_queue[u], j)'
             /\ u # t \/ j # k => Work(u, j)' = Work(u, j)
  <2>1. CASE u = t
    <3>1. Ordered(engine_queue'[t], j) /\ (j # k => WorkOf(engine_queue'[t], j) = WorkOf(q, j))
      BY <1>3, <1>5, <1>6, Zenon
    <3>2. /\ Ordered(engine_queue[t], j)'
          /\ j # k => Work(t, j)' = Work(t, j)
      BY <1>7, <3>1, Zenon DEF q
    <3> QED BY <2>1, <3>2, Zenon
  <2>2. CASE u # t
    BY <1>2, <1>3, <1>7, <2>2, Zenon
  <2> QED BY <2>1, <2>2, Zenon
<1>10. Work(t, k)' = Work(t, k) \ {m}
  <2>1. WorkOf(engine_queue'[t], k) = WorkOf(q, k) \ {m}
    BY <1>1, <1>3, <1>4, <1>5, Zenon
  <2> QED BY <1>4, <1>7, <2>1, Zenon DEF q
<1> QED BY <1>4, <1>8, <1>9, <1>10, Zenon

\* What is left unchanged when a gradient is copied or added.
PopData(t, m, k) ==
  /\ busy[t] = {} /\ Pop(t, m, k) /\ IsData(m)
  /\ UNCHANGED <<round, sending, has_tensor, request, merged_tensor, hash_cache, busy, is_push_finished>>
  /\ \A j \in Key : j # k => stored'[j] = stored[j] /\ replica'[j] = replica[j]

\* Taking a gradient from the queue preserves all but what is said of the contents.
LEMMA PopDataFrame ==
  ASSUME TypeOK, TypeOK', ServerInv, DataInv, NEW t \in Thread, NEW m, NEW k, PopData(t, m, k)
  PROVE  /\ m \in Message /\ k \in Key /\ m \in Work(t, k) /\ KeyInv(k) /\ DataKeyInv(k)
         /\ \A n \in Work(t, k) : Rank(m) <= Rank(n)
         /\ Work(t, k)' = Work(t, k) \ {m}
         /\ \A u \in Thread : u # t => Work(u, k) = {} /\ Work(u, k)' = {}
         /\ m.src[1] \in Pushed(k) /\ m.src = <<m.src[1], round[m.src[1]][k]>>
         /\ Pushed(k) \in SUBSET Worker
         /\ AllRecvPending(k)' <=> AllRecvPending(k)
         /\ ~Busy(k) /\ ~Busy(k)'
         /\ Served(k)' <=> Served(k)
         /\ InRequest(k)' = InRequest(k)
         /\ Pushed(k)' = Pushed(k)
         /\ OrderInv(k)' /\ WorkInv(k)' /\ MergedInv(k)'
         /\ \A j \in Key : j # k => DataKeyInv(j)'
<1>1. /\ busy[t] = {} /\ Pop(t, m, k) /\ k = m.key /\ IsData(m)
      /\ UNCHANGED <<round, sending, has_tensor, request, merged_tensor, hash_cache, busy, is_push_finished>>
      /\ \A j \in Key : j # k => stored'[j] = stored[j] /\ replica'[j] = replica[j]
  BY Zenon DEF PopData, Pop
<1>2. /\ m \in Message /\ k \in Key /\ m \in Work(t, k)
      /\ \A n \in Work(t, k) : Rank(m) <= Rank(n)
      /\ \A u \in Thread, j \in Key : /\ Ordered(engine_queue[u], j)'
                                      /\ u # t \/ j # k => Work(u, j)' = Work(u, j)
      /\ Work(t, k)' = Work(t, k) \ {m}
  BY <1>1, PopWork
<1>3. KeyInv(k) /\ DataKeyInv(k) /\ WorkInv(k) /\ MergedInv(k)
  BY <1>2, Zenon DEF ServerInv, DataInv, DataKeyInv
<1>4. /\ hash_cache[k] = t
      /\ m.src[1] \in Pushed(k) /\ m.src[2] = round[m.src[1]][k]
  BY <1>1, <1>2, <1>3, Zenon DEF WorkInv
<1>5. m.src = <<m.src[1], round[m.src[1]][k]>>
  <2>1. m.src = <<m.src[1], m.src[2]>>
    BY <1>1, <1>2, MessageKinds, Zenon
  <2> QED BY <1>4, <2>1, Zenon
<1>6. ASSUME NEW u \in Thread, u # t PROVE Work(u, k) = {} /\ Work(u, k)' = {}
  <2>1. ~AllRecvQueued(u, k)
    BY <1>3, <1>4, <1>6, Zenon DEF KeyInv, RouteInv
  <2>2. \A n \in Work(u, k) : IsData(n)
    BY <1>2, <2>1, WorkType, Zenon
  <2>3. Work(u, k) = {}
    BY <1>3, <1>4, <1>6, <2>2, Zenon DEF WorkInv
  <2> QED BY <1>2, <1>6, <2>3, Zenon
<1>7. AllRecvPending(k)' <=> AllRecvPending(k)
  <2>1. \A u \in Thread : AllRecvQueued(u, k)' <=> AllRecvQueued(u, k)
    BY <1>1, <1>2, WorkType, WorkTypeNext
  <2> QED BY <1>1, <2>1, Zenon DEF AllRecvPending
<1>8. ~Busy(k) /\ ~Busy(k)' /\ (Finished(k)' <=> Finished(k)) /\ (Served(k)' <=> Served(k))
  <2>1. \A u \in Thread : k \notin busy[u]
    <3>1. \A u \in Thread : u # t => k \notin busy[u]
      BY <1>3, <1>4, Zenon DEF KeyInv, RouteInv
    <3> QED BY <1>1, <3>1, Zenon
  <2> QED BY <1>1, <2>1, Zenon DEF Busy, Finished, Served
<1>9. InRequest(k)' = InRequest(k) /\ Pushed(k)' = Pushed(k)
  <2>1. InRequest(k)' = InRequest(k)
    BY <1>1, Zenon DEF InRequest
  <2> QED BY <1>1, <1>7, <2>1, Zenon DEF Pushed
<1>10. Pushed(k) \in SUBSET Worker
  BY <1>2 DEF Pushed, InRequest, TypeOK
<1>11. WorkInv(k)'
  <2>1. \A u \in Thread : Work(u, k)' \subseteq Work(u, k)
    BY <1>2, Zenon
  <2> QED BY <1>1, <1>3, <1>7, <1>9, <2>1 DEF WorkInv
<1>12. OrderInv(k)' /\ MergedInv(k)'
  BY <1>1, <1>2, <1>3, <1>8, Zenon DEF OrderInv, MergedInv
<1>13. ASSUME NEW j \in Key, j # k PROVE DataKeyInv(j)'
  <2>1. DataKeyInv(j)
    BY Zenon DEF DataInv
  <2>2. SameData(j)
    BY <1>1, <1>2, <1>13, Zenon DEF SameData, Served
  <2> QED BY <2>1, <2>2, DataFrame, Zenon
<1> QED BY <1>2, <1>3, <1>4, <1>5, <1>6, <1>7, <1>8, <1>9, <1>10, <1>11, <1>12, <1>13


\* ReplicaInv needs only that no slot loses what it holds or will hold.
LEMMA ReplicaKept ==
  ASSUME TypeOK, NEW k \in Key, RequestInv(k), ReplicaInv(k),
         request'[k] = request[k], has_tensor'[k] = has_tensor[k],
         AllRecvPending(k)' <=> AllRecvPending(k),
         \A s \in Slot : \A v \in Worker : Holds(s, v, k) => Holds(s, v, k)'
  PROVE  ReplicaInv(k)'
<1>1. CASE AllRecvPending(k)
  <2>1. PICK f \in [Slot -> Worker] :
          /\ \A s, u \in Slot : f[s] = f[u] => s = u
          /\ \A w \in Worker : \E s \in Slot : f[s] = w
          /\ \A s \in Slot : Holds(s, f[s], k)
    BY <1>1, Zenon DEF ReplicaInv
  <2>2. \A s \in Slot : Holds(s, f[s], k)'
    BY <2>1, Zenon
  <2> QED BY <1>1, <2>1, <2>2, Zenon DEF ReplicaInv
<1>2. CASE ~AllRecvPending(k)
  <2>1. \A i \in 1..Len(request[k]) : request[k][i] \in Worker /\ i - 1 \in Slot
    BY NumWorkersType DEF TypeOK, RequestInv, Slot
  <2>2. has_tensor[k] => \A i \in 1..Len(request[k]) : Holds(i - 1, request[k][i], k)
    BY <1>2, Zenon DEF ReplicaInv
  <2>3. has_tensor'[k] => \A i \in 1..Len(request'[k]) :
                            \A v \in Worker : v = request'[k][i] => Holds(i - 1, v, k)'
    BY <2>1, <2>2, Zenon
  <2> QED BY <1>2, <2>1, <2>3, Zenon DEF ReplicaInv
<1> QED BY <1>1, <1>2, Zenon

\* A gradient is copied to its replica slot.
LEMMA DataCopyReplica ==
  ASSUME TypeOK, TypeOK', ServerInv, DataInv, NEW t \in Thread, NEW m, NEW k, PopData(t, m, k),
         m.dst = "replica",
         stored' = stored, replica' = [replica EXCEPT ![k][m.slot] = m.src]
  PROVE  DataInv'
<1>1. /\ m \in Message /\ k \in Key /\ m \in Work(t, k) /\ KeyInv(k) /\ DataKeyInv(k)
      /\ Work(t, k)' = Work(t, k) \ {m}
      /\ \A u \in Thread : u # t => Work(u, k) = {} /\ Work(u, k)' = {}
      /\ m.src = <<m.src[1], round[m.src[1]][k]>>
      /\ Pushed(k) \in SUBSET Worker
      /\ AllRecvPending(k)' <=> AllRecvPending(k)
      /\ ~Busy(k) /\ ~Busy(k)'
      /\ Served(k)' <=> Served(k)
      /\ InRequest(k)' = InRequest(k)
      /\ Pushed(k)' = Pushed(k)
      /\ OrderInv(k)' /\ WorkInv(k)' /\ MergedInv(k)'
      /\ \A j \in Key : j # k => DataKeyInv(j)'
  BY PopDataFrame, Zenon
<1>2. /\ m = ReplicaMsg(k, m.slot, m.src) /\ m.slot \in Slot /\ ~IsPart(m) /\ ~IsOpening(m)
  <2>1. k = m.key
    BY Zenon DEF PopData, Pop
  <2> QED BY <1>1, <2>1, MessageKinds, Zenon
<1>3. /\ UNCHANGED <<round, has_tensor, request>>
      /\ WorkInv(k) /\ StoreInv(k) /\ ReplicaInv(k) /\ RequestInv(k)
  BY <1>1, Zenon DEF PopData, DataKeyInv, KeyInv
<1>4. StoreInv(k)'
  <2>1. (Opening(k)' <=> Opening(k)) /\ Left(k)' = Left(k)
    BY <1>1, <1>2, Zenon DEF Opening, Left
  <2>2. PartSum(Pushed(k) \ Left(k), k)' = PartSum(Pushed(k) \ Left(k), k)
    BY <1>1, <1>3, <2>1, Zenon DEF PartSum
  <2> QED BY <1>1, <1>3, <2>1, <2>2, Zenon DEF StoreInv
<1>5. ReplicaInv(k)'
  <2>1. replica \in [Key -> [Slot -> Grad \cup {NoGrad}]]
    BY Zenon DEF TypeOK
  <2>2. ASSUME NEW s \in Slot, NEW v \in Worker, Holds(s, v, k)
        PROVE  Holds(s, v, k)'
    <3>1. CASE s = m.slot
      <4>1. SlotQueued(s, k)
        BY <1>1, <3>1, Zenon DEF SlotQueued
      <4>2. PICK u \in Thread : ReplicaMsg(k, s, <<v, round[v][k]>>) \in Work(u, k)
        BY <2>2, <4>1, Zenon DEF Holds
      <4>3. u = t
        BY <1>1, <4>2, Zenon
      <4>4. \A n \in Work(t, k) : n.dst = "replica" /\ n.slot = s => n = m
        BY <1>1, <1>3, <3>1 DEF WorkInv
      <4>5. ReplicaMsg(k, s, <<v, round[v][k]>>) = m
        BY <4>2, <4>3, <4>4, Zenon DEF ReplicaMsg
      <4>6. m.src = <<v, round[v][k]>>
        BY <4>5, Zenon DEF ReplicaMsg
      <4>7. ~SlotQueued(s, k)'
        BY <1>1, <4>4, Zenon DEF SlotQueued
      <4>8. replica'[k][s] = <<v, round'[v][k]>>
        BY <1>1, <1>3, <2>1, <3>1, <4>6, Zenon
      <4> QED BY <4>7, <4>8, Zenon DEF Holds
    <3>2. CASE s # m.slot
      <4>1. SlotQueued(s, k)' <=> SlotQueued(s, k)
        BY <1>1, <3>2, Zenon DEF SlotQueued
      <4>2. replica'[k][s] = replica[k][s]
        BY <1>1, <1>2, <2>1, <3>2, Zenon
      <4>3. ReplicaMsg(k, s, <<v, round[v][k]>>) # m
        BY <3>2 DEF ReplicaMsg
      <4> QED BY <1>1, <1>3, <2>2, <4>1, <4>2, <4>3, Zenon DEF Holds
    <3> QED BY <3>1, <3>2, Zenon
  <2> QED BY <1>1, <1>3, <2>2, ReplicaKept, Zenon
<1> QED BY <1>1, <1>4, <1>5, Zenon DEF DataInv, DataKeyInv

\* A gradient is copied to the store or added to it.
StoreData(m, k) ==
  /\ m.dst = "stored"
  /\ replica' = replica
  /\ stored' = [stored EXCEPT ![k] = IF m.ops = "COPY_FIRST" THEN Unit(m.src)
                                                             ELSE Sum(@, Unit(m.src))]

\* Adding a gradient to the store, or copying the first one into it, keeps DataInv.
LEMMA DataStore ==
  ASSUME TypeOK, TypeOK', ServerInv, DataInv, NEW t \in Thread, NEW m, NEW k, PopData(t, m, k),
         StoreData(m, k)
  PROVE  DataInv'
<1>0. /\ m.dst = "stored" /\ replica' = replica
      /\ stored' = [stored EXCEPT ![k] = IF m.ops = "COPY_FIRST" THEN Unit(m.src)
                                                                 ELSE Sum(@, Unit(m.src))]
  BY Zenon DEF StoreData
<1>1. /\ m \in Message /\ k \in Key /\ m \in Work(t, k) /\ KeyInv(k) /\ DataKeyInv(k)
      /\ \A n \in Work(t, k) : Rank(m) <= Rank(n)
      /\ Work(t, k)' = Work(t, k) \ {m}
      /\ \A u \in Thread : u # t => Work(u, k) = {} /\ Work(u, k)' = {}
      /\ m.src[1] \in Pushed(k) /\ m.src = <<m.src[1], round[m.src[1]][k]>>
      /\ Pushed(k) \in SUBSET Worker
      /\ AllRecvPending(k)' <=> AllRecvPending(k)
      /\ ~Busy(k) /\ ~Busy(k)'
      /\ Pushed(k)' = Pushed(k)
      /\ OrderInv(k)' /\ WorkInv(k)' /\ MergedInv(k)'
      /\ \A j \in Key : j # k => DataKeyInv(j)'
  BY PopDataFrame, Zenon
<1>2. IsPart(m) /\ (IsOpening(m) <=> m.ops = "COPY_FIRST")
  BY <1>0, Zenon DEF PopData, IsPart, IsOpening
<1>3. /\ UNCHANGED <<round, has_tensor, request>>
      /\ WorkInv(k) /\ StoreInv(k) /\ ReplicaInv(k) /\ RequestInv(k)
  BY <1>1, Zenon DEF PopData, DataKeyInv, KeyInv
<1>4. PICK w \in Worker : w = m.src[1]
  BY <1>1, Zenon
<1>5. w \in Pushed(k) /\ m.src = <<w, round[w][k]>>
  BY <1>1, <1>4, Zenon
<1>6. w \in Left(k) /\ Left(k)' = Left(k) \ {w} /\ Left(k) \subseteq Pushed(k)
  <2>1. w \in Left(k)
    BY <1>1, <1>2, <1>4, Zenon DEF Left
  <2>2. \A n \in Work(t, k) : IsPart(n) => n.src[1] \in Pushed(k) /\ n.src = <<n.src[1], round[n.src[1]][k]>>
    <3> SUFFICES ASSUME NEW n \in Work(t, k), IsPart(n)
                 PROVE  n.src[1] \in Pushed(k) /\ n.src = <<n.src[1], round[n.src[1]][k]>>
      BY Zenon
    <3>1. IsData(n) /\ n \in Message
      BY <1>1, WorkType, Zenon DEF IsPart
    <3>2. n.src[1] \in Pushed(k) /\ n.src[2] = round[n.src[1]][k]
      BY <1>3, <3>1, Zenon DEF WorkInv
    <3>3. n.src = <<n.src[1], n.src[2]>>
      BY <3>1, MessageKinds, Zenon
    <3> QED BY <3>2, <3>3, Zenon
  <2>3. \A n \in Work(t, k) : IsPart(n) /\ n.src[1] = w => n = m
    BY <1>1, <1>2, <1>3, <1>5, <2>2 DEF WorkInv
  <2>4. Left(k)' = Left(k) \ {w}
    BY <1>1, <1>4, <2>3, Zenon DEF Left
  <2>5. Left(k) \subseteq Pushed(k)
    BY <1>1, <2>2, Zenon DEF Left
  <2> QED BY <2>1, <2>4, <2>5, Zenon
<1>7. ~Opening(k)' /\ (Opening(k) <=> m.ops = "COPY_FIRST")
  <2>1. CASE m.ops = "COPY_FIRST"
    BY <1>1, <1>2, <1>3, <2>1, Zenon DEF Opening, WorkInv
  <2>2. CASE m.ops # "COPY_FIRST"
    <3>1. Rank(m) = 1
      BY <1>2, <2>2, Zenon DEF Rank, IsPart
    <3>2. \A n \in Work(t, k) : ~IsOpening(n)
      BY <1>1, <3>1 DEF Rank
    <3> QED BY <1>1, <2>2, <3>2, Zenon DEF Opening
  <2> QED BY <2>1, <2>2, Zenon
<1>8. stored'[k] = PartSum(Pushed(k) \ (Left(k) \ {w}), k)
  <2>1. stored \in [Key -> Tensor]
    BY Zenon DEF TypeOK
  <2>2. \A g \in Grad : g = m.src <=> g[1] = w /\ g[2] = round[w][k]
    BY <1>5 DEF Grad
  <2>3. CASE m.ops = "COPY_FIRST"
    <3>1. Left(k) = Pushed(k)
      BY <1>3, <1>7, <2>3, Zenon DEF StoreInv
    <3>2. Pushed(k) \ (Left(k) \ {w}) = {w}
      BY <1>5, <3>1, Zenon
    <3>3. stored'[k] = Unit(m.src)
      BY <1>0, <1>1, <2>1, <2>3, Zenon
    <3>4. Unit(m.src) = PartSum({w}, k)
      BY <2>2, Zenon DEF Unit, PartSum
    <3> QED BY <3>2, <3>3, <3>4, Zenon
  <2>4. CASE m.ops # "COPY_FIRST"
    <3>1. stored[k] = PartSum(Pushed(k) \ Left(k), k)
      BY <1>1, <1>3, <1>5, <1>7, <2>4, Zenon DEF StoreInv
    <3>2. stored'[k] = Sum(stored[k], Unit(m.src))
      BY <1>0, <1>1, <2>1, <2>4, Zenon
    <3>3. PICK S : S = Pushed(k) \ Left(k)
      BY Zenon
    <3>4. Pushed(k) \ (Left(k) \ {w}) = S \cup {w} /\ w \notin S
      BY <1>5, <1>6, <3>3, Zenon
    <3>5. Sum(PartSum(S, k), Unit(m.src)) = PartSum(S \cup {w}, k)
      BY <2>2, <3>4 DEF Sum, Unit, PartSum
    <3> QED BY <3>1, <3>2, <3>3, <3>4, <3>5, Zenon
  <2> QED BY <2>3, <2>4, Zenon
<1>9. StoreInv(k)'
  <2>1. Left(k)' # Pushed(k)' /\ Pushed(k)' # {}
    BY <1>1, <1>5, <1>6, Zenon
  <2>2. PartSum(Pushed(k) \ Left(k), k)' = PartSum(Pushed(k) \ (Left(k) \ {w}), k)
    BY <1>1, <1>3, <1>6, Zenon DEF PartSum
  <2>3. stored'[k] = PartSum(Pushed(k) \ Left(k), k)'
    BY <1>8, <2>2, Zenon
  <2> QED BY <1>1, <1>7, <2>1, <2>3, Zenon DEF StoreInv
<1>10. ReplicaInv(k)'
  <2>1. ASSUME NEW s \in Slot, NEW v \in Worker, Holds(s, v, k)
        PROVE  Holds(s, v, k)'
    <3>1. SlotQueued(s, k)' <=> SlotQueued(s, k)
      BY <1>0, <1>1, Zenon DEF SlotQueued
    <3>2. ReplicaMsg(k, s, <<v, round[v][k]>>) # m
      BY <1>0 DEF ReplicaMsg
    <3> QED BY <1>0, <1>1, <1>3, <2>1, <3>1, <3>2, Zenon DEF Holds
  <2> QED BY <1>1, <1>3, <2>1, ReplicaKept, Zenon
<1> QED BY <1>1, <1>9, <1>10, Zenon DEF DataInv, DataKeyInv


\* COPY_FIRST keeps DataInv.
LEMMA DataEngineCopyFirst ==
  ASSUME TypeOK, TypeOK', ServerInv, DataInv, NEW t \in Thread, EngineCopyFirst(t)
  PROVE  DataInv'
<1>1. PICK m : m = Head(engine_queue[t])
  BY Zenon
<1>2. PICK k : k = m.key
  BY Zenon
<1>3. /\ stored \in [Key -> Tensor] /\ replica \in [Key -> [Slot -> Grad \cup {NoGrad}]]
      /\ engine_queue \in [Thread -> Seq(Message)] /\ engine_queue[t] # <<>>
  BY Zenon DEF TypeOK, EngineCopyFirst, CanPop
<1>4. /\ IF m.dst = "stored"
           THEN stored' = [stored EXCEPT ![k] = Unit(m.src)] /\ replica' = replica
           ELSE replica' = [replica EXCEPT ![k][m.slot] = m.src] /\ stored' = stored
      /\ m.ops = "COPY_FIRST"
  BY <1>1, <1>2, Zenon DEF EngineCopyFirst, CanPop, Copy
<1>5. m \in Message /\ (m.dst = "stored" \/ m.dst = "replica")
  <2>1. m \in Message
    BY <1>1, <1>3
  <2> QED BY <2>1, Zenon DEF Message
<1>6. PopData(t, m, k)
  <2>1. \A j \in Key : j # k => stored'[j] = stored[j] /\ replica'[j] = replica[j]
    BY <1>3, <1>4, Zenon
  <2>2. Pop(t, m, k) /\ busy[t] = {}
    BY <1>1, <1>2, Zenon DEF EngineCopyFirst, CanPop, Pop
  <2>3. UNCHANGED <<round, sending, has_tensor, request, merged_tensor, hash_cache, busy, is_push_finished>>
    BY Zenon DEF EngineCopyFirst, client, route, flags
  <2> QED BY <1>4, <2>1, <2>2, <2>3, Zenon DEF PopData, IsData
<1>7. CASE m.dst = "stored"
  <2>1. StoreData(m, k)
    BY <1>4, <1>7, Zenon DEF StoreData
  <2> QED BY <1>6, <2>1, DataStore, Zenon
<1>8. CASE m.dst = "replica"
  BY <1>4, <1>6, <1>8, DataCopyReplica, Zenon
<1> QED BY <1>5, <1>7, <1>8, Zenon

\* SUM_RECV keeps DataInv.
LEMMA DataEngineSumRecv ==
  ASSUME TypeOK, TypeOK', ServerInv, DataInv, NEW t \in Thread, EngineSumRecv(t)
  PROVE  DataInv'
<1>1. PICK m : m = Head(engine_queue[t])
  BY Zenon
<1>2. PICK k : k = m.key
  BY Zenon
<1>3. /\ stored \in [Key -> Tensor]
      /\ engine_queue \in [Thread -> Seq(Message)] /\ engine_queue[t] # <<>>
  BY Zenon DEF TypeOK, EngineSumRecv, CanPop
<1>4. /\ stored' = [stored EXCEPT ![k] = Sum(@, Unit(m.src))] /\ replica' = replica
      /\ m.ops = "SUM_RECV"
  BY <1>1, <1>2, Zenon DEF EngineSumRecv, CanPop
<1>5. m.dst = "stored"
  <2>1. m \in Message
    BY <1>1, <1>3
  <2> QED BY <1>4, <2>1, Zenon DEF Message
<1>6. PopData(t, m, k)
  <2>1. \A j \in Key : j # k => stored'[j] = stored[j] /\ replica'[j] = replica[j]
    BY <1>3, <1>4, Zenon
  <2>2. Pop(t, m, k) /\ busy[t] = {}
    BY <1>1, <1>2, Zenon DEF EngineSumRecv, CanPop, Pop
  <2>3. UNCHANGED <<round, sending, has_tensor, request, merged_tensor, hash_cache, busy, is_push_finished>>
    BY Zenon DEF EngineSumRecv, client, route, flags
  <2> QED BY <1>4, <2>1, <2>2, <2>3, Zenon DEF PopData, IsData
<1>7. StoreData(m, k)
  BY <1>4, <1>5, Zenon DEF StoreData
<1> QED BY <1>6, <1>7, DataStore, Zenon

\* One slot per worker, each with the worker's gradient of the round, adds up to the round.
LEMMA ReduceAll ==
  ASSUME NEW slots, NEW e \in Round, NEW f \in [Slot -> Worker],
         \A s, u \in Slot : f[s] = f[u] => s = u,
         \A w \in Worker : \E s \in Slot : f[s] = w,
         \A s \in Slot : slots[s] = <<f[s], e>>
  PROVE  ReduceSlots(slots) = RoundSum(e)
<1> SUFFICES ASSUME NEW g \in Grad
             PROVE  Cardinality({s \in Slot : slots[s] = g}) = IF g[2] = e THEN 1 ELSE 0
  BY Zenon DEF ReduceSlots, RoundSum
<1>1. g[1] \in Worker /\ g = <<g[1], g[2]>>
  BY DEF Grad
<1>2. CASE g[2] = e
  <2>1. PICK s \in Slot : f[s] = g[1]
    BY <1>1, Zenon
  <2>2. {u \in Slot : slots[u] = g} = {s}
    BY <1>1, <1>2, <2>1
  <2> QED BY <1>2, <2>2, FS_Singleton, Zenon
<1>3. CASE g[2] # e
  <2>1. {u \in Slot : slots[u] = g} = {}
    BY <1>1, <1>3
  <2>2. Cardinality({}) = 0
    BY FS_EmptySet, Zenon
  <2> QED BY <1>3, <2>1, <2>2, Zenon
<1> QED BY <1>2, <1>3, Zenon

\* The first half of ALL_RECV, which takes it from the queue and sums, keeps DataInv.
LEMMA DataEngineReduce ==
  ASSUME TypeOK, TypeOK', ServerInv, DataInv, NEW t \in Thread, EngineReduce(t)
  PROVE  DataInv'
<1>1. PICK m : m = Head(engine_queue[t])
  BY Zenon
<1>2. PICK k : k = m.key
  BY Zenon
<1>3. /\ stored \in [Key -> Tensor] /\ merged_tensor \in [Key -> BOOLEAN]
      /\ busy \in [Thread -> SUBSET Key]
      /\ engine_queue \in [Thread -> Seq(Message)] /\ engine_queue[t] # <<>>
      /\ busy[t] = {}
  BY Zenon DEF TypeOK, EngineReduce, CanPop
<1>4. /\ stored' = [stored EXCEPT ![k] = ReduceInto(k)]
      /\ merged_tensor' = [merged_tensor EXCEPT ![k] = TRUE]
      /\ busy' = [busy EXCEPT ![t] = {k}]
      /\ UNCHANGED <<round, sending, has_tensor, replica, request, hash_cache, is_push_finished>>
      /\ ~IsData(m)
  BY <1>1, <1>2, Zenon DEF EngineReduce, CanPop, IsData, client, route, flags
<1>5. /\ m \in Message /\ k \in Key /\ m \in Work(t, k)
      /\ \A n \in Work(t, k) : Rank(m) <= Rank(n)
      /\ \A u \in Thread, j \in Key : /\ Ordered(engine_queue[u], j)'
                                      /\ u # t \/ j # k => Work(u, j)' = Work(u, j)
      /\ Work(t, k)' = Work(t, k) \ {m}
  <2>1. Pop(t, m, k)
    BY <1>1, <1>2, Zenon DEF EngineReduce, CanPop, Pop
  <2> QED BY <2>1, PopWork, Zenon
<1>6. KeyInv(k) /\ DataKeyInv(k) /\ WorkInv(k) /\ StoreInv(k) /\ ReplicaInv(k)
  BY <1>5, Zenon DEF ServerInv, DataInv, DataKeyInv
<1>7. ASSUME NEW j \in Key, j # k PROVE DataKeyInv(j)'
  <2>1. DataKeyInv(j)
    BY Zenon DEF DataInv
  <2>2. /\ stored'[j] = stored[j] /\ merged_tensor'[j] = merged_tensor[j]
        /\ \A u \in Thread : j \in busy'[u] <=> j \in busy[u]
    BY <1>3, <1>4, <1>7, Zenon
  <2>3. SameData(j)
    BY <1>4, <1>5, <1>7, <2>2, Zenon DEF SameData, Served
  <2> QED BY <2>1, <2>3, DataFrame, Zenon
<1>8. AllRecvQueued(t, k) /\ AllRecvPending(k)
  BY <1>4, <1>5, WorkType, Zenon DEF AllRecvPending
<1>9. hash_cache[k] = t /\ ~Busy(k)
  <2>1. hash_cache[k] = t
    BY <1>6, <1>8, Zenon DEF KeyInv, RouteInv
  <2>2. \A u \in Thread : u # t => k \notin busy[u]
    BY <1>6, <2>1, Zenon DEF KeyInv, RouteInv
  <2> QED BY <1>3, <2>1, <2>2, Zenon DEF Busy
<1>10. \A u \in Thread : (\A n \in Work(u, k) : u = t /\ n = m) /\ Work(u, k)' = {}
  <2>1. \A n \in Work(t, k) : n = m
    <3> SUFFICES ASSUME NEW n \in Work(t, k) PROVE n = m
      BY Zenon
    <3>1. n \in Message /\ n.key = k
      BY <1>5, WorkType, Zenon
    <3>2. ~IsData(n)
      BY <1>4, <1>5 DEF Rank, IsOpening, IsData
    <3> QED BY <1>2, <1>4, <1>5, <3>1, <3>2, MessageKinds, Zenon
  <2>2. ASSUME NEW u \in Thread, u # t PROVE Work(u, k) = {}
    <3>1. ~AllRecvQueued(u, k)
      BY <1>6, <1>9, <2>2, Zenon DEF KeyInv, RouteInv
    <3>2. \A n \in Work(u, k) : IsData(n)
      BY <1>5, <3>1, WorkType, Zenon
    <3> QED BY <1>6, <1>9, <2>2, <3>2, Zenon DEF WorkInv
  <2> QED BY <1>5, <2>1, <2>2, Zenon
<1>11. Pushed(k) = Worker /\ ~Opening(k) /\ Left(k) = {}
  BY <1>4, <1>8, <1>10, Zenon DEF Pushed, Opening, Left, IsOpening, IsPart, IsData
<1>12. PICK e \in Round : InRequest(k) = {} /\ \A w \in Worker : round[w][k] = e
  <2>1. has_tensor[k]
    BY <1>6, <1>8, DeclaringKey, <1>5, Zenon
  <2> QED BY <1>6, <1>8, <2>1, Zenon DEF KeyInv, Training, Rounds, Pending, Answering, Between
<1>13. stored[k] = RoundSum(e)
  <2>1. stored[k] = PartSum(Worker, k)
    BY <1>6, <1>9, <1>11, ServerAssumption, Zenon DEF StoreInv
  <2>2. PartSum(Worker, k) = RoundSum(e)
    BY <1>12, Zenon DEF PartSum, RoundSum, Grad
  <2> QED BY <2>1, <2>2, Zenon
<1>14. PICK f \in [Slot -> Worker] :
         /\ \A s, u \in Slot : f[s] = f[u] => s = u
         /\ \A w \in Worker : \E s \in Slot : f[s] = w
         /\ \A s \in Slot : Holds(s, f[s], k)
  BY <1>6, <1>8, Zenon DEF ReplicaInv
<1>15. ASSUME NEW s \in Slot, NEW v \in Worker
       PROVE  /\ Holds(s, v, k) => replica[k][s] = <<v, e>>
              /\ Holds(s, v, k)' <=> replica[k][s] = <<v, e>>
  <2>1. ~SlotQueued(s, k) /\ ~SlotQueued(s, k)'
    BY <1>4, <1>5, <1>10, MessageKinds, Zenon DEF SlotQueued
  <2>2. \A u \in Thread : ReplicaMsg(k, s, <<v, round[v][k]>>) \notin Work(u, k)
    BY <2>1, Zenon DEF SlotQueued, ReplicaMsg
  <2>3. round[v][k] = e /\ round'[v][k] = e /\ replica' = replica
    BY <1>4, <1>12, Zenon
  <2> QED BY <1>10, <2>1, <2>2, <2>3, Zenon DEF Holds
<1>16. stored'[k] = RoundSum(e)
  <2>1. stored'[k] = ReduceInto(k)
    BY <1>3, <1>4, <1>5, Zenon
  <2>2. \A s \in Slot : replica[k][s] = <<f[s], e>>
    BY <1>14, <1>15, Zenon
  <2>3. ReduceSlots(replica[k]) = RoundSum(e)
    BY <1>14, <2>2, ReduceAll, Zenon
  <2> QED BY <1>13, <2>1, <2>3, Zenon DEF ReduceInto
<1>17. Busy(k)' /\ AllRecvPending(k)' /\ ~Opening(k)' /\ InRequest(k)' = {}
  <2>1. k \in busy'[t]
    BY <1>3, <1>4, Zenon
  <2>2. InRequest(k)' = InRequest(k)
    BY <1>4, Zenon DEF InRequest
  <2> QED BY <1>10, <1>12, <2>1, <2>2, Zenon DEF Busy, AllRecvPending, Opening
<1>18. OrderInv(k)' /\ WorkInv(k)' /\ MergedInv(k)'
  <2>1. merged_tensor'[k]
    BY <1>3, <1>4, <1>5, Zenon
  <2> QED BY <1>5, <1>10, <2>1, Zenon DEF OrderInv, WorkInv, MergedInv
<1>19. StoreInv(k)'
  <2>1. \A w \in Worker : round'[w][k] = e
    BY <1>4, <1>12, Zenon
  <2> QED BY <1>16, <1>17, <2>1, Zenon DEF StoreInv
<1>20. ReplicaInv(k)'
  <2>1. \A s \in Slot : Holds(s, f[s], k)'
    BY <1>14, <1>15, Zenon
  <2> QED BY <1>14, <1>17, <2>1, Zenon DEF ReplicaInv
<1> QED BY <1>7, <1>18, <1>19, <1>20, Zenon DEF DataInv, DataKeyInv

\* The second half of ALL_RECV, which answers the parked pulls, keeps DataInv.
LEMMA DataEngineAllRecv ==
  ASSUME TypeOK, TypeOK', ServerInv, DataInv, NEW t \in Thread, EngineAllRecv(t)
  PROVE  DataInv'
<1>1. PICK k \in busy[t] : \E S : SendPullResponse(S, k) /\ RecordResponses(t, k, S)
  BY Zenon DEF EngineAllRecv
<1>2. /\ busy \in [Thread -> SUBSET Key] /\ is_push_finished \in [Thread -> [Key -> BOOLEAN]]
      /\ sending \in [Worker -> [Key -> BOOLEAN]]
      /\ k \in Key
  BY Zenon DEF TypeOK
<1>3. /\ busy' = [busy EXCEPT ![t] = {}] /\ engine_queue' = engine_queue
      /\ UNCHANGED <<round, has_tensor, stored, replica, request, merged_tensor, hash_cache>>
  BY Zenon DEF EngineAllRecv, store, route
<1>4. KeyInv(k) /\ DataKeyInv(k)
  BY <1>2, Zenon DEF ServerInv, DataInv
<1>5. \A u \in Thread, j \in Key : /\ Work(u, j)' = Work(u, j)
                                   /\ Ordered(engine_queue[u], j)'
  <2>1. \A u \in Thread, j \in Key : Ordered(engine_queue[u], j)
    BY Zenon DEF DataInv, DataKeyInv, OrderInv
  <2> QED BY <1>3, <2>1 DEF Work, WorkOf, Ordered
<1>6. busy[t] = {k} /\ AllRecvPending(k) /\ hash_cache[k] = t
  BY <1>4, Zenon DEF KeyInv, AllRecvOnce, RouteInv, AllRecvPending
<1>7. ASSUME NEW j \in Key, j # k PROVE DataKeyInv(j)'
  <2>1. DataKeyInv(j)
    BY Zenon DEF DataInv
  <2>2. \A u \in Thread : j \in busy'[u] <=> j \in busy[u]
    BY <1>2, <1>3, <1>6, <1>7
  <2>3. \A u \in Thread : is_push_finished'[u][j] = is_push_finished[u][j]
    <3>1. PICK S : RecordResponses(t, k, S)
      BY <1>1, Zenon
    <3> QED BY <1>2, <1>7, <3>1 DEF RecordResponses
  <2>4. \A w \in Worker : sending'[w][j] = sending[w][j]
    <3>1. PICK S : sending' = [w \in Worker |-> [sending[w] EXCEPT ![k] = IF w \in S THEN TRUE ELSE @]]
      BY <1>1, Zenon DEF SendPullResponse
    <3> QED BY <1>2, <1>7, <3>1
  <2>5. SameData(j)
    BY <1>3, <1>5, <2>2, <2>3, <2>4, Zenon DEF SameData, Served
  <2> QED BY <2>1, <2>5, DataFrame, Zenon
<1>8. Busy(k) /\ WorkInv(k) /\ StoreInv(k) /\ MergedInv(k)
  BY <1>4, Zenon DEF Busy, DataKeyInv
<1>9. \A u \in Thread : Work(u, k) = {} /\ ~AllRecvQueued(u, k)
  <2>1. \A u \in Thread : ~AllRecvQueued(u, k)
    BY <1>4, <1>6, Zenon DEF KeyInv, AllRecvOnce, RouteInv
  <2>2. \A u \in Thread : \A n \in Work(u, k) : IsData(n)
    BY <1>2, <2>1, WorkType, Zenon
  <2> QED BY <1>6, <1>8, <2>1, <2>2, Zenon DEF WorkInv
<1>10. InRequest(k) = {} /\ Len(request[k]) = 0
  <2>1. has_tensor[k]
    BY <1>2, <1>4, <1>6, DeclaringKey, Zenon
  <2>2. InRequest(k) = {}
    BY <1>4, <1>6, <2>1, Zenon DEF KeyInv, Training, Pending, Answering, Between
  <2>3. Len(request[k]) \in Nat
    BY <1>2 DEF TypeOK
  <2>4. Len(request[k]) # 0 => 1 \in 1..Len(request[k])
    BY <2>3
  <2> QED BY <2>2, <2>4, Zenon DEF InRequest
<1>11. ~Busy(k)' /\ ~AllRecvPending(k)' /\ ~Opening(k)' /\ InRequest(k)' = {} /\ Pushed(k)' = {}
  <2>1. \A u \in Thread : k \notin busy'[u]
    <3>1. \A u \in Thread : u # t => k \notin busy[u]
      BY <1>4, <1>6, Zenon DEF KeyInv, RouteInv
    <3> QED BY <1>2, <1>3, <3>1, Zenon
  <2>2. \A u \in Thread : ~AllRecvQueued(u, k)'
    BY <1>2, <1>5, <1>9, WorkTypeNext
  <2>3. InRequest(k)' = {}
    BY <1>3, <1>10, Zenon DEF InRequest
  <2>4. ~AllRecvPending(k)' /\ ~Busy(k)'
    BY <2>1, <2>2, Zenon DEF AllRecvPending, Busy
  <2> QED BY <1>2, <1>5, <1>9, <2>3, <2>4, Zenon DEF Opening, Pushed
<1>12. OrderInv(k)' /\ WorkInv(k)' /\ MergedInv(k)'
  BY <1>2, <1>3, <1>5, <1>8, <1>9 DEF OrderInv, WorkInv, MergedInv
<1>13. StoreInv(k)'
  BY <1>3, <1>8, <1>10, <1>11, Zenon DEF StoreInv
<1>14. ReplicaInv(k)'
  BY <1>3, <1>10, <1>11 DEF ReplicaInv
<1> QED BY <1>7, <1>12, <1>13, <1>14, Zenon DEF DataInv, DataKeyInv


-----------------------------------------------------------------------------
(* The invariant *)

\* Every step keeps DataInv.
LEMMA DataNext ==
  ASSUME TypeOK, TypeOK', ServerInv, SendingInv, DataInv, [Next]_vars
  PROVE  DataInv'
<1>1. ASSUME UNCHANGED round, UNCHANGED store, UNCHANGED route, UNCHANGED engine, UNCHANGED flags,
             \A w \in Worker, k \in Key : sending'[w][k] => sending[w][k]
      PROVE  DataInv'
  <2> SUFFICES ASSUME NEW j \in Key PROVE DataKeyInv(j)'
    BY Zenon DEF DataInv
  <2>1. DataKeyInv(j)
    BY Zenon DEF DataInv
  <2>2. SameData(j)
    BY <1>1, <2>1, SameWork, Zenon DEF SameData, Served, store, route, flags
  <2> QED BY <2>1, <2>2, DataFrame, Zenon
<1>2. ASSUME NEW w \in Worker, NEW k \in Key, HandleInitPush(w, k) PROVE DataInv'
  BY <1>2, DataHandleInitPush, Zenon
<1>3. ASSUME NEW w \in Worker, NEW k \in Key, HandlePush(w, k) PROVE DataInv'
  BY <1>3, DataHandlePush, Zenon
<1>4. ASSUME NEW w \in Worker, NEW k \in Key, HandlePull(w, k) PROVE DataInv'
  BY <1>4, DataHandlePull, Zenon
<1>5. ASSUME NEW t \in Thread, EngineCopyFirst(t) PROVE DataInv'
  BY <1>5, DataEngineCopyFirst, Zenon
<1>6. ASSUME NEW t \in Thread, EngineSumRecv(t) PROVE DataInv'
  BY <1>6, DataEngineSumRecv, Zenon
<1>7. ASSUME NEW t \in Thread, EngineReduce(t) PROVE DataInv'
  BY <1>7, DataEngineReduce, Zenon
<1>8. ASSUME NEW t \in Thread, EngineAllRecv(t) PROVE DataInv'
  BY <1>8, DataEngineAllRecv, Zenon
<1>9. ASSUME NEW w \in Worker, NEW k \in Key, ReadElements(w, k) \/ ReadLast(w, k) PROVE DataInv'
  <2>1. sending \in [Worker -> [Key -> BOOLEAN]]
    BY Zenon DEF TypeOK
  <2>2. \/ sending' = sending
        \/ sending' = [sending EXCEPT ![w][k] = FALSE]
    BY <1>9, Zenon DEF ReadElements, ReadLast
  <2>3. \A v \in Worker, j \in Key : sending'[v][j] => sending[v][j]
    BY <2>1, <2>2, Zenon
  <2> QED BY <1>1, <1>9, <2>3, Zenon DEF ReadElements, ReadLast
<1>10. CASE UNCHANGED vars
  BY <1>1, <1>10, Zenon DEF vars, client
<1> QED BY <1>2, <1>3, <1>4, <1>5, <1>6, <1>7, <1>8, <1>9, <1>10, Zenon
        DEF Next, Handler, EngineThread, Transport, Terminated
=============================================================================
