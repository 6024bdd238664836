--------------------- MODULE BytePSServerDataPushProofs ---------------------
(* DataInv holds initially and every request keeps it. *)
EXTENDS BytePSServerData, BytePSServerTypes

(* Queues *)

\* The rank of a message is 0, 1 or 2.
LEMMA RankType == \A m \in Message : Rank(m) \in {0, 1, 2}
BY Zenon DEF Rank

\* A message of k leaves the head of its queue: it was of the lowest rank.
LEMMA PopQueue ==
  ASSUME NEW q \in Seq(Message), q # <<>>, NEW k \in Key, Ordered(q, k)
  PROVE  /\ Ordered(Tail(q), k)
         /\ WorkOf(Tail(q), k) = WorkOf(q, k) \ {Head(q)}
         /\ Head(q).key = k =>
              /\ Head(q) \in WorkOf(q, k)
              /\ \A m \in WorkOf(q, k) : Rank(Head(q)) <= Rank(m)
<1> DEFINE p == Tail(q)
<1>1. /\ Len(q) \in Nat /\ Len(q) >= 1 /\ Len(p) = Len(q) - 1
      /\ \A i \in 1..Len(p) : p[i] = q[i + 1] /\ i + 1 \in 1..Len(q)
      /\ 1 \in 1..Len(q) /\ Head(q) = q[1]
      /\ \A i \in 1..Len(q) : q[i] \in Message
  OBVIOUS
<1> HIDE DEF p
<1>2. \A i \in 1..Len(q) : i = 1 \/ (i - 1 \in 1..Len(p) /\ p[i - 1] = q[i])
  <2> SUFFICES ASSUME NEW i \in 1..Len(q), i # 1
               PROVE  i - 1 \in 1..Len(p) /\ p[i - 1] = q[i]
    BY Zenon
  <2>1. i - 1 \in 1..Len(p) /\ (i - 1) + 1 = i
    BY <1>1
  <2> QED BY <1>1, <2>1, Zenon
<1>3. Ordered(p, k)
  <2> SUFFICES ASSUME NEW i \in 1..Len(p), NEW j \in 1..Len(p), p[i].key = k, p[j].key = k
               PROVE  (p[i] = p[j] => i = j) /\ (Rank(p[i]) < Rank(p[j]) => i < j)
    BY Zenon DEF Ordered
  <2>1. /\ p[i] = q[i + 1] /\ i + 1 \in 1..Len(q)
        /\ p[j] = q[j + 1] /\ j + 1 \in 1..Len(q)
    BY <1>1, Zenon
  <2>2. /\ q[i + 1] = q[j + 1] => i + 1 = j + 1
        /\ Rank(q[i + 1]) < Rank(q[j + 1]) => i + 1 < j + 1
    BY <2>1, Zenon DEF Ordered
  <2> QED BY <1>1, <2>1, <2>2
<1>4. WorkOf(p, k) \subseteq WorkOf(q, k) \ {Head(q)}
  <2> SUFFICES ASSUME NEW i \in 1..Len(p), p[i].key = k
               PROVE  p[i] \in WorkOf(q, k) /\ p[i] # Head(q)
    BY Zenon DEF WorkOf
  <2>1. p[i] = q[i + 1] /\ i + 1 \in 1..Len(q) /\ i + 1 # 1
    BY <1>1
  <2> QED BY <1>1, <2>1 DEF WorkOf, Ordered
<1>5. WorkOf(q, k) \ {Head(q)} \subseteq WorkOf(p, k)
  BY <1>1, <1>2 DEF WorkOf
<1>6. ASSUME Head(q).key = k
      PROVE  /\ Head(q) \in WorkOf(q, k)
             /\ \A m \in WorkOf(q, k) : Rank(Head(q)) <= Rank(m)
  <2>1. Head(q) \in WorkOf(q, k)
    BY <1>1, <1>6, Zenon DEF WorkOf
  <2>2. ASSUME NEW i \in 1..Len(q), q[i].key = k
        PROVE  Rank(q[1]) <= Rank(q[i])
    <3>1. ~(Rank(q[i]) < Rank(q[1]))
      BY <1>1, <1>6, <2>2 DEF Ordered
    <3>2. Rank(q[i]) \in {0, 1, 2} /\ Rank(q[1]) \in {0, 1, 2}
      BY <1>1, RankType, Zenon
    <3> QED BY <3>1, <3>2
  <2> QED BY <1>1, <2>1, <2>2, Zenon DEF WorkOf
<1> QED BY <1>3, <1>4, <1>5, <1>6, Zenon DEF p

\* A message enters a queue: it is new and of the highest rank, or of another key.
LEMMA AppendQueue ==
  ASSUME NEW q \in Seq(Message), NEW m \in Message, NEW k \in Key, Ordered(q, k),
         m.key = k => m \notin WorkOf(q, k) /\ \A n \in WorkOf(q, k) : Rank(n) <= Rank(m)
  PROVE  /\ Append(q, m) \in Seq(Message)
         /\ Ordered(Append(q, m), k)
         /\ WorkOf(Append(q, m), k) = WorkOf(q, k) \cup (IF m.key = k THEN {m} ELSE {})
<1> DEFINE p == Append(q, m)
<1>1. /\ p \in Seq(Message) /\ Len(q) \in Nat /\ Len(p) = Len(q) + 1
      /\ \A i \in 1..Len(q) : p[i] = q[i] /\ i \in 1..Len(p) /\ i < Len(p)
      /\ p[Len(p)] = m /\ Len(p) \in 1..Len(p)
      /\ \A i \in 1..Len(p) : i \in 1..Len(q) \/ i = Len(p)
  OBVIOUS
<1> HIDE DEF p
<1>2. Ordered(p, k)
  <2> SUFFICES ASSUME NEW i \in 1..Len(p), NEW j \in 1..Len(p), p[i].key = k, p[j].key = k
               PROVE  (p[i] = p[j] => i = j) /\ (Rank(p[i]) < Rank(p[j]) => i < j)
    BY Zenon DEF Ordered
  <2>1. CASE i \in 1..Len(q) /\ j \in 1..Len(q)
    BY <1>1, <2>1, Zenon DEF Ordered
  <2>2. CASE i \in 1..Len(q) /\ j = Len(p)
    <3>1. p[i] \in WorkOf(q, k) /\ p[j] = m /\ m.key = k
      BY <1>1, <2>2, Zenon DEF WorkOf
    <3> QED BY <1>1, <2>2, <3>1, Zenon
  <2>3. CASE i = Len(p) /\ j \in 1..Len(q)
    <3>1. p[j] \in WorkOf(q, k) /\ p[i] = m /\ m.key = k
      BY <1>1, <2>3, Zenon DEF WorkOf
    <3>2. Rank(p[j]) <= Rank(p[i]) /\ p[j] \in Message
      BY <1>1, <3>1
    <3>3. Rank(p[i]) \in {0, 1, 2} /\ Rank(p[j]) \in {0, 1, 2}
      BY <3>1, <3>2, RankType, Zenon
    <3> QED BY <3>1, <3>2, <3>3
  <2>4. CASE i = Len(p) /\ j = Len(p)
    BY <1>1, <2>4, RankType
  <2> QED BY <1>1, <2>1, <2>2, <2>3, <2>4, Zenon
<1>3. WorkOf(p, k) = WorkOf(q, k) \cup (IF m.key = k THEN {m} ELSE {})
  BY <1>1, Zenon DEF WorkOf
<1> QED BY <1>1, <1>2, <1>3, Zenon DEF p

-----------------------------------------------------------------------------
(* Consequences of the definitions *)

\* The messages of k in a queue, and whether an ALL_RECV is among them.
LEMMA QueueTypes ==
  ASSUME NEW q \in Seq(Message), NEW k \in Key
  PROVE  /\ \A m \in WorkOf(q, k) : m \in Message /\ m.key = k
         /\ (\E i \in 1..Len(q) : q[i].ops = "ALL_RECV" /\ q[i].key = k)
              <=> \E m \in WorkOf(q, k) : ~IsData(m)
<1>1. \A i \in 1..Len(q) : q[i] \in Message
  OBVIOUS
<1> QED BY <1>1, Zenon DEF WorkOf, IsData

\* The messages of k, now and after a step.
LEMMA WorkType ==
  ASSUME TypeOK, NEW t \in Thread, NEW k \in Key
  PROVE  /\ \A m \in Work(t, k) : m \in Message /\ m.key = k
         /\ AllRecvQueued(t, k) <=> \E m \in Work(t, k) : ~IsData(m)
<1>1. engine_queue[t] \in Seq(Message)
  BY Zenon DEF TypeOK
<1> QED BY <1>1, QueueTypes, ZenonT(60) DEF Work, AllRecvQueued, IsAllRecv

\* The same after a step.
LEMMA WorkTypeNext ==
  ASSUME TypeOK', NEW t \in Thread, NEW k \in Key
  PROVE  /\ \A m \in Work(t, k)' : m \in Message /\ m.key = k
         /\ AllRecvQueued(t, k)' <=> \E m \in Work(t, k)' : ~IsData(m)
<1>1. engine_queue'[t] \in Seq(Message)
  BY Zenon DEF TypeOK
<1> QED BY <1>1, QueueTypes, ZenonT(60) DEF Work, AllRecvQueued, IsAllRecv

\* The parts of a message by its kind.
LEMMA MessageKinds ==
  ASSUME NEW m \in Message
  PROVE  /\ IsData(m) => m.src \in Grad /\ m.src[1] \in Worker /\ m.src[2] \in Round
                         /\ m.src = <<m.src[1], m.src[2]>>
         /\ m.dst = "replica" => IsData(m) /\ m = ReplicaMsg(m.key, m.slot, m.src) /\ m.slot \in Slot
         /\ IsOpening(m) => IsPart(m)
         /\ IsPart(m) => m = StoredMsg(m.ops, m.key, m.src) /\ m.dst # "replica"
         /\ ~IsData(m) => m = AllRecvMsg(m.key) /\ m.dst # "replica"
         /\ IsData(m) => IsPart(m) \/ m.dst = "replica"
BY DEF Message, IsData, IsOpening, IsPart, ReplicaMsg, StoredMsg, AllRecvMsg, Grad

\* What DataKeyInv(j) is about stays, but a round may end.
SameData(j) ==
  /\ request'[j] = request[j]
  /\ has_tensor'[j] = has_tensor[j]
  /\ hash_cache'[j] = hash_cache[j]
  /\ stored'[j] = stored[j]
  /\ replica'[j] = replica[j]
  /\ merged_tensor'[j] = merged_tensor[j]
  /\ \A w \in Worker : round'[w][j] = round[w][j] /\ (sending'[w][j] => Served(j))
  /\ \A t \in Thread :
       /\ is_push_finished'[t][j] => is_push_finished[t][j]
       /\ j \in busy'[t] <=> j \in busy[t]
       /\ Work(t, j)' = Work(t, j)
       /\ Ordered(engine_queue[t], j)'

\* DataKeyInv(j) is kept when nothing it is about changes.
LEMMA DataFrame ==
  ASSUME TypeOK, TypeOK', NEW j \in Key, DataKeyInv(j), SameData(j)
  PROVE  DataKeyInv(j)'
<1>1. /\ AllRecvPending(j)' <=> AllRecvPending(j)
      /\ Busy(j)' <=> Busy(j)
      /\ (Finished(j)' => Finished(j)) /\ (Served(j)' => Served(j))
      /\ InRequest(j)' = InRequest(j)
      /\ Pushed(j)' = Pushed(j)
  <2>1. \A t \in Thread : AllRecvQueued(t, j)' <=> AllRecvQueued(t, j)
    BY WorkType, WorkTypeNext DEF SameData
  <2>2. AllRecvPending(j)' <=> AllRecvPending(j)
    BY <2>1, Zenon DEF SameData, AllRecvPending
  <2>3. InRequest(j)' = InRequest(j)
    BY Zenon DEF SameData, InRequest
  <2> QED BY <2>2, <2>3, Zenon DEF SameData, Busy, Finished, Served, Pushed
<1>2. \A t \in Thread : \A m \in Work(t, j) : m \in Message
  BY WorkType, Zenon
<1>3. WorkInv(j)'
  <2>1. \A t \in Thread : \A m \in Work(t, j) : IsData(m) => m.src[1] \in Worker
    BY <1>2, MessageKinds, Zenon
  <2> QED BY <1>1, <2>1 DEF DataKeyInv, WorkInv, SameData
<1>4. (Opening(j)' <=> Opening(j)) /\ Left(j)' = Left(j)
  BY Zenon DEF SameData, Opening, Left
<1>5. \A S \in SUBSET Worker : PartSum(S, j)' = PartSum(S, j)
  BY Zenon DEF SameData, PartSum, Grad
<1>6. StoreInv(j)'
  <2>1. (Pushed(j) \ Left(j)) \in SUBSET Worker
    BY DEF Pushed, InRequest, TypeOK
  <2>2. PartSum(Pushed(j) \ Left(j), j)' = PartSum(Pushed(j) \ Left(j), j)
    BY <1>1, <1>4, <1>5, <2>1, Zenon DEF PartSum
  <2> QED BY <1>1, <1>4, <2>2, Zenon DEF DataKeyInv, StoreInv, SameData
<1>7. \A s : \A w \in Worker : Holds(s, w, j)' <=> Holds(s, w, j)
  BY Zenon DEF SameData, Holds, SlotQueued
<1>8. ReplicaInv(j)'
  <2>1. CASE AllRecvPending(j)
    BY <1>1, <1>7, <2>1, Zenon DEF DataKeyInv, ReplicaInv
  <2>2. CASE ~AllRecvPending(j)
    <3>1. \A i \in 1..Len(request[j]) : request[j][i] \in Worker
      BY DEF TypeOK
    <3> QED BY <1>1, <1>7, <2>2, <3>1, Zenon DEF DataKeyInv, ReplicaInv, SameData
  <2> QED BY <2>1, <2>2, Zenon
<1>9. OrderInv(j)' /\ MergedInv(j)'
  BY <1>1, Zenon DEF DataKeyInv, OrderInv, MergedInv, SameData
<1> QED BY <1>3, <1>6, <1>8, <1>9, Zenon DEF DataKeyInv

-----------------------------------------------------------------------------
(* The handler *)

\* Initially nothing is queued and nothing declared.
LEMMA DataInit == Init => DataInv
<1> SUFFICES ASSUME Init, NEW k \in Key PROVE DataKeyInv(k)
  BY Zenon DEF DataInv
<1>1. \A t \in Thread : engine_queue[t] = <<>> /\ busy[t] = {} /\ ~is_push_finished[t][k]
  BY Zenon DEF Init
<1>2. \A t \in Thread : Work(t, k) = {} /\ Ordered(engine_queue[t], k)
  BY <1>1 DEF Work, WorkOf, Ordered
<1>3. ~AllRecvPending(k) /\ ~Busy(k) /\ ~Finished(k) /\ ~Served(k)
  <2>1. \A w \in Worker : ~sending[w][k]
    BY DEF Init
  <2> QED BY <1>1, <2>1 DEF AllRecvPending, AllRecvQueued, Busy, Finished, Served
<1>4. ~has_tensor[k] /\ Pushed(k) = {}
  BY <1>3, Zenon DEF Init, Pushed
<1>5. ~Opening(k)
  BY <1>2, Zenon DEF Opening
<1>6. OrderInv(k) /\ WorkInv(k)
  BY <1>1, <1>2, Zenon DEF OrderInv, WorkInv
<1>7. StoreInv(k) /\ ReplicaInv(k) /\ MergedInv(k)
  BY <1>3, <1>4, <1>5, Zenon DEF StoreInv, ReplicaInv, MergedInv
<1> QED BY <1>6, <1>7, Zenon DEF DataKeyInv

\* A key that is not collecting a round has no work queued.
LEMMA NoWork ==
  ASSUME TypeOK, NEW k \in Key, WorkInv(k), Pushed(k) = {}
  PROVE  ~AllRecvPending(k) /\ \A t \in Thread : Work(t, k) = {}
<1>1. ~AllRecvPending(k)
  BY ServerAssumption, Zenon DEF Pushed
<1> SUFFICES ASSUME NEW t \in Thread, NEW m \in Work(t, k) PROVE FALSE
  BY <1>1, Zenon
<1>2. IsData(m)
  BY <1>1, WorkType, Zenon DEF AllRecvPending
<1> QED BY <1>2, Zenon DEF WorkInv

\* Work is of the key's thread, and there is none of a key that is being declared.
LEMMA DeclaringKey ==
  ASSUME TypeOK, NEW k \in Key, KeyInv(k), DataKeyInv(k), ~has_tensor[k]
  PROVE  /\ Pushed(k) = {} /\ ~AllRecvPending(k) /\ ~Busy(k) /\ ~Finished(k)
         /\ \A t \in Thread : Work(t, k) = {}
<1>1. \A t \in Thread : hash_cache[k] # t
  BY DEF KeyInv, Declaring, NoThread, Thread
<1>2. ~AllRecvPending(k) /\ ~Busy(k) /\ ~Finished(k)
  BY <1>1, Zenon DEF KeyInv, RouteInv, AllRecvPending, Busy, Finished
<1>3. Pushed(k) = {}
  BY <1>2, Zenon DEF Pushed
<1> QED BY <1>2, <1>3, NoWork, Zenon DEF DataKeyInv

\* Nothing is queued or taken when the engine's variables stay.
LEMMA SameWork ==
  ASSUME NEW j \in Key, DataKeyInv(j), UNCHANGED engine, NEW t \in Thread
  PROVE  /\ Work(t, j)' = Work(t, j)
         /\ Ordered(engine_queue[t], j)'
         /\ j \in busy'[t] <=> j \in busy[t]
BY DEF DataKeyInv, OrderInv, Ordered, Work, WorkOf, engine

\* An init push keeps DataInv.
LEMMA DataHandleInitPush ==
  ASSUME TypeOK, TypeOK', ServerInv, SendingInv, DataInv, NEW w \in Worker, NEW k \in Key,
         HandleInitPush(w, k)
  PROVE  DataInv'
<1>1. /\ ~has_tensor[k]
      /\ UNCHANGED <<round, sending, hash_cache, merged_tensor>> /\ UNCHANGED engine /\ UNCHANGED flags
  BY Zenon DEF HandleInitPush, route
<1>2. KeyInv(k) /\ DataKeyInv(k)
  BY Zenon DEF ServerInv, DataInv
<1>3. /\ ~AllRecvPending(k) /\ ~Busy(k) /\ ~Finished(k)
      /\ \A t \in Thread : Work(t, k) = {}
  BY <1>1, <1>2, DeclaringKey, Zenon
<1>4. /\ has_tensor'[k] => request'[k] = <<>>
      /\ \A j \in Key : j # k => /\ request'[j] = request[j] /\ has_tensor'[j] = has_tensor[j]
                                 /\ stored'[j] = stored[j] /\ replica'[j] = replica[j]
  <2>1. /\ request \in [Key -> Seq(Worker)] /\ has_tensor \in [Key -> BOOLEAN]
        /\ stored \in [Key -> Tensor] /\ replica \in [Key -> [Slot -> Grad \cup {NoGrad}]]
    BY Zenon DEF TypeOK
  <2>2. CASE Len(Append(request[k], w)) < NumWorkers
    BY <1>1, <2>1, <2>2, Zenon DEF HandleInitPush
  <2>3. CASE ~(Len(Append(request[k], w)) < NumWorkers)
    BY <1>1, <2>1, <2>3, Zenon DEF HandleInitPush
  <2> QED BY <2>2, <2>3, Zenon
<1>5. ASSUME NEW j \in Key, j # k PROVE DataKeyInv(j)'
  <2>1. DataKeyInv(j)
    BY Zenon DEF DataInv
  <2>2. SameData(j)
    BY <1>1, <1>4, <1>5, <2>1, SameWork, Zenon DEF SameData, Served, flags
  <2> QED BY <2>1, <2>2, DataFrame, Zenon
<1>6. DataKeyInv(k)'
  <2>1. \A t \in Thread : Work(t, k)' = {} /\ Ordered(engine_queue[t], k)'
    BY <1>1, <1>2, <1>3, SameWork, Zenon
  <2>2. ~AllRecvPending(k)' /\ ~Busy(k)' /\ ~Finished(k)' /\ ~Served(k)'
    <3>1. \A v \in Worker : ~sending[v][k]
      <4>1. \A v \in Worker : phase[v][k] # "idle"
        BY <1>1, <1>2 DEF KeyInv, Declaring
      <4> QED BY <4>1, Zenon DEF SendingInv
    <3> QED BY <1>1, <1>3, <3>1, SameEngine, Zenon DEF Busy, Finished, Served, engine, flags
  <2>3. ~Opening(k)'
    BY <2>1, Zenon DEF Opening
  <2>4. Pushed(k)' = {}
    BY <1>4, <2>2 DEF Pushed, InRequest
  <2>5. OrderInv(k)' /\ WorkInv(k)'
    BY <2>1, Zenon DEF OrderInv, WorkInv
  <2>6. StoreInv(k)' /\ MergedInv(k)'
    BY <2>2, <2>3, <2>4, Zenon DEF StoreInv, MergedInv
  <2>7. ReplicaInv(k)'
    BY <1>4, <2>2 DEF ReplicaInv
  <2> QED BY <2>5, <2>6, <2>7, Zenon DEF DataKeyInv
<1> QED BY <1>5, <1>6, Zenon DEF DataInv

\* A pull keeps DataInv.
LEMMA DataHandlePull ==
  ASSUME TypeOK, TypeOK', DataInv, NEW w \in Worker, NEW k \in Key, HandlePull(w, k)
  PROVE  DataInv'
<1>1. /\ UNCHANGED <<round, has_tensor, stored, replica, request, merged_tensor, hash_cache>>
      /\ UNCHANGED engine
  BY Zenon DEF HandlePull, store, route
<1>2. ASSUME NEW t \in Thread, NEW j \in Key, is_push_finished'[t][j]
      PROVE  is_push_finished[t][j]
  <2>1. is_push_finished \in [Thread -> [Key -> BOOLEAN]]
    BY Zenon DEF TypeOK
  <2>2. CASE MayAnswer(w, GetThreadID(k), k)
    <3>1. is_push_finished[GetThreadID(k)][k] /\ RecordResponses(GetThreadID(k), k, {w})
      BY <2>2, Zenon DEF HandlePull, MayAnswer
    <3> HIDE DEF GetThreadID
    <3>2. \/ is_push_finished' = [is_push_finished EXCEPT ![GetThreadID(k)][k] = FALSE]
          \/ is_push_finished' = [is_push_finished EXCEPT ![GetThreadID(k)][k] = TRUE]
      BY <3>1, Zenon DEF RecordResponses
    <3> QED BY <1>2, <2>1, <3>1, <3>2, Zenon
  <2>3. CASE ~MayAnswer(w, GetThreadID(k), k)
    BY <1>2, <2>3, Zenon DEF HandlePull
  <2> QED BY <2>2, <2>3, Zenon
<1>3. ASSUME NEW v \in Worker, NEW j \in Key, sending'[v][j]
      PROVE  Served(j)
  <2>1. sending \in [Worker -> [Key -> BOOLEAN]]
    BY Zenon DEF TypeOK
  <2>2. CASE MayAnswer(w, GetThreadID(k), k)
    <3>1. PICK t \in Thread : t = GetThreadID(k)
      <4>1. GetThreadID(k) \in Thread
        BY LeastLoadedType DEF GetThreadID, TypeOK
      <4> QED BY <4>1, Zenon
    <3>2. Finished(k)
      BY <2>2, <3>1, Zenon DEF MayAnswer, Finished
    <3>3. sending' = [u \in Worker |-> [sending[u] EXCEPT ![k] = IF u \in {w} THEN TRUE ELSE @]]
      BY <2>2, Zenon DEF HandlePull, SendPullResponse
    <3>4. CASE j = k
      BY <3>2, <3>4, Zenon DEF Served
    <3>5. CASE j # k
      BY <1>3, <2>1, <3>3, <3>5, Zenon DEF Served
    <3> QED BY <3>4, <3>5, Zenon
  <2>3. CASE ~MayAnswer(w, GetThreadID(k), k)
    <3>1. sending' = sending
      BY <2>3, Zenon DEF HandlePull
    <3> QED BY <1>3, <3>1, Zenon DEF Served
  <2> QED BY <2>2, <2>3, Zenon
<1> SUFFICES ASSUME NEW j \in Key PROVE DataKeyInv(j)'
  BY Zenon DEF DataInv
<1>4. DataKeyInv(j)
  BY Zenon DEF DataInv
<1>5. SameData(j)
  BY <1>1, <1>2, <1>3, <1>4, SameWork, Zenon DEF SameData
<1> QED BY <1>4, <1>5, DataFrame, Zenon

\* What is known of a key when its next push is handled.
LEMMA PushedNow ==
  ASSUME TypeOK, NEW w \in Worker, NEW k \in Key, KeyInv(k), DataKeyInv(k), HandlePush(w, k)
  PROVE  /\ w \notin InRequest(k)
         /\ ~AllRecvPending(k) /\ ~Busy(k)
         /\ Pushed(k) = InRequest(k)
         /\ \A u \in Thread : u # GetThreadID(k) => Work(u, k) = {}
         /\ \A u \in Thread : \A m \in Work(u, k) :
              /\ m \in Message /\ m.key = k /\ IsData(m)
              /\ m.src[1] \in InRequest(k) /\ m.src[1] # w
              /\ m.src[2] = round[m.src[1]][k]
              /\ m.dst = "replica" => m.slot < Len(request[k])
         /\ Len(request[k]) = 0 => \A u \in Thread : Work(u, k) = {}
<1>1. phase[w][k] = "idle" /\ has_tensor[k]
  BY Zenon DEF HandlePush
<1>2. PICK e \in Round : Rounds(k, e) /\ (Pending(k) \/ Answering(k) \/ Between(k))
  BY <1>1, Zenon DEF KeyInv, Training
<1>3. w \notin InRequest(k)
  BY <1>1, <1>2, Zenon DEF Rounds
<1>4. ~AllRecvPending(k) /\ ~Busy(k)
  BY <1>1, <1>2, Zenon DEF Pending, Answering, Between, AllRecvPending, Busy
<1>5. Pushed(k) = InRequest(k)
  BY <1>1, <1>4, Zenon DEF Pushed
<1>6. ASSUME NEW u \in Thread, NEW m \in Work(u, k)
      PROVE  /\ m \in Message /\ m.key = k /\ IsData(m)
             /\ m.src[1] \in InRequest(k) /\ m.src[1] # w
             /\ m.src[2] = round[m.src[1]][k]
             /\ m.dst = "replica" => m.slot < Len(request[k])
             /\ hash_cache[k] = u
  <2>1. m \in Message /\ m.key = k /\ IsData(m)
    BY <1>4, WorkType, Zenon DEF AllRecvPending
  <2> QED BY <1>3, <1>4, <1>5, <2>1 DEF DataKeyInv, WorkInv
<1>7. \A u \in Thread : u # GetThreadID(k) => Work(u, k) = {}
  BY <1>6 DEF GetThreadID, Thread, NoThread
<1>8. Len(request[k]) = 0 => \A u \in Thread : Work(u, k) = {}
  BY <1>6 DEF InRequest
<1> QED BY <1>3, <1>4, <1>5, <1>6, <1>7, <1>8, Zenon

\* The messages of a push join the queue of the key's thread, in order.
LEMMA PushWork ==
  ASSUME TypeOK, ServerInv, DataInv, NEW w \in Worker, NEW k \in Key, HandlePush(w, k),
         NEW t \in Thread, t = GetThreadID(k),
         NEW op, op = IF Len(request[k]) = 0 THEN "COPY_FIRST" ELSE "SUM_RECV",
         NEW g, g = <<w, round[w][k] + 1>>
  PROVE  /\ g \in Grad
         /\ Len(request[k]) \in Slot
         /\ \A u \in Thread, j \in Key :
              /\ Ordered(engine_queue[u], j)'
              /\ u # t \/ j # k => Work(u, j)' = Work(u, j)
         /\ Work(t, k)' = Work(t, k) \cup {StoredMsg(op, k, g), ReplicaMsg(k, Len(request[k]), g)}
                            \cup (IF LastPush(k) THEN {AllRecvMsg(k)} ELSE {})
<1> DEFINE n  == Len(request[k])
           q  == engine_queue[t]
           m1 == StoredMsg(op, k, g)
           m2 == ReplicaMsg(k, n, g)
           m3 == AllRecvMsg(k)
           q1 == Append(q, m1)
           q2 == Append(q1, m2)
           q3 == Append(q2, m3)
           r  == IF LastPush(k) THEN q3 ELSE q2
<1>1. /\ engine_queue \in [Thread -> Seq(Message)] /\ q \in Seq(Message)
      /\ round \in [Worker -> [Key -> Round]] /\ request \in [Key -> Seq(Worker)]
  BY Zenon DEF TypeOK
<1>2. KeyInv(k) /\ DataKeyInv(k) /\ \A j \in Key : DataKeyInv(j)
  BY Zenon DEF ServerInv, DataInv
<1>3. g \in Grad /\ n \in Slot
  <2>1. round[w][k] < MaxRound
    BY Zenon DEF HandlePush
  <2>2. round[w][k] + 1 \in Round
    BY <1>1, <2>1, ServerAssumption DEF Round
  <2>3. n < NumWorkers /\ n \in Nat
    BY <1>1, <1>2 DEF KeyInv, RequestInv
  <2> QED BY <2>2, <2>3, NumWorkersType DEF Grad, Slot
<1>4. m1 \in Message /\ m2 \in Message /\ m3 \in Message
  BY <1>3, MessageTypes, Zenon
<1>5. /\ m1.key = k /\ m2.key = k /\ m3.key = k
      /\ IsData(m1) /\ IsData(m2) /\ ~IsData(m3)
      /\ m1.src = g /\ m2.src = g /\ m1.dst = "stored" /\ m2.dst = "replica"
      /\ IsOpening(m1) <=> n = 0
      /\ ~IsOpening(m2) /\ ~IsOpening(m3)
  BY Zenon DEF StoredMsg, ReplicaMsg, AllRecvMsg, IsData, IsOpening
<1>6. engine_queue' = [engine_queue EXCEPT ![t] = r]
  <2>1. PushMessages(w, k) = IF LastPush(k) THEN Append(<<m1, m2>>, m3) ELSE <<m1, m2>>
    BY Zenon DEF PushMessages
  <2>2. engine_queue' = [engine_queue EXCEPT ![t] = @ \o PushMessages(w, k)]
    BY Zenon DEF HandlePush
  <2> HIDE DEF m1, m2, m3, n
  <2>3. q \o Append(<<m1, m2>>, m3) = q3 /\ q \o <<m1, m2>> = q2
    BY <1>1, <1>4
  <2>4. engine_queue[t] \o PushMessages(w, k) = r
    BY <2>1, <2>3, Zenon
  <2> QED BY <1>1, <2>2, <2>4, Zenon
<1>7. /\ \A m \in Work(t, k) : IsData(m) /\ m.src[1] # w
      /\ n = 0 => Work(t, k) = {}
  BY <1>2, PushedNow
<1>8. \A j \in Key : Ordered(q, j)
  BY <1>2, Zenon DEF DataKeyInv, OrderInv
<1> HIDE DEF m1, m2, m3, n, q, q1, q2, q3, r
<1>9. Work(t, k) = WorkOf(q, k) /\ g[1] = w
  BY Zenon DEF Work, q
<1>10. /\ q1 \in Seq(Message)
       /\ \A j \in Key : /\ Ordered(q1, j)
                         /\ WorkOf(q1, j) = WorkOf(q, j) \cup (IF j = k THEN {m1} ELSE {})
  <2> SUFFICES ASSUME NEW j \in Key
               PROVE  /\ q1 \in Seq(Message) /\ Ordered(q1, j)
                      /\ WorkOf(q1, j) = WorkOf(q, j) \cup (IF j = k THEN {m1} ELSE {})
    BY Zenon
  <2>1. m1.key = j => m1 \notin WorkOf(q, j) /\ \A x \in WorkOf(q, j) : Rank(x) <= Rank(m1)
    <3>1. m1 \notin WorkOf(q, k)
      BY <1>5, <1>7, <1>9, Zenon
    <3>2. n # 0 => \A x \in WorkOf(q, k) : Rank(x) <= Rank(m1)
      BY <1>5, <1>7, <1>9 DEF Rank
    <3> QED BY <1>5, <1>7, <1>9, <3>1, <3>2, Zenon
  <2>2. /\ Append(q, m1) \in Seq(Message)
        /\ Ordered(Append(q, m1), j)
        /\ WorkOf(Append(q, m1), j) = WorkOf(q, j) \cup (IF m1.key = j THEN {m1} ELSE {})
    BY <1>1, <1>4, <1>8, <2>1, AppendQueue, ZenonT(60)
  <2> QED BY <1>5, <2>2, Zenon DEF q1
<1>11. /\ q2 \in Seq(Message)
       /\ \A j \in Key : /\ Ordered(q2, j)
                         /\ WorkOf(q2, j) = WorkOf(q, j) \cup (IF j = k THEN {m1, m2} ELSE {})
  <2> SUFFICES ASSUME NEW j \in Key
               PROVE  /\ q2 \in Seq(Message) /\ Ordered(q2, j)
                      /\ WorkOf(q2, j) = WorkOf(q, j) \cup (IF j = k THEN {m1, m2} ELSE {})
    BY Zenon
  <2>1. m2.key = j => m2 \notin WorkOf(q1, j) /\ \A x \in WorkOf(q1, j) : Rank(x) <= Rank(m2)
    <3>1. m2 \notin WorkOf(q, k) /\ m2 # m1
      BY <1>5, <1>7, <1>9, Zenon
    <3>2. \A x \in WorkOf(q, k) \cup {m1} : Rank(x) <= Rank(m2)
      BY <1>5, <1>7, <1>9 DEF Rank
    <3>3. WorkOf(q1, k) = WorkOf(q, k) \cup {m1}
      BY <1>10, Zenon
    <3> QED BY <1>5, <3>1, <3>2, <3>3, Zenon
  <2>2. /\ Append(q1, m2) \in Seq(Message)
        /\ Ordered(Append(q1, m2), j)
        /\ WorkOf(Append(q1, m2), j) = WorkOf(q1, j) \cup (IF m2.key = j THEN {m2} ELSE {})
    BY <1>4, <1>10, <2>1, AppendQueue, ZenonT(60)
  <2> QED BY <1>5, <1>10, <2>2, Zenon DEF q2
<1>12. /\ q3 \in Seq(Message)
       /\ \A j \in Key : /\ Ordered(q3, j)
                         /\ WorkOf(q3, j) = WorkOf(q, j) \cup (IF j = k THEN {m1, m2, m3} ELSE {})
  <2> SUFFICES ASSUME NEW j \in Key
               PROVE  /\ q3 \in Seq(Message) /\ Ordered(q3, j)
                      /\ WorkOf(q3, j) = WorkOf(q, j) \cup (IF j = k THEN {m1, m2, m3} ELSE {})
    BY Zenon
  <2>1. m3.key = j => m3 \notin WorkOf(q2, j) /\ \A x \in WorkOf(q2, j) : Rank(x) <= Rank(m3)
    <3>1. WorkOf(q2, k) = WorkOf(q, k) \cup {m1, m2}
      BY <1>11, Zenon
    <3>2. \A x \in WorkOf(q2, k) : IsData(x)
      BY <1>5, <1>7, <1>9, <3>1, Zenon
    <3>3. \A x \in WorkOf(q2, k) : Rank(x) <= Rank(m3)
      BY <1>5, <3>2 DEF Rank
    <3> QED BY <1>5, <3>2, <3>3, Zenon
  <2>2. /\ Append(q2, m3) \in Seq(Message)
        /\ Ordered(Append(q2, m3), j)
        /\ WorkOf(Append(q2, m3), j) = WorkOf(q2, j) \cup (IF m3.key = j THEN {m3} ELSE {})
    BY <1>4, <1>11, <2>1, AppendQueue, ZenonT(60)
  <2> QED BY <1>5, <1>11, <2>2, Zenon DEF q3
<1>13. engine_queue'[t] = r /\ \A u \in Thread : u # t => engine_queue'[u] = engine_queue[u]
  BY <1>1, <1>6, Zenon
<1>14. \A j \in Key : /\ Ordered(r, j)
                      /\ WorkOf(r, j) = WorkOf(q, j) \cup
                           (IF j = k THEN {m1, m2} \cup (IF LastPush(k) THEN {m3} ELSE {}) ELSE {})
  BY <1>11, <1>12, Zenon DEF r
<1>15. ASSUME NEW u \in Thread, NEW j \in Key
       PROVE  /\ Ordered(engine_queue[u], j)'
              /\ u # t \/ j # k => Work(u, j)' = Work(u, j)
  <2>1. CASE u = t
    <3>1. Ordered(engine_queue'[t], j) /\ (j # k => WorkOf(engine_queue'[t], j) = WorkOf(q, j))
      <4>1. WorkOf(q, j) \cup {} = WorkOf(q, j)
        BY Zenon
      <4> QED BY <1>13, <1>14, <4>1, Zenon
    <3> QED BY <2>1, <3>1 DEF Work, Ordered, WorkOf, q
  <2>2. CASE u # t
    <3>1. Ordered(engine_queue[u], j) /\ engine_queue'[u] = engine_queue[u]
      BY <1>2, <1>13, <2>2, Zenon DEF DataKeyInv, OrderInv
    <3> QED BY <3>1, ZenonT(60) DEF Work, Ordered, WorkOf
  <2> QED BY <2>1, <2>2, Zenon
<1>16. Work(t, k)' = Work(t, k) \cup {m1, m2} \cup (IF LastPush(k) THEN {m3} ELSE {})
  <2>1. Work(t, k)' = WorkOf(engine_queue'[t], k)
    BY Zenon DEF Work, WorkOf
  <2> QED BY <1>9, <1>13, <1>14, <2>1
<1> QED BY <1>3, <1>15, <1>16, Zenon DEF m1, m2, m3, n

\* The sum over S is that of the same pushes after a step that S takes no part in.
LEMMA SamePartSum ==
  ASSUME NEW k \in Key, NEW S, \A v \in S : round'[v][k] = round[v][k]
  PROVE  PartSum(S, k)' = PartSum(S, k)
BY Zenon DEF PartSum

\* A push of w enters the request buffer b of k as the n-th request, with gradient g.
PushRequest(w, k, n, g, b, last) ==
  /\ n = Len(request[k])
  /\ g[1] = w /\ g = <<w, round'[w][k]>>
  /\ \A v \in Worker : v # w => round'[v][k] = round[v][k]
  /\ b = Append(request[k], w) /\ b \in Seq(Worker) /\ Len(b) = n + 1
  /\ \A i, j \in 1..Len(b) : b[i] = b[j] => i = j
  /\ {b[i] : i \in 1..Len(b)} = InRequest(k) \cup {w}
  /\ w \notin InRequest(k) /\ InRequest(k) \in SUBSET Worker
  /\ request'[k] = IF last THEN <<>> ELSE b
  /\ last => InRequest(k) \cup {w} = Worker /\ Slot = 0..n
  /\ ~last => InRequest(k)' = InRequest(k) \cup {w}
  /\ Pushed(k) = InRequest(k) /\ Pushed(k)' = InRequest(k) \cup {w}
  /\ AllRecvPending(k)' <=> last
  /\ ~AllRecvPending(k) /\ ~Busy(k) /\ ~Busy(k)'
  /\ (Finished(k)' <=> Finished(k)) /\ (Served(k)' <=> Served(k))
  /\ Served(k) => ~last

\* It adds the messages m1 for the store and m2 for a replica slot to the work of t, and
\* the last one of a round an ALL_RECV.
PushQueue(w, k, t, n, g, m1, m2, last) ==
  /\ m2 = ReplicaMsg(k, n, g)
  /\ IsData(m1) /\ IsData(m2) /\ m1.src = g /\ m2.src = g
  /\ m1.dst = "stored" /\ m2.dst = "replica" /\ m2.slot = n
  /\ IsOpening(m1) <=> n = 0
  /\ ~IsOpening(m2) /\ IsPart(m1) /\ ~IsPart(m2)
  /\ \A m \in Work(t, k)' :
       \/ m \in Work(t, k) \/ m = m1 \/ m = m2
       \/ last /\ ~IsData(m) /\ m.dst = "stored" /\ ~IsOpening(m) /\ ~IsPart(m)
  /\ Work(t, k) \subseteq Work(t, k)' /\ m1 \in Work(t, k)' /\ m2 \in Work(t, k)'
  /\ \A u \in Thread : u # t => Work(u, k) = {} /\ Work(u, k)' = {}
  /\ \A u \in Thread : \A m \in Work(u, k) :
       /\ m \in Message /\ IsData(m)
       /\ m.src[1] \in InRequest(k) /\ m.src[1] # w
       /\ m.src[2] = round[m.src[1]][k]
       /\ m.dst = "replica" => m.slot < n
  /\ n = 0 => \A u \in Thread : Work(u, k) = {}
  /\ hash_cache'[k] = t

\* A push leaves the other keys alone.
PushApart(k) ==
  \A j \in Key : j # k =>
    /\ request'[j] = request[j] /\ hash_cache'[j] = hash_cache[j]
    /\ \A v \in Worker : round'[v][j] = round[v][j]
    /\ \A u \in Thread : Work(u, j)' = Work(u, j)

\* What a push does to the request buffer and to the queue (server.cc:337-434).
LEMMA PushEffect ==
  ASSUME TypeOK, TypeOK', ServerInv, SendingInv, DataInv, NEW w \in Worker, NEW k \in Key,
         HandlePush(w, k)
  PROVE  \E t \in Thread, n \in Nat, last \in BOOLEAN : \E g, b, m1, m2 :
           /\ PushRequest(w, k, n, g, b, last)
           /\ PushQueue(w, k, t, n, g, m1, m2, last)
           /\ PushApart(k)
           /\ \A u \in Thread, j \in Key : Ordered(engine_queue[u], j)'
<1>0. PICK t \in Thread : t = GetThreadID(k)
  <2>1. GetThreadID(k) \in Thread
    BY LeastLoadedType DEF GetThreadID, TypeOK
  <2> QED BY <2>1, Zenon
<1>1. PICK op : op = IF Len(request[k]) = 0 THEN "COPY_FIRST" ELSE "SUM_RECV"
  BY Zenon
<1>2. PICK g : g = <<w, round[w][k] + 1>>
  BY Zenon
<1>n. PICK n \in Nat : n = Len(request[k])
  BY DEF TypeOK
<1> DEFINE m1   == StoredMsg(op, k, g)
           m2   == ReplicaMsg(k, n, g)
           m3   == AllRecvMsg(k)
           last == LastPush(k)
           b    == Append(request[k], w)
<1>3. /\ phase[w][k] = "idle" /\ ~sending[w][k] /\ sending' = sending /\ has_tensor[k]
      /\ request' = [request EXCEPT ![k] = IF last THEN <<>> ELSE b]
      /\ CacheThreadID(k)
      /\ round' = [round EXCEPT ![w][k] = @ + 1]
      /\ UNCHANGED <<has_tensor, stored, replica, merged_tensor, busy>> /\ UNCHANGED flags
  BY Zenon DEF HandlePush
<1>4. /\ g \in Grad /\ n \in Slot
      /\ \A u \in Thread, j \in Key : /\ Ordered(engine_queue[u], j)'
                                      /\ u # t \/ j # k => Work(u, j)' = Work(u, j)
      /\ Work(t, k)' = Work(t, k) \cup {m1, m2} \cup (IF last THEN {m3} ELSE {})
  <2> HIDE DEF m1, m2, m3, last, b
  <2>1. /\ g \in Grad
        /\ Len(request[k]) \in Slot
        /\ \A u \in Thread, j \in Key :
             /\ Ordered(engine_queue[u], j)'
             /\ u # t \/ j # k => Work(u, j)' = Work(u, j)
        /\ Work(t, k)' = Work(t, k) \cup {StoredMsg(op, k, g), ReplicaMsg(k, Len(request[k]), g)}
                            \cup (IF LastPush(k) THEN {AllRecvMsg(k)} ELSE {})
    BY <1>0, <1>1, <1>2, PushWork
  <2> QED BY <1>n, <2>1, Zenon DEF m1, m2, m3, last
<1>5. KeyInv(k) /\ DataKeyInv(k)
  BY Zenon DEF ServerInv, DataInv
<1>6. /\ w \notin InRequest(k)
      /\ ~AllRecvPending(k) /\ ~Busy(k)
      /\ Pushed(k) = InRequest(k)
      /\ \A u \in Thread : u # t => Work(u, k) = {}
      /\ \A u \in Thread : \A m \in Work(u, k) :
           /\ m \in Message /\ m.key = k /\ IsData(m)
           /\ m.src[1] \in InRequest(k) /\ m.src[1] # w
           /\ m.src[2] = round[m.src[1]][k]
           /\ m.dst = "replica" => m.slot < n
      /\ n = 0 => \A u \in Thread : Work(u, k) = {}
  BY <1>0, <1>n, <1>5, PushedNow
<1>7. /\ round \in [Worker -> [Key -> Round]] /\ request \in [Key -> Seq(Worker)]
      /\ InRequest(k) \in SUBSET Worker /\ n \in Nat
  BY DEF TypeOK, InRequest
<1>8. /\ round'[w][k] = g[2] /\ g = <<w, g[2]>> /\ g[1] = w
      /\ \A v \in Worker : v # w => round'[v][k] = round[v][k]
      /\ \A v \in Worker, j \in Key : j # k => round'[v][j] = round[v][j]
  BY <1>2, <1>3, <1>7, Zenon
<1>9. /\ b \in Seq(Worker) /\ Len(b) = n + 1
      /\ \A i, j \in 1..Len(b) : b[i] = b[j] => i = j
      /\ {b[i] : i \in 1..Len(b)} = InRequest(k) \cup {w}
      /\ last => InRequest(k) \cup {w} = Worker
  <2>1. /\ request[k] \in Seq(Worker)
        /\ \A i, j \in 1..Len(request[k]) : request[k][i] = request[k][j] => i = j
        /\ w \notin {request[k][i] : i \in 1..Len(request[k])}
    BY <1>5, <1>6, <1>7, Zenon DEF KeyInv, RequestInv, InRequest
  <2>2. /\ b \in Seq(Worker) /\ Len(b) = n + 1
        /\ \A i, j \in 1..Len(b) : b[i] = b[j] => i = j
        /\ {b[i] : i \in 1..Len(b)} = InRequest(k) \cup {w}
        /\ Len(b) = NumWorkers => InRequest(k) \cup {w} = Worker
    BY <1>n, <2>1, AppendRequest, ZenonT(60) DEF InRequest
  <2> QED BY <1>n, <2>2, Zenon DEF LastPush
<1>10. /\ m1.key = k /\ m2.key = k /\ m3.key = k
       /\ IsData(m1) /\ IsData(m2) /\ ~IsData(m3)
       /\ m1.src = g /\ m2.src = g
       /\ m1.dst = "stored" /\ m2.dst = "replica" /\ m3.dst = "stored" /\ m2.slot = n
       /\ IsOpening(m1) <=> n = 0
       /\ ~IsOpening(m2) /\ ~IsOpening(m3)
       /\ IsPart(m1) /\ ~IsPart(m2) /\ ~IsPart(m3)
  BY <1>1, <1>n, Zenon DEF StoredMsg, ReplicaMsg, AllRecvMsg, IsData, IsOpening, IsPart
<1>11. hash_cache'[k] = t /\ \A j \in Key : j # k => hash_cache'[j] = hash_cache[j]
  BY <1>0, <1>3, CachedThread, Zenon
<1> HIDE DEF m1, m2, m3, last, b
<1>13. /\ \A m \in Work(t, k)' : m \in Work(t, k) \/ m = m1 \/ m = m2 \/ (last /\ m = m3)
       /\ Work(t, k) \subseteq Work(t, k)' /\ m1 \in Work(t, k)' /\ m2 \in Work(t, k)'
       /\ last => m3 \in Work(t, k)'
       /\ \A u \in Thread : u # t => Work(u, k)' = {}
  BY <1>4, <1>6, Zenon
<1>14. /\ (AllRecvPending(k)' <=> last) /\ ~Busy(k)'
       /\ (Finished(k)' <=> Finished(k)) /\ (Served(k)' <=> Served(k))
  <2>1. ASSUME NEW u \in Thread PROVE AllRecvQueued(u, k)' <=> u = t /\ last
    <3>1. AllRecvQueued(u, k)' <=> \E m \in Work(u, k)' : ~IsData(m)
      BY WorkTypeNext, Zenon
    <3>2. CASE u # t
      BY <1>13, <3>1, <3>2, Zenon
    <3>3. CASE u = t
      BY <1>6, <1>10, <1>13, <3>1, <3>3, Zenon
    <3> QED BY <3>2, <3>3, Zenon
  <2> QED BY <1>0, <1>3, <1>6, <2>1, Zenon DEF AllRecvPending, Busy, Finished, Served, flags
<1>15. /\ request'[k] = IF last THEN <<>> ELSE b
       /\ ~last => InRequest(k)' = InRequest(k) \cup {w}
       /\ Pushed(k)' = InRequest(k) \cup {w}
  <2>1. request'[k] = IF last THEN <<>> ELSE b
    BY <1>3, <1>7, Zenon
  <2>2. ~last => InRequest(k)' = InRequest(k) \cup {w}
    <3>1. InRequest(k)' = {request'[k][i] : i \in 1..Len(request'[k])}
      BY Zenon DEF InRequest
    <3>2. ~last => request'[k] = b
      BY <2>1, Zenon
    <3>3. ~last => InRequest(k)' = {b[i] : i \in 1..Len(b)}
      BY <3>1, <3>2, Zenon
    <3> QED BY <1>9, <3>3, Zenon
  <2>3. has_tensor'[k]
    BY <1>3, Zenon
  <2> QED BY <1>9, <1>14, <2>1, <2>2, <2>3, Zenon DEF Pushed
<1>16. PushRequest(w, k, n, g, b, last)
  <2>1. last => Slot = 0..n
    BY <1>n DEF last, LastPush, Slot
  <2>2. Served(k) => ~last
    <3>1. Finished(k) => Answering(k)
      BY <1>3, <1>5, Zenon DEF KeyInv, Training, Pending, Between
    <3>2. Finished(k) => ~last
      BY <1>3, <1>9, <3>1, ZenonT(60) DEF Answering
    <3>3. ASSUME NEW v \in Worker, sending[v][k] PROVE ~last
      <4>1. v # w /\ phase[v][k] = "idle"
        BY <1>3, <3>3, Zenon DEF SendingInv
      <4>2. v \notin InRequest(k)
        BY <1>3, <1>5, <4>1 DEF KeyInv, Training, Rounds
      <4> QED BY <1>9, <4>1, <4>2, Zenon
    <3> QED BY <3>2, <3>3, Zenon DEF Served
  <2>3. b = Append(request[k], w)
    BY Zenon DEF b
  <2>4. g[1] = w /\ g = <<w, round'[w][k]>> /\ \A v \in Worker : v # w => round'[v][k] = round[v][k]
    BY <1>8, Zenon
  <2> QED BY <1>n, <1>6, <1>7, <1>9, <1>14, <1>15, <2>1, <2>2, <2>3, <2>4, ZenonT(60) DEF PushRequest
<1>17. PushQueue(w, k, t, n, g, m1, m2, last)
  <2>1. m2 = ReplicaMsg(k, n, g)
    BY Zenon DEF m2
  <2> QED BY <1>6, <1>10, <1>11, <1>13, <2>1, ZenonT(60) DEF PushQueue
<1>18. PushApart(k)
  <2>1. \A j \in Key : j # k => request'[j] = request[j]
    BY <1>3, <1>7, Zenon
  <2> QED BY <1>4, <1>8, <1>11, <2>1, ZenonT(60) DEF PushApart
<1>19. last \in BOOLEAN
  BY Zenon DEF last, LastPush
<1> QED BY <1>4, <1>16, <1>17, <1>18, <1>19, ZenonT(60)

\* A push keeps what it says of the other keys.
LEMMA PushOther ==
  ASSUME TypeOK, TypeOK', DataInv, NEW w \in Worker, NEW k \in Key, HandlePush(w, k), PushApart(k),
         \A u \in Thread, j \in Key : Ordered(engine_queue[u], j)',
         NEW j \in Key, j # k
  PROVE  DataKeyInv(j)'
<1>1. UNCHANGED <<has_tensor, sending, stored, replica, merged_tensor, busy>> /\ UNCHANGED flags
  BY Zenon DEF HandlePush
<1>2. SameData(j)
  BY <1>1, Zenon DEF SameData, Served, PushApart, flags
<1> QED BY <1>2, DataFrame, Zenon DEF DataInv

\* The gradients that are queued after a push are those of the round.
LEMMA PushKeepsWork ==
  ASSUME TypeOK, NEW w \in Worker, NEW k \in Key, WorkInv(k), NEW t \in Thread, NEW n \in Nat,
         NEW last \in BOOLEAN, NEW g, NEW b, NEW m1, NEW m2,
         PushRequest(w, k, n, g, b, last), PushQueue(w, k, t, n, g, m1, m2, last)
  PROVE  WorkInv(k)'
<1>1. /\ \A m \in Work(t, k)' :
           \/ m \in Work(t, k) \/ m = m1 \/ m = m2
           \/ last /\ ~IsData(m) /\ m.dst = "stored" /\ ~IsOpening(m) /\ ~IsPart(m)
      /\ \A u \in Thread : u # t => Work(u, k)' = {}
      /\ \A m \in Work(t, k) : /\ m \in Message
                               /\ m.src[1] \in InRequest(k) /\ m.src[1] # w
                               /\ m.src[2] = round[m.src[1]][k]
                               /\ m.dst = "replica" => m.slot < n
      /\ n = 0 => Work(t, k) = {}
  BY Zenon DEF PushQueue
<1>2. /\ IsData(m1) /\ IsData(m2) /\ m1.src = g /\ m2.src = g
      /\ m1.dst = "stored" /\ m2.slot = n /\ (IsOpening(m1) <=> n = 0)
      /\ ~IsOpening(m2) /\ ~IsPart(m2) /\ hash_cache'[k] = t
  BY Zenon DEF PushQueue
<1>3. /\ g[1] = w /\ g[2] = round'[w][k]
      /\ \A v \in Worker : v # w => round'[v][k] = round[v][k]
      /\ w \notin InRequest(k) /\ InRequest(k) \in SUBSET Worker
      /\ Pushed(k)' = InRequest(k) \cup {w}
      /\ ~AllRecvPending(k)' => Len(request'[k]) = n + 1
      /\ ~Busy(k)'
  BY DEF PushRequest
<1>4. \A m \in Work(t, k) : m.dst = "replica" => m.slot \in Nat
  BY <1>1, MessageKinds DEF Slot
<1> SUFFICES ASSUME NEW u \in Thread
             PROVE  /\ (k \in busy[u])' => Work(u, k)' = {}
                    /\ \A m \in Work(u, k)' : IsData(m) =>
                         /\ hash_cache'[k] = u
                         /\ m.src[1] \in Pushed(k)'
                         /\ m.src[2] = round'[m.src[1]][k]
                         /\ m.dst = "replica" /\ ~AllRecvPending(k)' => m.slot < Len(request'[k])
                    /\ \A x, y \in Work(u, k)' :
                         /\ IsOpening(x) /\ IsOpening(y) => x = y
                         /\ IsPart(x) /\ IsPart(y) /\ x.src = y.src => x = y
                         /\ x.dst = "replica" /\ y.dst = "replica" /\ x.slot = y.slot => x = y
  BY Zenon DEF WorkInv
<1>5. k \notin busy'[u]
  BY <1>3, Zenon DEF Busy
<1>6. ASSUME NEW m \in Work(u, k)', IsData(m)
      PROVE  /\ hash_cache'[k] = u
             /\ m.src[1] \in Pushed(k)'
             /\ m.src[2] = round'[m.src[1]][k]
             /\ m.dst = "replica" /\ ~AllRecvPending(k)' => m.slot < Len(request'[k])
  <2>1. u = t
    BY <1>1, Zenon
  <2>2. CASE m \in Work(t, k)
    <3>1. round'[m.src[1]][k] = round[m.src[1]][k]
      BY <1>1, <1>3, <2>2, Zenon
    <3> QED BY <1>1, <1>2, <1>3, <1>4, <2>1, <2>2, <3>1
  <2>3. CASE m = m1 \/ m = m2
    BY <1>2, <1>3, <2>1, <2>3
  <2> QED BY <1>1, <1>6, <2>1, <2>2, <2>3, Zenon
<1>7. ASSUME NEW x \in Work(u, k)', NEW y \in Work(u, k)'
      PROVE  /\ IsOpening(x) /\ IsOpening(y) => x = y
             /\ IsPart(x) /\ IsPart(y) /\ x.src = y.src => x = y
             /\ x.dst = "replica" /\ y.dst = "replica" /\ x.slot = y.slot => x = y
  <2>1. u = t
    BY <1>1, Zenon
  <2>2. \A a, c \in Work(t, k) :
          /\ IsOpening(a) /\ IsOpening(c) => a = c
          /\ IsPart(a) /\ IsPart(c) /\ a.src = c.src => a = c
          /\ a.dst = "replica" /\ c.dst = "replica" /\ a.slot = c.slot => a = c
    BY Zenon DEF WorkInv
  <2>3. \A a \in Work(t, k) : /\ ~(IsOpening(m1) /\ IsOpening(a))
                              /\ a.src # g
                              /\ a.dst = "replica" => a.slot # n
    BY <1>1, <1>2, <1>3, <1>4
  <2> QED BY <1>1, <1>2, <2>1, <2>2, <2>3, Zenon
<1> QED BY <1>5, <1>6, <1>7, Zenon

\* After a push its gradient is still to be added, first when it opens the round.
LEMMA PushLeft ==
  ASSUME NEW w \in Worker, NEW k \in Key, NEW t \in Thread, NEW n \in Nat,
         NEW last \in BOOLEAN, NEW g, NEW b, NEW m1, NEW m2,
         PushRequest(w, k, n, g, b, last), PushQueue(w, k, t, n, g, m1, m2, last)
  PROVE  /\ Opening(k)' <=> Opening(k) \/ n = 0
         /\ Left(k)' = Left(k) \cup {w}
         /\ Left(k) \subseteq InRequest(k)
         /\ n = 0 => InRequest(k) = {} /\ Left(k) = {} /\ ~Opening(k)
         /\ n # 0 => InRequest(k) # {}
<1>1. /\ \A m \in Work(t, k)' : m \in Work(t, k) \/ m = m1 \/ (~IsOpening(m) /\ ~IsPart(m))
      /\ Work(t, k) \subseteq Work(t, k)' /\ m1 \in Work(t, k)'
      /\ \A u \in Thread : u # t => Work(u, k) = {} /\ Work(u, k)' = {}
      /\ \A u \in Thread : \A m \in Work(u, k) : m.src[1] \in InRequest(k)
      /\ n = 0 => \A u \in Thread : Work(u, k) = {}
      /\ (IsOpening(m1) <=> n = 0) /\ IsPart(m1) /\ m1.src = g
  BY Zenon DEF PushQueue
<1>2. g[1] = w /\ n = Len(request[k])
  BY Zenon DEF PushRequest
<1>3. Opening(k)' <=> Opening(k) \/ n = 0
  BY <1>1, Zenon DEF Opening
<1>4. Left(k)' = Left(k) \cup {w}
  BY <1>1, <1>2, Zenon DEF Left
<1>5. Left(k) \subseteq InRequest(k)
  BY <1>1, Zenon DEF Left
<1>6. n = 0 => InRequest(k) = {} /\ Left(k) = {} /\ ~Opening(k)
  BY <1>1, <1>2, <1>5 DEF InRequest, Opening
<1>7. n # 0 => InRequest(k) # {}
  <2>1. n # 0 => 1 \in 1..n
    OBVIOUS
  <2> QED BY <1>2, <2>1, Zenon DEF InRequest
<1> QED BY <1>3, <1>4, <1>5, <1>6, <1>7, Zenon

\* A push does not touch the store.
LEMMA PushKeepsStore ==
  ASSUME NEW w \in Worker, NEW k \in Key, StoreInv(k), NEW t \in Thread, NEW n \in Nat,
         NEW last \in BOOLEAN, NEW g, NEW b, NEW m1, NEW m2, stored' = stored,
         PushRequest(w, k, n, g, b, last), PushQueue(w, k, t, n, g, m1, m2, last)
  PROVE  StoreInv(k)'
<1>1. /\ \A v \in Worker : v # w => round'[v][k] = round[v][k]
      /\ w \notin InRequest(k) /\ InRequest(k) \in SUBSET Worker
      /\ ~last => InRequest(k)' = InRequest(k) \cup {w}
      /\ Pushed(k) = InRequest(k) /\ Pushed(k)' = InRequest(k) \cup {w}
      /\ ~Busy(k) /\ ~Busy(k)'
      /\ Served(k)' <=> Served(k)
      /\ Served(k) => ~last
  BY Zenon DEF PushRequest
<1>2. /\ Opening(k)' <=> Opening(k) \/ n = 0
      /\ Left(k)' = Left(k) \cup {w}
      /\ Left(k) \subseteq InRequest(k)
      /\ n = 0 => InRequest(k) = {} /\ Left(k) = {} /\ ~Opening(k)
      /\ n # 0 => InRequest(k) # {}
  BY PushLeft
<1>3. Opening(k)' => Left(k)' = Pushed(k)'
  BY <1>1, <1>2, Zenon DEF StoreInv
<1>4. ASSUME ~Opening(k)'
      PROVE  Left(k)' # Pushed(k)' /\ stored'[k] = PartSum(Pushed(k) \ Left(k), k)'
  <2>1. n # 0 /\ ~Opening(k)
    BY <1>2, <1>4, Zenon
  <2>2. Left(k) # InRequest(k) /\ stored[k] = PartSum(InRequest(k) \ Left(k), k)
    BY <1>1, <1>2, <2>1, Zenon DEF StoreInv
  <2>3. (Pushed(k) \ Left(k))' = InRequest(k) \ Left(k)
    BY <1>1, <1>2, Zenon
  <2>4. PartSum(Pushed(k) \ Left(k), k)' = PartSum(InRequest(k) \ Left(k), k)
    <3>1. PICK S : S = InRequest(k) \ Left(k)
      BY Zenon
    <3>2. PartSum(S, k)' = PartSum(S, k)
      BY <1>1, <3>1, SamePartSum, Zenon
    <3>3. PartSum(Pushed(k) \ Left(k), k)' = PartSum(S, k)'
      BY <2>3, <3>1, Zenon DEF PartSum
    <3> QED BY <3>1, <3>2, <3>3, Zenon
  <2>5. Left(k)' # Pushed(k)'
    <3>1. PICK v \in InRequest(k) : v \notin Left(k) /\ v # w
      BY <1>1, <1>2, <2>2, Zenon
    <3> QED BY <1>1, <1>2, <3>1, Zenon
  <2> QED BY <2>2, <2>4, <2>5, Zenon
<1>5. ASSUME Served(k)', Opening(k)' \/ Pushed(k)' = {}, NEW v \in Worker, v \notin InRequest(k)'
      PROVE  stored'[k] = RoundSum(round'[v][k])
  <2>1. Served(k) /\ v # w /\ v \notin InRequest(k)
    BY <1>1, <1>5, Zenon
  <2>2. Opening(k) \/ InRequest(k) = {}
    BY <1>1, <1>2, <1>5, Zenon
  <2>3. stored[k] = RoundSum(round[v][k])
    BY <1>1, <2>1, <2>2, Zenon DEF StoreInv
  <2> QED BY <1>1, <2>1, <2>3, Zenon
<1> QED BY <1>1, <1>3, <1>4, <1>5, Zenon DEF StoreInv

\* The slot of a push is filled or will be, and the slots of earlier ones stay so.
LEMMA PushHolds ==
  ASSUME NEW w \in Worker, NEW k \in Key, NEW t \in Thread, NEW n \in Nat,
         NEW last \in BOOLEAN, NEW g, NEW b, NEW m1, NEW m2, replica' = replica,
         PushRequest(w, k, n, g, b, last), PushQueue(w, k, t, n, g, m1, m2, last)
  PROVE  /\ Holds(n, w, k)'
         /\ \A s \in Nat, v \in Worker : s # n /\ v # w /\ Holds(s, v, k) => Holds(s, v, k)'
<1>1. /\ g = <<w, round'[w][k]>>
      /\ \A v \in Worker : v # w => round'[v][k] = round[v][k]
  BY Zenon DEF PushRequest
<1>2. /\ m2 = ReplicaMsg(k, n, g) /\ m1.dst = "stored" /\ m2.slot = n
      /\ \A m \in Work(t, k)' : m \in Work(t, k) \/ m = m1 \/ m = m2 \/ m.dst = "stored"
      /\ Work(t, k) \subseteq Work(t, k)' /\ m2 \in Work(t, k)'
      /\ \A u \in Thread : u # t => Work(u, k) = {} /\ Work(u, k)' = {}
  BY Zenon DEF PushQueue
<1>3. Holds(n, w, k)'
  BY <1>1, <1>2, Zenon DEF Holds
<1>4. ASSUME NEW s \in Nat, NEW v \in Worker, s # n, v # w, Holds(s, v, k)
      PROVE  Holds(s, v, k)'
  <2>1. round'[v][k] = round[v][k]
    BY <1>1, <1>4, Zenon
  <2>2. SlotQueued(s, k)' <=> SlotQueued(s, k)
    BY <1>2, <1>4, Zenon DEF SlotQueued
  <2>3. \A u \in Thread : Work(u, k) \subseteq Work(u, k)'
    BY <1>2, Zenon
  <2> QED BY <1>4, <2>1, <2>2, <2>3, Zenon DEF Holds
<1> QED BY <1>3, <1>4, Zenon

\* The slots follow the request buffer.
LEMMA PushKeepsReplica ==
  ASSUME TypeOK, NEW w \in Worker, NEW k \in Key, ReplicaInv(k), has_tensor[k], NEW t \in Thread, NEW n \in Nat,
         NEW last \in BOOLEAN, NEW g, NEW b, NEW m1, NEW m2, replica' = replica,
         PushRequest(w, k, n, g, b, last), PushQueue(w, k, t, n, g, m1, m2, last)
  PROVE  ReplicaInv(k)'
<1>1. /\ n = Len(request[k]) /\ b = Append(request[k], w) /\ b \in Seq(Worker) /\ Len(b) = n + 1
      /\ \A i, j \in 1..Len(b) : b[i] = b[j] => i = j
      /\ {b[i] : i \in 1..Len(b)} = InRequest(k) \cup {w} /\ w \notin InRequest(k)
  BY Zenon DEF PushRequest
<1>2. /\ request'[k] = IF last THEN <<>> ELSE b
      /\ last => InRequest(k) \cup {w} = Worker /\ Slot = 0..n
      /\ (AllRecvPending(k)' <=> last) /\ ~AllRecvPending(k)
  BY Zenon DEF PushRequest
<1>3. /\ Holds(n, w, k)'
      /\ \A s \in Nat, v \in Worker : s # n /\ v # w /\ Holds(s, v, k) => Holds(s, v, k)'
  BY PushHolds
<1>4. b[n + 1] = w /\ \A i \in 1..n : b[i] = request[k][i] /\ b[i] # w
  <2>1. request[k] \in Seq(Worker)
    BY Zenon DEF TypeOK
  <2>2. b[n + 1] = w /\ \A i \in 1..n : b[i] = request[k][i]
    BY <1>1, <2>1
  <2> QED BY <1>1, <2>2 DEF InRequest
<1>5. ASSUME NEW i \in 1..(n + 1), NEW v \in Worker, v = b[i]
      PROVE  Holds(i - 1, v, k)'
  <2>1. CASE i = n + 1
    <3>1. i - 1 = n /\ v = w
      BY <1>4, <1>5, <2>1
    <3> QED BY <1>3, <3>1, Zenon
  <2>2. CASE i # n + 1
    <3>1. i \in 1..n /\ v = request[k][i] /\ v # w /\ i - 1 \in Nat /\ i - 1 # n
      BY <1>4, <1>5, <2>2
    <3>2. Holds(i - 1, v, k)
      BY <1>1, <1>2, <3>1, Zenon DEF ReplicaInv
    <3> QED BY <1>3, <3>1, <3>2, Zenon
  <2> QED BY <2>1, <2>2, Zenon
<1>6. CASE ~last
  <2>1. request'[k] = b /\ ~AllRecvPending(k)'
    BY <1>2, <1>6, Zenon
  <2>2. \A i \in 1..Len(b) : b[i] \in Worker
    BY <1>1
  <2>3. \A i \in 1..Len(request'[k]) : \A v \in Worker : v = request'[k][i] => Holds(i - 1, v, k)'
    BY <1>1, <1>5, <2>1, Zenon
  <2> QED BY <2>1, <2>2, <2>3, Zenon DEF ReplicaInv
<1>7. CASE last
  <2>1. Slot = 0..n /\ AllRecvPending(k)'
    BY <1>2, <1>7, Zenon
  <2> DEFINE f == [s \in Slot |-> b[s + 1]]
  <2>2. /\ f \in [Slot -> Worker]
        /\ \A s \in Slot : s + 1 \in 1..(n + 1) /\ f[s] = b[s + 1] /\ (s + 1) - 1 = s
    BY <1>1, <2>1
  <2> HIDE DEF f
  <2>3. ASSUME NEW s \in Slot, NEW u \in Slot, f[s] = f[u] PROVE s = u
    <3>1. s + 1 \in 1..Len(b) /\ u + 1 \in 1..Len(b) /\ b[s + 1] = b[u + 1]
      BY <1>1, <2>2, <2>3, Zenon
    <3>2. s + 1 = u + 1
      BY <1>1, <3>1, Zenon
    <3>3. s \in Int /\ u \in Int
      BY <2>1
    <3> QED BY <3>2, <3>3
  <2>4. \A v \in Worker : \E s \in Slot : f[s] = v
    <3> SUFFICES ASSUME NEW v \in Worker PROVE \E s \in Slot : f[s] = v
      BY Zenon
    <3>1. PICK i \in 1..Len(b) : b[i] = v
      BY <1>1, <1>2, <1>7
    <3>2. i - 1 \in Slot /\ (i - 1) + 1 = i
      BY <1>1, <2>1
    <3> QED BY <2>2, <3>1, <3>2, Zenon
  <2>5. PICK h \in [Slot -> Worker] : h = f
    BY <2>2, Zenon
  <2>6. \A s \in Slot : Holds(s, h[s], k)'
    BY <1>5, <2>2, <2>5, Zenon
  <2> QED BY <2>1, <2>3, <2>4, <2>5, <2>6, Zenon DEF ReplicaInv
<1> QED BY <1>6, <1>7, Zenon

\* A push (server.cc:337-434) keeps DataInv.
LEMMA DataHandlePush ==
  ASSUME TypeOK, TypeOK', ServerInv, SendingInv, DataInv, NEW w \in Worker, NEW k \in Key,
         HandlePush(w, k)
  PROVE  DataInv'
<1>0. PICK t \in Thread, n \in Nat, last \in BOOLEAN : \E g, b, m1, m2 :
        /\ PushRequest(w, k, n, g, b, last)
        /\ PushQueue(w, k, t, n, g, m1, m2, last)
        /\ PushApart(k)
        /\ \A u \in Thread, j \in Key : Ordered(engine_queue[u], j)'
  BY PushEffect, ZenonT(60)
<1>1. PICK g, b, m1, m2 :
        /\ PushRequest(w, k, n, g, b, last)
        /\ PushQueue(w, k, t, n, g, m1, m2, last)
        /\ PushApart(k)
        /\ \A u \in Thread, j \in Key : Ordered(engine_queue[u], j)'
  BY <1>0, Zenon
<1>2. has_tensor[k] /\ stored' = stored /\ replica' = replica /\ merged_tensor' = merged_tensor
  BY Zenon DEF HandlePush
<1>3. WorkInv(k) /\ StoreInv(k) /\ ReplicaInv(k) /\ MergedInv(k)
  BY Zenon DEF DataInv, DataKeyInv
<1>4. WorkInv(k)'
  BY <1>1, <1>3, PushKeepsWork, Zenon
<1>5. StoreInv(k)'
  BY <1>1, <1>2, <1>3, PushKeepsStore, Zenon
<1>6. ReplicaInv(k)'
  BY <1>1, <1>2, <1>3, PushKeepsReplica, Zenon
<1>7. OrderInv(k)' /\ MergedInv(k)'
  <2>1. ~Busy(k)' /\ (Finished(k)' <=> Finished(k))
    BY <1>1, Zenon DEF PushRequest
  <2> QED BY <1>1, <1>2, <1>3, <2>1, Zenon DEF OrderInv, MergedInv
<1>8. ASSUME NEW j \in Key, j # k PROVE DataKeyInv(j)'
  BY <1>1, <1>8, PushOther, Zenon
<1> QED BY <1>4, <1>5, <1>6, <1>7, <1>8, Zenon DEF DataInv, DataKeyInv
=============================================================================
