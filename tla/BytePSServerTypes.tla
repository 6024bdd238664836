------------------------- MODULE BytePSServerTypes --------------------------
(* Every action of BytePSServer preserves the types of its state. *)
EXTENDS BytePSServerInv, FiniteSetTheorems, TLAPS

\* There is a worker.
LEMMA NumWorkersType == NumWorkers \in Nat /\ NumWorkers >= 1
<1>1. IsFiniteSet(Worker) /\ Worker # {}
  BY ServerAssumption, Zenon
<1>2. NumWorkers \in Nat /\ NumWorkers # 0
  BY <1>1, FS_CardinalityType, FS_EmptySet, Zenon DEF NumWorkers
<1> QED BY <1>2

\* Every nonempty set of naturals has a least element.
LEMMA LeastNatural ==
  ASSUME NEW T \in SUBSET Nat, T # {}
  PROVE  \E n \in T : \A m \in T : n <= m
<1> DEFINE Below == {0..n : n \in T}
           R     == StrictSubsetOrdering(Nat)
<1>1. IsWellFoundedOn(R, FiniteSubsetsOf(Nat))
  BY FS_StrictSubsetOrderingWellFounded, Zenon
<1>2. Below \subseteq FiniteSubsetsOf(Nat) /\ Below # {}
  <2>1. \A n \in T : 0..n \in SUBSET Nat /\ IsFiniteSet(0..n)
    BY FS_Interval
  <2> QED BY <2>1, ZenonT(60) DEF FiniteSubsetsOf
<1>3. \E x \in Below : \A y \in Below : ~(<<y, x>> \in R)
  <2> HIDE DEF Below, R
  <2> QED BY <1>1, <1>2, WFMin, Zenon
<1>4. PICK n \in T : \A m \in T : ~(<<0..m, 0..n>> \in R)
  BY <1>3, ZenonT(60)
<1>5. ASSUME NEW m \in T, m < n
      PROVE  FALSE
  <2>1. 0..m \subseteq 0..n /\ n \in 0..n /\ n \notin 0..m
    BY <1>5
  <2>2. <<0..m, 0..n>> \in R
    BY <2>1 DEF StrictSubsetOrdering
  <2> QED BY <1>4, <2>2, Zenon
<1> QED BY <1>5

\* GetThreadID has a thread to return: among the least loaded threads there
\* is one with the smallest index.
LEMMA LeastLoadedType ==
  ASSUME TypeOK
  PROVE  LeastLoaded \in Thread
<1> DEFINE L == {acc_load[t] : t \in Thread}
<1>1. 0 \in Thread /\ Thread \subseteq Nat
  BY ServerAssumption DEF Thread
<1>2. acc_load \in [Thread -> Nat]
  BY Zenon DEF TypeOK
<1>3. PICK n \in L : \A m \in L : n <= m
  BY <1>1, <1>2, LeastNatural, ZenonT(60)
<1> DEFINE M == {t \in Thread : acc_load[t] = n}
<1>4. PICK t \in M : \A u \in M : t <= u
  BY <1>1, <1>3, LeastNatural, ZenonT(60)
<1>5. \A u \in Thread : acc_load[t] < acc_load[u] \/ (acc_load[t] = acc_load[u] /\ t <= u)
  BY <1>1, <1>2, <1>3, <1>4
<1> QED BY <1>5, Zenon DEF LeastLoaded

\* Sums of gradients are tensors.
LEMMA TensorTypes ==
  /\ Zero \in Tensor
  /\ \A g : Unit(g) \in Tensor
  /\ \A a, b \in Tensor : Sum(a, b) \in Tensor
  /\ \A slots : ReduceSlots(slots) \in Tensor
<1>1. Zero \in Tensor
  BY Zenon DEF Zero, Tensor
<1>2. ASSUME NEW g PROVE Unit(g) \in Tensor
  BY Zenon DEF Unit, Tensor
<1>3. ASSUME NEW a \in Tensor, NEW b \in Tensor PROVE Sum(a, b) \in Tensor
  BY DEF Sum, Tensor
<1>4. ASSUME NEW slots PROVE ReduceSlots(slots) \in Tensor
  <2>1. ASSUME NEW g \in Grad
        PROVE  Cardinality({s \in Slot : slots[s] = g}) \in Nat
    <3>1. IsFiniteSet(Slot)
      BY NumWorkersType, FS_Interval DEF Slot
    <3>2. {s \in Slot : slots[s] = g} \in SUBSET Slot
      BY Zenon
    <3> QED BY <3>1, <3>2, FS_Subset, FS_CardinalityType, Zenon
  <2> QED BY <2>1, Zenon DEF ReduceSlots, Tensor
<1> QED BY <1>1, <1>2, <1>3, <1>4, Zenon

\* The messages that a push enqueues are messages.
LEMMA MessageTypes ==
  /\ \A k \in Key, g \in Grad : StoredMsg("COPY_FIRST", k, g) \in Message
  /\ \A k \in Key, g \in Grad : StoredMsg("SUM_RECV", k, g) \in Message
  /\ \A k \in Key, s \in Slot, g \in Grad : ReplicaMsg(k, s, g) \in Message
  /\ \A k \in Key : AllRecvMsg(k) \in Message
BY Zenon DEF Message, StoredMsg, ReplicaMsg, AllRecvMsg

\* The types hold initially.
LEMMA TypeInit == Init => TypeOK
<1> SUFFICES ASSUME Init PROVE TypeOK
  BY Zenon
<1>1. 0 \in Round
  BY ServerAssumption DEF Round
<1> QED BY <1>1, TensorTypes DEF Init, TypeOK, Phase, Thread, NoThread

\* An init push keeps the types.
LEMMA TypeHandleInitPush ==
  ASSUME TypeOK, NEW w \in Worker, NEW k \in Key, HandleInitPush(w, k)
  PROVE  TypeOK'
<1>1. <<w, 0>> \in Grad
  BY ServerAssumption DEF Grad, Round
<1>2. /\ phase \in [Worker -> [Key -> Phase]]
      /\ has_tensor \in [Key -> BOOLEAN]
      /\ stored \in [Key -> Tensor]
      /\ replica \in [Key -> [Slot -> Grad \cup {NoGrad}]]
      /\ request \in [Key -> Seq(Worker)]
  BY Zenon DEF TypeOK
<1> DEFINE buffered == Append(request[k], w)
<1>3. buffered \in Seq(Worker)
  BY <1>2
<1>4. CASE Len(buffered) < NumWorkers
  <2>1. /\ request' = [request EXCEPT ![k] = buffered]
        /\ phase' = [phase EXCEPT ![w][k] = "init"]
        /\ UNCHANGED <<has_tensor, stored, replica>>
    BY <1>4, Zenon DEF HandleInitPush
  <2> HIDE DEF buffered
  <2>2. request' \in [Key -> Seq(Worker)]
    BY <1>2, <1>3, <2>1, Zenon
  <2>3. phase' \in [Worker -> [Key -> Phase]]
    BY <1>2, <2>1, Zenon DEF Phase
  <2> QED BY <2>1, <2>2, <2>3, Zenon DEF TypeOK, HandleInitPush, route, engine, flags
<1>5. CASE ~(Len(buffered) < NumWorkers)
  <2> DEFINE P(v) == IF \E i \in 1..Len(buffered) : buffered[i] = v THEN "idle" ELSE phase[v][k]
             R    == [s \in Slot |-> IF s = 0 THEN <<w, 0>> ELSE NoGrad]
  <2>1. /\ has_tensor' = [has_tensor EXCEPT ![k] = TRUE]
        /\ stored' = [stored EXCEPT ![k] = Unit(<<w, 0>>)]
        /\ replica' = [replica EXCEPT ![k] = R]
        /\ request' = [request EXCEPT ![k] = <<>>]
        /\ phase' = [v \in Worker |-> [phase[v] EXCEPT ![k] = P(v)]]
    BY <1>5, Zenon DEF HandleInitPush
  <2>2. \A v \in Worker : P(v) \in Phase
    BY <1>2, Zenon DEF Phase
  <2>3. R \in [Slot -> Grad \cup {NoGrad}]
    BY <1>1, Zenon
  <2> HIDE DEF P, R, buffered
  <2>4. phase' \in [Worker -> [Key -> Phase]]
    BY <1>2, <2>1, <2>2, Zenon
  <2>5. stored' \in [Key -> Tensor] /\ has_tensor' \in [Key -> BOOLEAN]
    BY <1>2, <2>1, TensorTypes, Zenon
  <2>6. replica' \in [Key -> [Slot -> Grad \cup {NoGrad}]]
    BY <1>2, <2>1, <2>3, Zenon
  <2>7. request' \in [Key -> Seq(Worker)]
    BY <1>2, <2>1
  <2> QED BY <2>4, <2>5, <2>6, <2>7, Zenon DEF TypeOK, HandleInitPush, route, engine, flags
<1> QED BY <1>4, <1>5, Zenon

\* A push keeps the types.
LEMMA TypeHandlePush ==
  ASSUME TypeOK, NEW w \in Worker, NEW k \in Key, RequestInv(k), HandlePush(w, k)
  PROVE  TypeOK'
<1> DEFINE t    == GetThreadID(k)
           g    == <<w, round[w][k] + 1>>
           n    == Len(request[k])
           op   == IF n = 0 THEN "COPY_FIRST" ELSE "SUM_RECV"
           msgs == <<StoredMsg(op, k, g), ReplicaMsg(k, n, g)>>
           last == LastPush(k)
           more == IF last THEN Append(msgs, AllRecvMsg(k)) ELSE msgs
<1>1. /\ phase \in [Worker -> [Key -> Phase]]
      /\ round \in [Worker -> [Key -> Round]]
      /\ request \in [Key -> Seq(Worker)]
      /\ hash_cache \in [Key -> Thread \cup {NoThread}]
      /\ acc_load \in [Thread -> Nat]
      /\ engine_queue \in [Thread -> Seq(Message)]
  BY Zenon DEF TypeOK
<1>2. /\ engine_queue' = [engine_queue EXCEPT ![t] = @ \o more]
      /\ request' = [request EXCEPT ![k] = IF last THEN <<>> ELSE Append(@, w)]
      /\ CacheThreadID(k)
      /\ round' = [round EXCEPT ![w][k] = @ + 1]
      /\ phase' = [phase EXCEPT ![w][k] = "pushed"]
      /\ round[w][k] < MaxRound
  BY Zenon DEF HandlePush, PushMessages
<1>3. t \in Thread
  BY <1>1, LeastLoadedType, Zenon DEF GetThreadID
<1>4. round[w][k] + 1 \in Round /\ g \in Grad
  BY <1>1, <1>2, ServerAssumption DEF Grad, Round
<1>5. n \in Slot
  BY <1>1, NumWorkersType DEF RequestInv, Slot
<1>6. more \in Seq(Message)
  <2>1. /\ StoredMsg(op, k, g) \in Message
        /\ ReplicaMsg(k, n, g) \in Message
        /\ AllRecvMsg(k) \in Message
    BY <1>4, <1>5, MessageTypes, Zenon
  <2> HIDE DEF g, n, op, last
  <2> QED BY <2>1
<1> HIDE DEF t, g, n, more, last
<1>7. engine_queue' \in [Thread -> Seq(Message)]
  BY <1>1, <1>2, <1>3, <1>6
<1>8. request' \in [Key -> Seq(Worker)]
  BY <1>1, <1>2
<1>9. round' \in [Worker -> [Key -> Round]]
  BY <1>1, <1>2, <1>4, Zenon
<1>10. phase' \in [Worker -> [Key -> Phase]]
  BY <1>1, <1>2, Zenon DEF Phase
<1>11. hash_cache' \in [Key -> Thread \cup {NoThread}] /\ acc_load' \in [Thread -> Nat]
  <2>1. LeastLoaded \in Thread /\ KeyLen[k] \in Nat
    BY LeastLoadedType, ServerAssumption, Zenon
  <2>2. CASE hash_cache[k] # NoThread
    BY <1>1, <1>2, <2>2, Zenon DEF CacheThreadID, route
  <2>3. CASE hash_cache[k] = NoThread
    <3>1. /\ acc_load' = [acc_load EXCEPT ![LeastLoaded] = @ + KeyLen[k]]
          /\ hash_cache' = [hash_cache EXCEPT ![k] = LeastLoaded]
      BY <1>2, <2>3, Zenon DEF CacheThreadID
    <3> QED BY <1>1, <2>1, <3>1
  <2> QED BY <2>2, <2>3, Zenon
<1> QED BY <1>7, <1>8, <1>9, <1>10, <1>11, Zenon DEF TypeOK, HandlePush, flags

\* The pull flags keep their types when responses are recorded.
LEMMA TypeRecordResponses ==
  ASSUME TypeOK, NEW t \in Thread, NEW k \in Key, NEW S \in SUBSET Worker,
         SendPullResponse(S, k), RecordResponses(t, k, S)
  PROVE  /\ phase' \in [Worker -> [Key -> Phase]]
         /\ sending' \in [Worker -> [Key -> BOOLEAN]]
         /\ got' \in [Worker -> [Key -> SUBSET Tensor]]
         /\ is_push_finished' \in [Thread -> [Key -> BOOLEAN]]
         /\ seen_sender' \in [Thread -> [Key -> SUBSET Worker]]
         /\ pull_cnt' \in [Thread -> [Key -> Nat]]
<1>1. /\ phase \in [Worker -> [Key -> Phase]]
      /\ sending \in [Worker -> [Key -> BOOLEAN]]
      /\ got \in [Worker -> [Key -> SUBSET Tensor]]
      /\ is_push_finished \in [Thread -> [Key -> BOOLEAN]]
      /\ seen_sender \in [Thread -> [Key -> SUBSET Worker]]
      /\ pull_cnt \in [Thread -> [Key -> Nat]]
  BY Zenon DEF TypeOK
<1>2. Cardinality(S) \in Nat
  BY ServerAssumption, FS_Subset, FS_CardinalityType, Zenon
<1>3. /\ phase' \in [Worker -> [Key -> Phase]]
      /\ sending' \in [Worker -> [Key -> BOOLEAN]]
      /\ got' \in [Worker -> [Key -> SUBSET Tensor]]
  <2>1. /\ phase'   = [w \in Worker |-> [phase[w] EXCEPT ![k] = IF w \in S THEN "idle" ELSE @]]
        /\ sending' = [w \in Worker |-> [sending[w] EXCEPT ![k] = IF w \in S THEN TRUE ELSE @]]
        /\ got'     = [w \in Worker |-> [got[w] EXCEPT ![k] = IF w \in S THEN {} ELSE @]]
    BY Zenon DEF SendPullResponse
  <2>2. phase' \in [Worker -> [Key -> Phase]]
    BY <1>1, <2>1, Zenon DEF Phase
  <2>3. sending' \in [Worker -> [Key -> BOOLEAN]]
    BY <1>1, <2>1, Zenon
  <2>4. got' \in [Worker -> [Key -> SUBSET Tensor]]
    BY <1>1, <2>1, Zenon
  <2> QED BY <2>2, <2>3, <2>4, Zenon
<1> DEFINE cnt == pull_cnt[t][k] + Cardinality(S)
<1>4. cnt \in Nat
  BY <1>1, <1>2
<1>5. CASE cnt = NumWorkers
  <2>1. /\ is_push_finished' = [is_push_finished EXCEPT ![t][k] = FALSE]
        /\ pull_cnt'         = [pull_cnt EXCEPT ![t][k] = 0]
        /\ seen_sender'      = [seen_sender EXCEPT ![t][k] = {}]
    BY <1>5, Zenon DEF RecordResponses
  <2>2. is_push_finished' \in [Thread -> [Key -> BOOLEAN]]
    BY <1>1, <2>1, Zenon
  <2>3. seen_sender' \in [Thread -> [Key -> SUBSET Worker]]
    BY <1>1, <2>1, Zenon
  <2>4. pull_cnt' \in [Thread -> [Key -> Nat]]
    BY <1>1, <2>1, Zenon
  <2> QED BY <1>3, <2>2, <2>3, <2>4, Zenon
<1>6. CASE cnt # NumWorkers
  <2>1. /\ is_push_finished' = [is_push_finished EXCEPT ![t][k] = TRUE]
        /\ pull_cnt'         = [pull_cnt EXCEPT ![t][k] = cnt]
        /\ seen_sender'      = [seen_sender EXCEPT ![t][k] = @ \cup S]
    BY <1>6, Zenon DEF RecordResponses
  <2> HIDE DEF cnt
  <2>2. is_push_finished' \in [Thread -> [Key -> BOOLEAN]]
    BY <1>1, <2>1, Zenon
  <2>3. seen_sender' \in [Thread -> [Key -> SUBSET Worker]]
    BY <1>1, <2>1, Zenon
  <2>4. pull_cnt' \in [Thread -> [Key -> Nat]]
    BY <1>1, <1>4, <2>1, Zenon
  <2> QED BY <1>3, <2>2, <2>3, <2>4, Zenon
<1> QED BY <1>5, <1>6, Zenon

\* A pull keeps the types.
LEMMA TypeHandlePull ==
  ASSUME TypeOK, NEW w \in Worker, NEW k \in Key, HandlePull(w, k)
  PROVE  TypeOK'
<1> DEFINE t == GetThreadID(k)
<1>1. t \in Thread
  BY LeastLoadedType, Zenon DEF GetThreadID, TypeOK
<1>2. CASE is_push_finished[t][k] /\ w \notin seen_sender[t][k]
  <2>1. /\ SendPullResponse({w}, k)
        /\ RecordResponses(t, k, {w})
        /\ UNCHANGED <<q_pull_reqmeta, round, store, route, engine>>
    BY <1>2, Zenon DEF HandlePull, MayAnswer
  <2> HIDE DEF t
  <2> QED BY <1>1, <2>1, TypeRecordResponses, ZenonT(60) DEF TypeOK, store, route, engine
<1>3. CASE ~(is_push_finished[t][k] /\ w \notin seen_sender[t][k])
  <2>1. /\ q_pull_reqmeta' = [q_pull_reqmeta EXCEPT ![t][k][w] = @ + 1]
        /\ phase' = [phase EXCEPT ![w][k] = "waiting"]
        /\ UNCHANGED <<sending, got, is_push_finished, seen_sender, pull_cnt, round, store, route, engine>>
    BY <1>3, Zenon DEF HandlePull, MayAnswer
  <2> HIDE DEF t
  <2>2. q_pull_reqmeta \in [Thread -> [Key -> [Worker -> Nat]]]
    BY Zenon DEF TypeOK
  <2>3. q_pull_reqmeta' \in [Thread -> [Key -> [Worker -> Nat]]]
    BY <1>1, <2>1, <2>2
  <2>4. phase' \in [Worker -> [Key -> Phase]]
    BY <2>1, Zenon DEF TypeOK, Phase
  <2> QED BY <2>1, <2>3, <2>4, Zenon DEF TypeOK, store, route, engine
<1> QED BY <1>2, <1>3, Zenon

\* The head of a queue is a message, and its tail a queue.
LEMMA TypePop ==
  ASSUME TypeOK, NEW t \in Thread, engine_queue[t] # <<>>,
         engine_queue' = [engine_queue EXCEPT ![t] = Tail(@)]
  PROVE  /\ engine_queue' \in [Thread -> Seq(Message)]
         /\ Head(engine_queue[t]) \in Message
         /\ Head(engine_queue[t]).key \in Key
<1>1. engine_queue \in [Thread -> Seq(Message)] /\ engine_queue[t] \in Seq(Message)
  BY Zenon DEF TypeOK
<1>2. Head(engine_queue[t]) \in Message /\ Tail(engine_queue[t]) \in Seq(Message)
  BY <1>1
<1>3. \A m \in Message : m.key \in Key
  BY Zenon DEF Message
<1> QED BY <1>1, <1>2, <1>3, Zenon

\* COPY_FIRST keeps the types.
LEMMA TypeEngineCopyFirst ==
  ASSUME TypeOK, NEW t \in Thread, EngineCopyFirst(t)
  PROVE  TypeOK'
<1> DEFINE msg == Head(engine_queue[t])
<1>1. /\ engine_queue[t] # <<>>
      /\ engine_queue' = [engine_queue EXCEPT ![t] = Tail(@)]
      /\ msg.ops = "COPY_FIRST"
  BY Zenon DEF EngineCopyFirst, CanPop
<1>2. msg \in Message /\ msg.key \in Key /\ engine_queue' \in [Thread -> Seq(Message)]
  BY <1>1, TypePop, ZenonT(60)
<1>3. stored \in [Key -> Tensor] /\ replica \in [Key -> [Slot -> Grad \cup {NoGrad}]]
  BY Zenon DEF TypeOK
<1>4. CASE msg.dst = "stored"
  <2>1. stored' = [stored EXCEPT ![msg.key] = Unit(msg.src)] /\ replica' = replica
    BY <1>4, Zenon DEF EngineCopyFirst, Copy
  <2> HIDE DEF msg
  <2>2. stored' \in [Key -> Tensor]
    BY <1>2, <1>3, <2>1, TensorTypes, SMTT(30), ZenonT(60)
  <2> QED BY <1>2, <2>1, <2>2, Zenon DEF EngineCopyFirst, TypeOK, client, route, flags
<1>5. CASE msg.dst # "stored"
  <2>1. replica' = [replica EXCEPT ![msg.key][msg.slot] = msg.src] /\ stored' = stored
    BY <1>5, Zenon DEF EngineCopyFirst
  <2> HIDE DEF msg
  <2>2. msg.slot \in Slot /\ msg.src \in Grad \cup {NoGrad}
    BY <1>1, <1>2, <1>5, Zenon DEF Message
  <2>3. replica' \in [Key -> [Slot -> Grad \cup {NoGrad}]]
    BY <1>2, <1>3, <2>1, <2>2, SMTT(30), ZenonT(60)
  <2> QED BY <1>2, <2>1, <2>3, Zenon DEF EngineCopyFirst, TypeOK, client, route, flags
<1> QED BY <1>4, <1>5, Zenon

\* SUM_RECV keeps the types.
LEMMA TypeEngineSumRecv ==
  ASSUME TypeOK, NEW t \in Thread, EngineSumRecv(t)
  PROVE  TypeOK'
<1> DEFINE msg == Head(engine_queue[t])
<1>1. /\ engine_queue[t] # <<>>
      /\ engine_queue' = [engine_queue EXCEPT ![t] = Tail(@)]
      /\ stored' = [stored EXCEPT ![msg.key] = Sum(@, Unit(msg.src))]
  BY Zenon DEF EngineSumRecv, CanPop
<1>2. msg \in Message /\ msg.key \in Key /\ engine_queue' \in [Thread -> Seq(Message)]
  BY <1>1, TypePop, ZenonT(60)
<1>3. stored \in [Key -> Tensor]
  BY Zenon DEF TypeOK
<1> HIDE DEF msg
<1>4. Sum(stored[msg.key], Unit(msg.src)) \in Tensor
  BY <1>2, <1>3, TensorTypes, Zenon
<1>5. stored' \in [Key -> Tensor]
  BY <1>1, <1>2, <1>3, <1>4, Zenon
<1> QED BY <1>2, <1>5, Zenon DEF EngineSumRecv, TypeOK, client, route, flags

\* The first half of ALL_RECV keeps the types.
LEMMA TypeEngineReduce ==
  ASSUME TypeOK, NEW t \in Thread, EngineReduce(t)
  PROVE  TypeOK'
<1> DEFINE k == Head(engine_queue[t]).key
<1>1. /\ engine_queue[t] # <<>>
      /\ engine_queue' = [engine_queue EXCEPT ![t] = Tail(@)]
      /\ stored' = [stored EXCEPT ![k] = ReduceInto(k)]
      /\ merged_tensor' = [merged_tensor EXCEPT ![k] = TRUE]
      /\ busy' = [busy EXCEPT ![t] = {k}]
  BY Zenon DEF EngineReduce, CanPop
<1>2. k \in Key /\ engine_queue' \in [Thread -> Seq(Message)]
  BY <1>1, TypePop, ZenonT(60)
<1>3. /\ stored \in [Key -> Tensor]
      /\ merged_tensor \in [Key -> BOOLEAN]
      /\ busy \in [Thread -> SUBSET Key]
  BY Zenon DEF TypeOK
<1> HIDE DEF k
<1>4. stored' \in [Key -> Tensor]
  BY <1>1, <1>2, <1>3, TensorTypes, Zenon DEF ReduceInto
<1>5. merged_tensor' \in [Key -> BOOLEAN] /\ busy' \in [Thread -> SUBSET Key]
  BY <1>1, <1>2, <1>3, Zenon
<1> QED BY <1>2, <1>4, <1>5, SMTT(30), ZenonT(60) DEF EngineReduce, TypeOK, client, route, flags

\* The second half of ALL_RECV keeps the types.
LEMMA TypeEngineAllRecv ==
  ASSUME TypeOK, NEW t \in Thread, EngineAllRecv(t)
  PROVE  TypeOK'
<1>1. PICK k \in busy[t] :
        LET S == {w \in Worker : q_pull_reqmeta[t][k][w] > 0 /\ w \notin seen_sender[t][k]}
        IN  /\ SendPullResponse(S, k)
            /\ RecordResponses(t, k, S)
            /\ q_pull_reqmeta' = [q_pull_reqmeta EXCEPT ![t][k] =
                                    [w \in Worker |-> IF w \in S THEN @[w] - 1 ELSE @[w]]]
  BY ZenonT(60) DEF EngineAllRecv
<1> DEFINE S == {w \in Worker : q_pull_reqmeta[t][k][w] > 0 /\ w \notin seen_sender[t][k]}
           Q == [w \in Worker |-> IF w \in S THEN q_pull_reqmeta[t][k][w] - 1
                                              ELSE q_pull_reqmeta[t][k][w]]
<1>2. q_pull_reqmeta \in [Thread -> [Key -> [Worker -> Nat]]] /\ busy \in [Thread -> SUBSET Key]
  BY Zenon DEF TypeOK
<1>3. k \in Key
  BY <1>2, Zenon
<1>4. Q \in [Worker -> Nat]
  <2>1. q_pull_reqmeta[t][k] \in [Worker -> Nat]
    BY <1>2, <1>3, Zenon
  <2> QED BY <2>1
<1>5. /\ q_pull_reqmeta' = [q_pull_reqmeta EXCEPT ![t][k] = Q]
      /\ S \in SUBSET Worker
      /\ SendPullResponse(S, k)
      /\ RecordResponses(t, k, S)
      /\ busy' = [busy EXCEPT ![t] = {}]
  BY <1>1, ZenonT(60) DEF EngineAllRecv
<1> HIDE DEF S, Q
<1>6. q_pull_reqmeta' \in [Thread -> [Key -> [Worker -> Nat]]] /\ busy' \in [Thread -> SUBSET Key]
  BY <1>2, <1>3, <1>4, <1>5, Zenon
<1>7. /\ phase' \in [Worker -> [Key -> Phase]]
      /\ sending' \in [Worker -> [Key -> BOOLEAN]]
      /\ got' \in [Worker -> [Key -> SUBSET Tensor]]
      /\ is_push_finished' \in [Thread -> [Key -> BOOLEAN]]
      /\ seen_sender' \in [Thread -> [Key -> SUBSET Worker]]
      /\ pull_cnt' \in [Thread -> [Key -> Nat]]
  BY <1>3, <1>5, TypeRecordResponses, Zenon
<1> QED BY <1>6, <1>7, Zenon DEF EngineAllRecv, TypeOK, store, route

\* A step of the transport keeps the types.
LEMMA TypeRead ==
  ASSUME TypeOK, NEW w \in Worker, NEW k \in Key, ReadElements(w, k) \/ ReadLast(w, k)
  PROVE  TypeOK'
<1>1. /\ sending \in [Worker -> [Key -> BOOLEAN]]
      /\ got \in [Worker -> [Key -> SUBSET Tensor]]
      /\ stored \in [Key -> Tensor]
  BY Zenon DEF TypeOK
<1>2. /\ got' = [got EXCEPT ![w][k] = @ \cup {stored[k]}]
      /\ sending' = sending \/ sending' = [sending EXCEPT ![w][k] = FALSE]
      /\ UNCHANGED <<phase, round, store, route, engine, flags>>
  BY Zenon DEF ReadElements, ReadLast
<1>3. got' \in [Worker -> [Key -> SUBSET Tensor]]
  <2>1. PICK x \in SUBSET Tensor : x = got[w][k] \cup {stored[k]}
    BY <1>1
  <2>2. got' = [got EXCEPT ![w][k] = x]
    BY <1>2, <2>1, Zenon
  <2> QED BY <1>1, <2>2, Zenon
<1>4. sending' \in [Worker -> [Key -> BOOLEAN]]
  <2>1. CASE sending' = sending
    BY <1>1, <2>1, Zenon
  <2>2. CASE sending' = [sending EXCEPT ![w][k] = FALSE]
    BY <1>1, <2>2, Zenon
  <2> QED BY <1>2, <2>1, <2>2, Zenon
<1> QED BY <1>2, <1>3, <1>4, Zenon DEF TypeOK, store, route, engine, flags

-----------------------------------------------------------------------------
(* The request buffer *)

\* A sequence of workers without repetition is as long as the set of its elements.
LEMMA NoRepetition ==
  ASSUME NEW s \in Seq(Worker), \A i, j \in 1..Len(s) : s[i] = s[j] => i = j
  PROVE  Cardinality({s[i] : i \in 1..Len(s)}) = Len(s)
<1> DEFINE f == [i \in 1..Len(s) |-> s[i]]
           E == {s[i] : i \in 1..Len(s)}
<1>1. Len(s) \in Nat /\ IsFiniteSet(1..Len(s)) /\ Cardinality(1..Len(s)) = Len(s)
  <2>1. Len(s) \in Nat
    OBVIOUS
  <2>2. \A n \in Nat : IsFiniteSet(1..n) /\ Cardinality(1..n) = n
    BY FS_Interval
  <2> QED BY <2>1, <2>2, Zenon
<1>2. E \in SUBSET Worker
  OBVIOUS
<1>3. IsFiniteSet(E)
  BY <1>2, ServerAssumption, FS_Subset, Zenon
<1>4. ExistsBijection(1..Len(s), E)
  <2>1. f \in [1..Len(s) -> E]
    BY Zenon
  <2>2. \A i, j \in 1..Len(s) : f[i] = f[j] => i = j
    BY Zenon
  <2>3. \A e \in E : \E i \in 1..Len(s) : f[i] = e
    BY Zenon
  <2> HIDE DEF f, E
  <2>4. IsInjective(f)
    BY <2>1, <2>2, Zenon DEF IsInjective
  <2>5. f \in Bijection(1..Len(s), E)
    BY <2>1, <2>3, <2>4, Zenon DEF Bijection, Injection, Surjection
  <2> QED BY <2>5, Zenon DEF ExistsBijection
<1> HIDE DEF E
<1>5. Cardinality(E) = Cardinality(1..Len(s))
  BY <1>1, <1>4, FS_Bijection, Zenon
<1> QED BY <1>1, <1>5, ZenonT(60) DEF E

\* The buffer after a request of a worker that is not in it.
LEMMA AppendRequest ==
  ASSUME NEW s \in Seq(Worker), NEW w \in Worker,
         \A i, j \in 1..Len(s) : s[i] = s[j] => i = j,
         w \notin {s[i] : i \in 1..Len(s)}
  PROVE  LET b == Append(s, w)
         IN  /\ b \in Seq(Worker) /\ Len(b) = Len(s) + 1 /\ Len(s) \in Nat
             /\ \A i, j \in 1..Len(b) : b[i] = b[j] => i = j
             /\ {b[i] : i \in 1..Len(b)} = {s[i] : i \in 1..Len(s)} \cup {w}
             /\ Len(b) = NumWorkers => {b[i] : i \in 1..Len(b)} = Worker
<1> DEFINE b == Append(s, w)
<1>1. /\ b \in Seq(Worker) /\ Len(b) = Len(s) + 1 /\ Len(s) \in Nat
      /\ \A i \in 1..Len(s) : b[i] = s[i]
      /\ b[Len(s) + 1] = w
  OBVIOUS
<1> HIDE DEF b
<1>2. \A i, j \in 1..Len(b) : b[i] = b[j] => i = j
  <2>1. \A i \in 1..Len(b) : i \in 1..Len(s) \/ i = Len(s) + 1
    BY <1>1
  <2> QED BY <1>1, <2>1, Zenon
<1>3. {b[i] : i \in 1..Len(b)} = {s[i] : i \in 1..Len(s)} \cup {w}
  <2>1. 1..Len(b) = (1..Len(s)) \cup {Len(s) + 1}
    BY <1>1
  <2> QED BY <1>1, <2>1
<1>4. ASSUME Len(b) = NumWorkers
      PROVE  {b[i] : i \in 1..Len(b)} = Worker
  <2>1. Cardinality({b[i] : i \in 1..Len(b)}) = Cardinality(Worker)
    BY <1>1, <1>2, <1>4, NoRepetition, Zenon DEF NumWorkers
  <2>2. {b[i] : i \in 1..Len(b)} \in SUBSET Worker
    BY <1>1
  <2> QED BY <2>1, <2>2, ServerAssumption, FS_Subset, Zenon
<1> QED BY <1>1, <1>2, <1>3, <1>4, Zenon DEF b

-----------------------------------------------------------------------------
(* The thread of a key and its queue *)

\* GetThreadID finds the cached thread of a key, or caches the one it chooses.
LEMMA CachedThread ==
  ASSUME TypeOK, NEW k \in Key, CacheThreadID(k)
  PROVE  /\ GetThreadID(k) \in Thread
         /\ hash_cache'[k] = GetThreadID(k)
         /\ hash_cache[k] \in Thread => hash_cache[k] = GetThreadID(k)
         /\ \A j \in Key : j # k => hash_cache'[j] = hash_cache[j]
<1>1. hash_cache \in [Key -> Thread \cup {NoThread}]
  BY Zenon DEF TypeOK
<1>2. LeastLoaded \in Thread
  BY LeastLoadedType, Zenon
<1>3. NoThread \notin Thread
  BY DEF Thread, NoThread
<1>4. CASE hash_cache[k] # NoThread
  BY <1>1, <1>4, Zenon DEF GetThreadID, CacheThreadID, route
<1>5. CASE hash_cache[k] = NoThread
  <2>1. hash_cache' = [hash_cache EXCEPT ![k] = LeastLoaded]
    BY <1>5, Zenon DEF CacheThreadID
  <2>2. GetThreadID(k) = LeastLoaded
    BY <1>5, Zenon DEF GetThreadID
  <2> HIDE DEF GetThreadID
  <2> QED BY <1>1, <1>2, <1>3, <1>5, <2>1, <2>2, Zenon
<1> QED BY <1>4, <1>5, Zenon

\* Nothing about the ALL_RECV of j changes when queue and busy do not.
LEMMA SameEngine ==
  ASSUME NEW j \in Key, UNCHANGED engine
  PROVE  /\ AllRecvPending(j)' <=> AllRecvPending(j)
         /\ AllRecvOnce(j) => AllRecvOnce(j)'
         /\ \A t \in Thread : (j \in busy'[t] <=> j \in busy[t]) /\ (AllRecvQueued(t, j)' <=> AllRecvQueued(t, j))
BY DEF engine, AllRecvPending, AllRecvOnce, AllRecvQueued, QueuedOnce, IsAllRecv
=============================================================================
