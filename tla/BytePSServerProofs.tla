------------------------- MODULE BytePSServerProofs -------------------------
(***************************************************************************)
(* Proofs about BytePSServer for every set of workers and keys, every      *)
(* number of engine threads and rounds, and both reduction modes: every    *)
(* action keeps ServerInv, and what follows from it.                       *)
(***************************************************************************)
EXTENDS BytePSServerTypes

(* The queue of a thread *)

\* Popping a message that is not ALL_RECV of j keeps the ALL_RECV of j.
LEMMA PopOther ==
  ASSUME TypeOK, NEW t \in Thread, NEW j \in Key, engine_queue[t] # <<>>,
         engine_queue' = [engine_queue EXCEPT ![t] = Tail(@)],
         ~IsAllRecv(t, 1, j), NEW u \in Thread
  PROVE  /\ AllRecvQueued(u, j)' <=> AllRecvQueued(u, j)
         /\ QueuedOnce(u, j) => QueuedOnce(u, j)'
<1>1. engine_queue \in [Thread -> Seq(Message)]
  BY Zenon DEF TypeOK
<1>2. CASE u # t
  BY <1>1, <1>2, Zenon DEF AllRecvQueued, QueuedOnce, IsAllRecv
<1>3. CASE u = t
  <2> DEFINE q == engine_queue[t]
  <2>1. /\ q \in Seq(Message) /\ Len(q) \in Nat /\ Len(q) >= 1
        /\ engine_queue'[t] = Tail(q)
        /\ Len(Tail(q)) = Len(q) - 1
        /\ \A i \in 1..(Len(q) - 1) : Tail(q)[i] = q[i + 1]
    BY <1>1
  <2>2. \A i \in 1..(Len(q) - 1) : IsAllRecv(t, i, j)' <=> IsAllRecv(t, i + 1, j)
    BY <2>1, ZenonT(60) DEF IsAllRecv
  <2>3. AllRecvQueued(t, j)' <=> \E i \in 1..(Len(q) - 1) : IsAllRecv(t, i + 1, j)
    BY <2>1, <2>2, ZenonT(60) DEF AllRecvQueued
  <2>4. AllRecvQueued(t, j) <=> \E i \in 1..Len(q) : i # 1 /\ IsAllRecv(t, i, j)
    BY <2>1, Zenon DEF AllRecvQueued
  <2>5. ASSUME NEW i \in 1..Len(q), i # 1, IsAllRecv(t, i, j)
        PROVE  \E h \in 1..(Len(q) - 1) : IsAllRecv(t, h + 1, j)
    <3>1. i - 1 \in 1..(Len(q) - 1) /\ (i - 1) + 1 = i
      BY <2>1, <2>5
    <3> QED BY <2>5, <3>1, Zenon
  <2>6. ASSUME NEW i \in 1..(Len(q) - 1), IsAllRecv(t, i + 1, j)
        PROVE  \E h \in 1..Len(q) : h # 1 /\ IsAllRecv(t, h, j)
    <3>1. i + 1 \in 1..Len(q) /\ i + 1 # 1
      BY <2>1
    <3> QED BY <2>6, <3>1, Zenon
  <2>7. ASSUME QueuedOnce(t, j), NEW h \in 1..(Len(q) - 1), NEW i \in 1..(Len(q) - 1),
               IsAllRecv(t, h, j)', IsAllRecv(t, i, j)'
        PROVE  h = i
    <3>1. h + 1 \in 1..Len(q) /\ i + 1 \in 1..Len(q) /\ IsAllRecv(t, h + 1, j) /\ IsAllRecv(t, i + 1, j)
      BY <2>1, <2>2, <2>7
    <3>2. h + 1 = i + 1
      BY <2>7, <3>1, Zenon DEF QueuedOnce
    <3> QED BY <3>2
  <2>8. QueuedOnce(t, j) => QueuedOnce(t, j)'
    BY <2>1, <2>7, ZenonT(60) DEF QueuedOnce
  <2> QED BY <1>3, <2>3, <2>4, <2>5, <2>6, <2>8, Zenon
<1> QED BY <1>2, <1>3, Zenon

\* Popping the only ALL_RECV of k leaves none.
LEMMA PopAllRecv ==
  ASSUME TypeOK, NEW t \in Thread, NEW k \in Key, engine_queue[t] # <<>>,
         engine_queue' = [engine_queue EXCEPT ![t] = Tail(@)],
         IsAllRecv(t, 1, k), QueuedOnce(t, k)
  PROVE  ~AllRecvQueued(t, k)' /\ QueuedOnce(t, k)'
<1> DEFINE q == engine_queue[t]
<1>1. /\ q \in Seq(Message) /\ Len(q) \in Nat /\ Len(q) >= 1
      /\ engine_queue'[t] = Tail(q)
      /\ Len(Tail(q)) = Len(q) - 1
      /\ \A i \in 1..(Len(q) - 1) : Tail(q)[i] = q[i + 1]
  BY DEF TypeOK
<1>2. ASSUME NEW i \in 1..(Len(q) - 1), IsAllRecv(t, i, k)'
      PROVE  FALSE
  <2>1. engine_queue'[t][i] = q[i + 1]
    BY <1>1, ZenonT(60)
  <2>2. IsAllRecv(t, i + 1, k)
    BY <1>2, <2>1, Zenon DEF IsAllRecv
  <2>3. i + 1 \in 1..Len(q) /\ 1 \in 1..Len(q) /\ i + 1 # 1
    BY <1>1
  <2> QED BY <2>2, <2>3, Zenon DEF QueuedOnce
<1> QED BY <1>1, <1>2, ZenonT(60) DEF AllRecvQueued, QueuedOnce

\* Appending messages that are not ALL_RECV of j keeps the ALL_RECV of j.
LEMMA AppendOther ==
  ASSUME TypeOK, NEW t \in Thread, NEW j \in Key, NEW more \in Seq(Message),
         engine_queue' = [engine_queue EXCEPT ![t] = @ \o more],
         \A i \in 1..Len(more) : ~(more[i].ops = "ALL_RECV" /\ more[i].key = j),
         NEW u \in Thread
  PROVE  /\ AllRecvQueued(u, j)' <=> AllRecvQueued(u, j)
         /\ QueuedOnce(u, j) => QueuedOnce(u, j)'
<1>1. engine_queue \in [Thread -> Seq(Message)]
  BY Zenon DEF TypeOK
<1>2. CASE u # t
  BY <1>1, <1>2, Zenon DEF AllRecvQueued, QueuedOnce, IsAllRecv
<1>3. CASE u = t
  <2> DEFINE q == engine_queue[t]
  <2>1. /\ q \in Seq(Message) /\ Len(q) \in Nat /\ Len(more) \in Nat
        /\ engine_queue'[t] = q \o more
        /\ Len(q \o more) = Len(q) + Len(more)
        /\ \A i \in 1..(Len(q) + Len(more)) :
             (q \o more)[i] = IF i <= Len(q) THEN q[i] ELSE more[i - Len(q)]
    BY <1>1
  <2>2. \A i \in 1..Len(q) : IsAllRecv(t, i, j)' <=> IsAllRecv(t, i, j)
    BY <2>1 DEF IsAllRecv
  <2>3. ASSUME NEW i \in 1..(Len(q) + Len(more)), IsAllRecv(t, i, j)'
        PROVE  i \in 1..Len(q)
    <3>1. CASE i > Len(q)
      <4>1. i - Len(q) \in 1..Len(more) /\ (q \o more)[i] = more[i - Len(q)]
        BY <2>1, <3>1
      <4> QED BY <2>1, <2>3, <4>1, Zenon DEF IsAllRecv
    <3> QED BY <2>1, <3>1
  <2>4. AllRecvQueued(t, j)' <=> AllRecvQueued(t, j)
    BY <2>1, <2>2, <2>3 DEF AllRecvQueued
  <2>5. QueuedOnce(t, j) => QueuedOnce(t, j)'
    BY <2>1, <2>2, <2>3, Zenon DEF QueuedOnce
  <2> QED BY <1>3, <2>4, <2>5, Zenon
<1> QED BY <1>2, <1>3, Zenon

\* Appending messages of which only the last is ALL_RECV of k, to a queue without one.
LEMMA AppendAllRecv ==
  ASSUME TypeOK, NEW t \in Thread, NEW k \in Key, NEW more \in Seq(Message),
         engine_queue' = [engine_queue EXCEPT ![t] = @ \o more],
         Len(more) >= 1, ~AllRecvQueued(t, k),
         \A i \in 1..Len(more) : (more[i].ops = "ALL_RECV" /\ more[i].key = k) <=> i = Len(more)
  PROVE  AllRecvQueued(t, k)' /\ QueuedOnce(t, k)'
<1> DEFINE q == engine_queue[t]
<1>1. /\ q \in Seq(Message) /\ Len(q) \in Nat /\ Len(more) \in Nat
      /\ engine_queue'[t] = q \o more
      /\ Len(q \o more) = Len(q) + Len(more)
      /\ \A i \in 1..(Len(q) + Len(more)) :
           (q \o more)[i] = IF i <= Len(q) THEN q[i] ELSE more[i - Len(q)]
  BY DEF TypeOK
<1>2. ASSUME NEW i \in 1..(Len(q) + Len(more))
      PROVE  IsAllRecv(t, i, k)' <=> i = Len(q) + Len(more)
  <2>1. CASE i <= Len(q)
    <3>1. i \in 1..Len(q) /\ (q \o more)[i] = q[i] /\ i # Len(q) + Len(more)
      BY <1>1, <2>1
    <3> QED BY <1>1, <3>1, Zenon DEF IsAllRecv, AllRecvQueued
  <2>2. CASE i > Len(q)
    <3>1. i - Len(q) \in 1..Len(more) /\ (q \o more)[i] = more[i - Len(q)]
      BY <1>1, <2>2
    <3>2. i = Len(q) + Len(more) <=> i - Len(q) = Len(more)
      BY <1>1
    <3> QED BY <1>1, <3>1, <3>2, ZenonT(60) DEF IsAllRecv
  <2> QED BY <1>1, <2>1, <2>2
<1>3. Len(q) + Len(more) \in 1..(Len(q) + Len(more))
  BY <1>1
<1> QED BY <1>1, <1>2, <1>3 DEF AllRecvQueued, QueuedOnce

-----------------------------------------------------------------------------
(* A step that is not about key j *)

SameKey(j) ==
  /\ request'[j] = request[j]
  /\ has_tensor'[j] = has_tensor[j]
  /\ hash_cache'[j] = hash_cache[j]
  /\ \A w \in Worker : phase'[w][j] = phase[w][j] /\ round'[w][j] = round[w][j]
  /\ \A t \in Thread :
       /\ is_push_finished'[t][j] = is_push_finished[t][j]
       /\ q_pull_reqmeta'[t][j] = q_pull_reqmeta[t][j]
       /\ seen_sender'[t][j] = seen_sender[t][j]
       /\ pull_cnt'[t][j] = pull_cnt[t][j]

\* KeyInv(j) is kept when nothing of j changes but the place of its ALL_RECV.
LEMMA KeyFrame ==
  ASSUME NEW j \in Key, KeyInv(j), SameKey(j),
         AllRecvPending(j)' <=> AllRecvPending(j), AllRecvOnce(j)',
         \A t \in Thread : hash_cache[j] # t => j \notin busy'[t] /\ ~AllRecvQueued(t, j)'
  PROVE  KeyInv(j)'
<1>1. InRequest(j)' = InRequest(j)
  BY DEF SameKey, InRequest
<1>2. Finished(j)' <=> Finished(j)
  BY Zenon DEF SameKey, Finished
<1>3. RequestInv(j)' /\ CountInv(j)'
  BY DEF KeyInv, SameKey, RequestInv, CountInv
<1>4. RouteInv(j)'
  BY DEF KeyInv, SameKey, RouteInv
<1>5. WaitingInv(j)'
  BY DEF KeyInv, SameKey, WaitingInv
<1>6. CASE ~has_tensor[j]
  <2>1. Declaring(j)'
    BY <1>1, <1>6, Zenon DEF KeyInv, SameKey, Declaring
  <2> QED BY <1>3, <1>4, <1>5, <1>6, <2>1, Zenon DEF KeyInv, SameKey
<1>7. CASE has_tensor[j]
  <2>1. PICK e \in Round : /\ Rounds(j, e)
                           /\ Pending(j) \/ Answering(j) \/ Between(j)
                           /\ InRequest(j) # {} => hash_cache[j] \in Thread
    BY <1>7, Zenon DEF KeyInv, Training
  <2>2. Rounds(j, e)'
    BY <1>1, <2>1, Zenon DEF Rounds, SameKey
  <2>3. Pending(j) => Pending(j)'
    BY <1>1, <1>2, Zenon DEF Pending, SameKey
  <2>4. Between(j) => Between(j)'
    BY <1>1, <1>2, Zenon DEF Between, SameKey
  <2>5. ASSUME Answering(j) PROVE Answering(j)'
    <3>1. hash_cache[j] \in Thread
      BY <2>5, Zenon DEF Answering, Finished, KeyInv, RouteInv
    <3> QED BY <1>1, <1>2, <2>5, <3>1 DEF Answering, SameKey
  <2>6. Training(j)'
    BY <1>1, <2>1, <2>2, <2>3, <2>4, <2>5, Zenon DEF Training, SameKey
  <2> QED BY <1>3, <1>4, <1>5, <1>7, <2>6, Zenon DEF KeyInv, SameKey
<1> QED BY <1>6, <1>7, Zenon

\* ServerInv holds initially.
LEMMA InvInit == Init => ServerInv
<1> SUFFICES ASSUME Init, NEW k \in Key PROVE KeyInv(k)
  BY Zenon DEF ServerInv
<1>1. InRequest(k) = {}
  BY DEF Init, InRequest
<1>2. RequestInv(k)
  BY NumWorkersType DEF Init, RequestInv
<1>3. \A t \in Thread : ~AllRecvQueued(t, k) /\ QueuedOnce(t, k) /\ k \notin busy[t]
  BY DEF Init, AllRecvQueued, QueuedOnce
<1>4. RouteInv(k) /\ AllRecvOnce(k)
  BY <1>3, Zenon DEF Init, RouteInv, AllRecvOnce
<1>5. CountInv(k)
  BY FS_EmptySet, Zenon DEF Init, CountInv
<1>6. WaitingInv(k)
  BY Zenon DEF Init, WaitingInv
<1>7. ~has_tensor[k] /\ Declaring(k)
  BY <1>1, Zenon DEF Init, Declaring
<1> QED BY <1>2, <1>4, <1>5, <1>6, <1>7, Zenon DEF KeyInv

\* An init push keeps ServerInv, the last one of a key included.
LEMMA InvHandleInitPush ==
  ASSUME TypeOK, ServerInv, NEW w \in Worker, NEW k \in Key, HandleInitPush(w, k)
  PROVE  ServerInv'
<1> DEFINE b == Append(request[k], w)
<1>1. /\ phase \in [Worker -> [Key -> Phase]]
      /\ has_tensor \in [Key -> BOOLEAN]
      /\ request \in [Key -> Seq(Worker)]
  BY Zenon DEF TypeOK
<1>2. /\ phase[w][k] = "start" /\ ~has_tensor[k]
      /\ UNCHANGED <<round, hash_cache>> /\ UNCHANGED engine /\ UNCHANGED flags
  BY Zenon DEF HandleInitPush, route
<1>3. KeyInv(k) /\ Declaring(k)
  BY <1>2, Zenon DEF ServerInv, KeyInv
<1>4. w \notin InRequest(k)
  BY <1>2, <1>3, Zenon DEF Declaring
<1>5. /\ b \in Seq(Worker) /\ Len(b) = Len(request[k]) + 1 /\ Len(request[k]) \in Nat
      /\ \A i, j \in 1..Len(b) : b[i] = b[j] => i = j
      /\ {b[i] : i \in 1..Len(b)} = InRequest(k) \cup {w}
      /\ Len(b) = NumWorkers => {b[i] : i \in 1..Len(b)} = Worker
  <2>1. /\ request[k] \in Seq(Worker)
        /\ \A i, j \in 1..Len(request[k]) : request[k][i] = request[k][j] => i = j
        /\ w \notin {request[k][i] : i \in 1..Len(request[k])}
    BY <1>1, <1>3, <1>4, Zenon DEF KeyInv, RequestInv, InRequest
  <2> QED BY <2>1, AppendRequest, ZenonT(60) DEF InRequest
<1>6. RouteInv(k)' /\ AllRecvOnce(k)' /\ CountInv(k)'
  BY <1>2, <1>3, SameEngine DEF KeyInv, RouteInv, CountInv, flags
<1>7. \A t \in Thread, v \in Worker : q_pull_reqmeta'[t][k][v] = 0
  BY <1>2, <1>3, Zenon DEF KeyInv, Declaring, WaitingInv, flags
<1>8. ASSUME NEW j \in Key, j # k, SameKey(j)
      PROVE  KeyInv(j)'
  <2>1. KeyInv(j)
    BY Zenon DEF ServerInv
  <2> QED BY <1>2, <1>8, <2>1, KeyFrame, SameEngine, ZenonT(60) DEF KeyInv, RouteInv
<1> HIDE DEF b
<1>9. CASE Len(b) < NumWorkers
  <2>1. /\ request' = [request EXCEPT ![k] = b]
        /\ phase' = [phase EXCEPT ![w][k] = "init"]
        /\ has_tensor' = has_tensor
    BY <1>9, Zenon DEF HandleInitPush, b
  <2>2. request'[k] = b /\ InRequest(k)' = InRequest(k) \cup {w}
    <3>1. request'[k] = b
      BY <1>1, <2>1, Zenon
    <3>2. InRequest(k)' = {b[i] : i \in 1..Len(b)}
      BY <3>1, Zenon DEF InRequest
    <3> QED BY <1>5, <3>1, <3>2, Zenon
  <2>3. RequestInv(k)'
    BY <1>5, <1>9, <2>2, Zenon DEF RequestInv
  <2>4. \A v \in Worker : phase'[v][k] = IF v \in InRequest(k)' THEN "init" ELSE "start"
    BY <1>1, <1>3, <2>1, <2>2, Zenon DEF Declaring
  <2>5. WaitingInv(k)'
    BY <1>7, <2>4, Zenon DEF WaitingInv
  <2>6. Declaring(k)'
    BY <1>2, <1>3, <2>4, Zenon DEF Declaring
  <2>7. KeyInv(k)'
    BY <1>2, <1>6, <2>1, <2>3, <2>5, <2>6, Zenon DEF KeyInv
  <2>8. ASSUME NEW j \in Key, j # k PROVE SameKey(j)
    BY <1>1, <1>2, <2>1, <2>8, Zenon DEF SameKey, flags
  <2> QED BY <1>8, <2>7, <2>8, Zenon DEF ServerInv
<1>10. CASE ~(Len(b) < NumWorkers)
  <2>1. Len(b) = NumWorkers /\ {b[i] : i \in 1..Len(b)} = Worker
    <3>1. Len(request[k]) < NumWorkers
      BY <1>3, Zenon DEF KeyInv, RequestInv
    <3>2. Len(b) = NumWorkers
      <4>1. Len(b) = Len(request[k]) + 1 /\ Len(request[k]) \in Nat
        BY <1>5, Zenon
      <4> HIDE DEF b
      <4> QED BY <1>10, <3>1, <4>1, NumWorkersType
    <3> QED BY <1>5, <3>2, Zenon
  <2>2. /\ request' = [request EXCEPT ![k] = <<>>]
        /\ has_tensor' = [has_tensor EXCEPT ![k] = TRUE]
        /\ phase' = [v \in Worker |->
                       [phase[v] EXCEPT ![k] = IF \E i \in 1..Len(b) : b[i] = v THEN "idle" ELSE @]]
    BY <1>10, Zenon DEF HandleInitPush, b
  <2>3. request'[k] = <<>> /\ InRequest(k)' = {} /\ has_tensor'[k]
    BY <1>1, <2>2 DEF InRequest
  <2>4. \A v \in Worker : \E i \in 1..Len(b) : b[i] = v
    BY <2>1, Zenon
  <2>5. \A v \in Worker : phase'[v][k] = "idle"
    BY <1>1, <2>2, <2>4, Zenon
  <2>6. RequestInv(k)'
    BY <2>3, NumWorkersType DEF RequestInv
  <2>7. WaitingInv(k)'
    BY <1>7, <2>5, Zenon DEF WaitingInv
  <2>8. Rounds(k, 0)' /\ 0 \in Round
    BY <1>2, <1>3, <2>3, ServerAssumption DEF Rounds, Declaring, Round
  <2>9. Between(k)'
    <3>1. ~AllRecvPending(k) /\ ~Finished(k)
      BY <1>3 DEF KeyInv, RouteInv, Declaring, AllRecvPending, Finished, NoThread, Thread
    <3>2. ~AllRecvPending(k)' /\ ~Finished(k)'
      BY <1>2, <3>1, SameEngine, Zenon DEF Finished, flags
    <3> QED BY <2>5, <3>2, Zenon DEF Between
  <2>10. KeyInv(k)'
    BY <1>6, <2>3, <2>6, <2>7, <2>8, <2>9, Zenon DEF KeyInv, Training
  <2>11. ASSUME NEW j \in Key, j # k PROVE SameKey(j)
    BY <1>1, <1>2, <2>2, <2>11, Zenon DEF SameKey, flags
  <2> QED BY <1>8, <2>10, <2>11, Zenon DEF ServerInv
<1> QED BY <1>9, <1>10, Zenon

\* A push keeps ServerInv, the last one of a round included.
LEMMA InvHandlePush ==
  ASSUME TypeOK, ServerInv, NEW w \in Worker, NEW k \in Key, HandlePush(w, k)
  PROVE  ServerInv'
<1>0. PICK t \in Thread : t = GetThreadID(k)
  BY LeastLoadedType, Zenon DEF GetThreadID, TypeOK
<1> DEFINE g    == <<w, round[w][k] + 1>>
           n    == Len(request[k])
           op   == IF n = 0 THEN "COPY_FIRST" ELSE "SUM_RECV"
           msgs == <<StoredMsg(op, k, g), ReplicaMsg(k, n, g)>>
           last == LastPush(k)
           more == IF last THEN Append(msgs, AllRecvMsg(k)) ELSE msgs
           b    == Append(request[k], w)
<1>1. /\ phase \in [Worker -> [Key -> Phase]]
      /\ round \in [Worker -> [Key -> Round]]
      /\ request \in [Key -> Seq(Worker)]
      /\ Round \subseteq Nat
  BY ServerAssumption DEF TypeOK, Round
<1>2. /\ phase[w][k] = "idle" /\ round[w][k] < MaxRound /\ has_tensor[k]
      /\ engine_queue' = [engine_queue EXCEPT ![t] = @ \o more]
      /\ request' = [request EXCEPT ![k] = IF last THEN <<>> ELSE Append(@, w)]
      /\ CacheThreadID(k)
      /\ round' = [round EXCEPT ![w][k] = @ + 1]
      /\ phase' = [phase EXCEPT ![w][k] = "pushed"]
      /\ UNCHANGED <<has_tensor, busy>> /\ UNCHANGED flags
  BY <1>0, Zenon DEF HandlePush, PushMessages
<1>3. PICK e \in Round : /\ Rounds(k, e)
                         /\ Pending(k) \/ Answering(k) \/ Between(k)
                         /\ InRequest(k) # {} => hash_cache[k] \in Thread
  BY <1>2, Zenon DEF ServerInv, KeyInv, Training
<1>4. KeyInv(k)
  BY Zenon DEF ServerInv
<1>5. w \notin InRequest(k) /\ round[w][k] = e /\ (Answering(k) \/ Between(k))
  BY <1>2, <1>3, Zenon DEF Rounds, Pending
<1>6. /\ b \in Seq(Worker) /\ Len(b) = n + 1 /\ n \in Nat
      /\ \A i, j \in 1..Len(b) : b[i] = b[j] => i = j
      /\ {b[i] : i \in 1..Len(b)} = InRequest(k) \cup {w}
      /\ Len(b) = NumWorkers => InRequest(k) \cup {w} = Worker
  <2>1. /\ request[k] \in Seq(Worker)
        /\ \A i, j \in 1..Len(request[k]) : request[k][i] = request[k][j] => i = j
        /\ w \notin {request[k][i] : i \in 1..Len(request[k])}
    BY <1>1, <1>4, <1>5, Zenon DEF KeyInv, RequestInv, InRequest
  <2> QED BY <2>1, AppendRequest, ZenonT(60) DEF InRequest
<1>7. /\ more \in Seq(Message)
      /\ last => Len(more) = 3
      /\ ~last => Len(more) = 2
      /\ \A i \in 1..Len(more) :
           (more[i].ops = "ALL_RECV" <=> last /\ i = 3) /\ more[i].key = k
  <2> DEFINE m1 == StoredMsg(op, k, g)
             m2 == ReplicaMsg(k, n, g)
             m3 == AllRecvMsg(k)
  <2>1. g \in Grad
    BY <1>1, <1>2, ServerAssumption DEF Grad, Round
  <2>2. n \in Slot
    BY <1>4, <1>6, NumWorkersType DEF KeyInv, RequestInv, Slot
  <2>3. m1 \in Message /\ m2 \in Message /\ m3 \in Message
    BY <2>1, <2>2, MessageTypes, Zenon
  <2>4. /\ m1.ops # "ALL_RECV" /\ m1.key = k
        /\ m2.ops # "ALL_RECV" /\ m2.key = k
        /\ m3.ops = "ALL_RECV" /\ m3.key = k
    BY Zenon DEF StoredMsg, ReplicaMsg, AllRecvMsg
  <2>5. more = IF last THEN Append(<<m1, m2>>, m3) ELSE <<m1, m2>>
    BY Zenon
  <2> HIDE DEF m1, m2, m3, n, more
  <2>6. CASE last
    <3>1. more = Append(<<m1, m2>>, m3)
      BY <2>5, <2>6, Zenon
    <3>2. /\ more \in Seq(Message) /\ Len(more) = 3
          /\ more[1] = m1 /\ more[2] = m2 /\ more[3] = m3
      BY <2>3, <3>1
    <3> QED BY <2>4, <2>6, <3>2
  <2>7. CASE ~last
    <3>1. more = <<m1, m2>>
      BY <2>5, <2>7, Zenon
    <3>2. /\ more \in Seq(Message) /\ Len(more) = 2
          /\ more[1] = m1 /\ more[2] = m2
      BY <2>3, <3>1
    <3> QED BY <2>4, <2>7, <3>2
  <2> QED BY <2>6, <2>7, Zenon
<1>9. /\ t \in Thread /\ hash_cache'[k] = t
      /\ hash_cache[k] \in Thread => hash_cache[k] = t
      /\ \A j \in Key : j # k => hash_cache'[j] = hash_cache[j]
  BY <1>0, <1>2, CachedThread, ZenonT(60)
<1> HIDE DEF g, n, op, msgs, more, b
<1>10. ASSUME NEW j \in Key, j # k
       PROVE  KeyInv(j)'
  <2>1. KeyInv(j)
    BY ZenonT(60) DEF ServerInv
  <2>2. SameKey(j)
    BY <1>1, <1>2, <1>9, <1>10, Zenon DEF SameKey, flags
  <2>3. \A u \in Thread : /\ AllRecvQueued(u, j)' <=> AllRecvQueued(u, j)
                          /\ QueuedOnce(u, j) => QueuedOnce(u, j)'
    BY <1>2, <1>7, <1>9, <1>10, AppendOther, ZenonT(60)
  <2>4. AllRecvPending(j)' <=> AllRecvPending(j)
    BY <1>2, <2>3, Zenon DEF AllRecvPending
  <2>5. AllRecvOnce(j)'
    BY <1>2, <2>1, <2>3, Zenon DEF AllRecvOnce, KeyInv
  <2> QED BY <1>2, <2>1, <2>2, <2>3, <2>4, <2>5, KeyFrame DEF KeyInv, RouteInv
<1>11. ~AllRecvPending(k) /\ \A u \in Thread : ~AllRecvQueued(u, k) /\ k \notin busy[u]
  BY <1>5, Zenon DEF Answering, Between, AllRecvPending
<1>12. \A u \in Thread : u # t => ~AllRecvQueued(u, k)' /\ QueuedOnce(u, k)'
  BY <1>2, <1>4, <1>9, <1>11, ZenonT(60) DEF AllRecvQueued, QueuedOnce, IsAllRecv, TypeOK, KeyInv, AllRecvOnce
<1>13. QueuedOnce(t, k)' /\ (AllRecvQueued(t, k)' <=> last)
  <2>1. CASE last
    <3>1. /\ Len(more) >= 1
          /\ \A i \in 1..Len(more) : (more[i].ops = "ALL_RECV" /\ more[i].key = k) <=> i = Len(more)
      <4>1. Len(more) = 3
        BY <1>7, <2>1, Zenon
      <4>2. \A i \in 1..Len(more) : (more[i].ops = "ALL_RECV" <=> i = 3) /\ more[i].key = k
        BY <1>7, <2>1, Zenon
      <4> QED BY <4>1, <4>2
    <3>2. AllRecvQueued(t, k)' /\ QueuedOnce(t, k)'
      BY <1>2, <1>7, <1>9, <1>11, <3>1, AppendAllRecv, ZenonT(60)
    <3> QED BY <2>1, <3>2, Zenon
  <2>2. CASE ~last
    <3>1. \A i \in 1..Len(more) : ~(more[i].ops = "ALL_RECV" /\ more[i].key = k)
      BY <1>7, <2>2, Zenon
    <3>2. /\ AllRecvQueued(t, k)' <=> AllRecvQueued(t, k)
          /\ QueuedOnce(t, k) => QueuedOnce(t, k)'
      BY <1>2, <1>7, <1>9, <3>1, AppendOther, ZenonT(60)
    <3>3. QueuedOnce(t, k)
      BY <1>4, <1>9, Zenon DEF KeyInv, AllRecvOnce
    <3> QED BY <1>9, <1>11, <2>2, <3>2, <3>3, Zenon
  <2> QED BY <2>1, <2>2, Zenon
<1>14. AllRecvOnce(k)' /\ (AllRecvPending(k)' <=> last)
  <2>1. \A u \in Thread : k \notin busy'[u]
    BY <1>2, <1>11, Zenon
  <2>2. AllRecvOnce(k)'
    BY <1>12, <1>13, <2>1, Zenon DEF AllRecvOnce
  <2>3. AllRecvPending(k)' <=> last
    BY <1>9, <1>12, <1>13, <2>1, Zenon DEF AllRecvPending
  <2> QED BY <2>2, <2>3, Zenon
<1>15. RouteInv(k)'
  BY <1>2, <1>4, <1>9, <1>11, <1>12, Zenon DEF KeyInv, RouteInv, flags
<1>16. CountInv(k)' /\ (Finished(k)' <=> Finished(k))
  BY <1>2, <1>4, Zenon DEF KeyInv, CountInv, Finished, flags
<1>17. /\ phase'[w][k] = "pushed" /\ round'[w][k] = e + 1
       /\ \A v \in Worker : v # w => phase'[v][k] = phase[v][k] /\ round'[v][k] = round[v][k]
  BY <1>1, <1>2, <1>5, Zenon
<1>18. WaitingInv(k)'
  BY <1>2, <1>4, <1>9, <1>17 DEF KeyInv, WaitingInv, flags
<1>19. CASE ~last
  <2>1. request'[k] = b
    BY <1>1, <1>2, <1>19, Zenon DEF b
  <2>2. InRequest(k)' = InRequest(k) \cup {w}
    <3>1. InRequest(k)' = {b[i] : i \in 1..Len(b)}
      BY <2>1, ZenonT(60) DEF InRequest
    <3> QED BY <1>6, <3>1, Zenon
  <2>3. RequestInv(k)'
    BY <1>4, <1>6, <1>19, <2>1, NumWorkersType, SMTT(30), ZenonT(60) DEF RequestInv, KeyInv, LastPush, n
  <2>4. Rounds(k, e)'
    BY <1>3, <1>17, <2>2, ZenonT(60) DEF Rounds
  <2>5. Between(k) => Between(k)'
    BY <1>14, <1>16, <1>17, <1>19, <2>2, ZenonT(60) DEF Between
  <2>6. ASSUME Answering(k) PROVE Answering(k)'
    <3>1. hash_cache[k] \in Thread /\ hash_cache'[k] = hash_cache[k]
      BY <1>4, <1>9, <2>6, ZenonT(60) DEF Answering, Finished, KeyInv, RouteInv
    <3>2. {v \in Worker : phase'[v][k] = "idle"} = {v \in Worker : phase[v][k] = "idle"} \ {w}
      BY <1>17, Zenon
    <3>3. InRequest(k)' \cup {v \in Worker : phase'[v][k] = "idle"}
            = InRequest(k) \cup {v \in Worker : phase[v][k] = "idle"}
      BY <1>2, <2>2, <3>2, Zenon
    <3>4. UNCHANGED seen_sender
      BY <1>2, Zenon DEF flags
    <3>5. /\ seen_sender'[hash_cache'[k]][k] = InRequest(k)' \cup {v \in Worker : phase'[v][k] = "idle"}
          /\ seen_sender'[hash_cache'[k]][k] # Worker
      BY <2>6, <3>1, <3>3, <3>4, ZenonT(60) DEF Answering
    <3>6. \A v \in Worker \ InRequest(k)' : phase'[v][k] \in {"idle", "pushed"}
      BY <1>17, <2>2, <2>6, ZenonT(60) DEF Answering
    <3>7. ~AllRecvPending(k)' /\ Finished(k)'
      BY <1>14, <1>16, <1>19, <2>6, SMTT(10), ZenonT(60) DEF Answering
    <3> QED BY <3>5, <3>6, <3>7, SMTT(10), ZenonT(60) DEF Answering
  <2>7. Training(k)'
    BY <1>5, <1>9, <2>4, <2>5, <2>6, Zenon DEF Training
  <2>8. KeyInv(k)'
    BY <1>2, <1>14, <1>15, <1>16, <1>18, <2>3, <2>7, ZenonT(60) DEF KeyInv
  <2> QED BY <1>10, <2>8, Zenon DEF ServerInv
<1>20. CASE last
  <2>1. InRequest(k) \cup {w} = Worker
    BY <1>6, <1>20, Zenon DEF LastPush, n
  <2>2. Between(k)
    BY <1>2, <1>5, <2>1, ZenonT(60) DEF Answering
  <2>3. request'[k] = <<>> /\ InRequest(k)' = {}
    BY <1>1, <1>2, <1>20 DEF InRequest
  <2>4. RequestInv(k)'
    BY <2>3, NumWorkersType DEF RequestInv
  <2>5. e + 1 \in Round
    BY <1>1, <1>2, <1>5, ServerAssumption DEF Round
  <2>6. Rounds(k, e + 1)'
    BY <1>3, <1>17, <2>1, <2>3, ZenonT(60) DEF Rounds
  <2>7. Pending(k)'
    BY <1>3, <1>14, <1>16, <1>17, <1>20, <2>1, <2>2, <2>3, ZenonT(60) DEF Pending, Between, Rounds
  <2>8. Training(k)'
    BY <2>3, <2>5, <2>6, <2>7, ZenonT(60) DEF Training
  <2>9. KeyInv(k)'
    BY <1>2, <1>14, <1>15, <1>16, <1>18, <2>4, <2>8, Zenon DEF KeyInv
  <2> QED BY <1>10, <2>9, Zenon DEF ServerInv
<1> QED BY <1>19, <1>20, Zenon

-----------------------------------------------------------------------------
(* Pulls and the engine threads, which answer them *)

\* What RecordResponses leaves, with the count equal to the number of senders seen.
LEMMA Recorded ==
  ASSUME TypeOK, NEW t \in Thread, NEW k \in Key, NEW S \in SUBSET Worker,
         pull_cnt[t][k] = Cardinality(seen_sender[t][k]),
         S \cap seen_sender[t][k] = {},
         RecordResponses(t, k, S)
  PROVE  LET seen == seen_sender[t][k] \cup S
         IN  /\ pull_cnt'[t][k] = Cardinality(seen_sender'[t][k])
             /\ seen = Worker => ~is_push_finished'[t][k] /\ seen_sender'[t][k] = {}
             /\ seen # Worker => is_push_finished'[t][k] /\ seen_sender'[t][k] = seen
             /\ \A u \in Thread, j \in Key : u # t \/ j # k =>
                  /\ is_push_finished'[u][j] = is_push_finished[u][j]
                  /\ seen_sender'[u][j] = seen_sender[u][j]
                  /\ pull_cnt'[u][j] = pull_cnt[u][j]
<1> DEFINE seen == seen_sender[t][k] \cup S
           cnt  == pull_cnt[t][k] + Cardinality(S)
<1>1. /\ is_push_finished \in [Thread -> [Key -> BOOLEAN]]
      /\ seen_sender \in [Thread -> [Key -> SUBSET Worker]]
      /\ pull_cnt \in [Thread -> [Key -> Nat]]
  BY Zenon DEF TypeOK
<1>2. cnt = Cardinality(seen)
  <2>1. IsFiniteSet(S) /\ IsFiniteSet(seen_sender[t][k])
    BY <1>1, ServerAssumption, FS_Subset
  <2>2. seen_sender[t][k] \cap S = {}
    BY Zenon
  <2>3. Cardinality(seen_sender[t][k] \cup S)
          = Cardinality(seen_sender[t][k]) + Cardinality(S) - Cardinality(seen_sender[t][k] \cap S)
    BY <2>1, FS_Union, Zenon
  <2>4. Cardinality(seen_sender[t][k] \cap S) = 0
    BY <2>2, FS_EmptySet, Zenon
  <2>5. Cardinality(S) \in Nat /\ Cardinality(seen_sender[t][k]) \in Nat
    BY <2>1, FS_CardinalityType, Zenon
  <2> QED BY <2>3, <2>4, <2>5
<1>3. cnt = NumWorkers <=> seen = Worker
  <2>1. seen \in SUBSET Worker
    BY <1>1
  <2> HIDE DEF seen
  <2>2. Cardinality(seen) = Cardinality(Worker) <=> seen = Worker
    BY <2>1, ServerAssumption, FS_Subset, Zenon
  <2> QED BY <1>2, <2>2, Zenon DEF NumWorkers
<1>4. CASE cnt = NumWorkers
  <2>1. /\ is_push_finished' = [is_push_finished EXCEPT ![t][k] = FALSE]
        /\ pull_cnt'         = [pull_cnt EXCEPT ![t][k] = 0]
        /\ seen_sender'      = [seen_sender EXCEPT ![t][k] = {}]
    BY <1>4, Zenon DEF RecordResponses
  <2>2. seen = Worker
    BY <1>3, <1>4, Zenon
  <2> HIDE DEF seen, cnt
  <2> QED BY <1>1, <2>1, <2>2, FS_EmptySet, ZenonT(60) DEF seen
<1>5. CASE cnt # NumWorkers
  <2>1. /\ is_push_finished' = [is_push_finished EXCEPT ![t][k] = TRUE]
        /\ pull_cnt'         = [pull_cnt EXCEPT ![t][k] = cnt]
        /\ seen_sender'      = [seen_sender EXCEPT ![t][k] = seen]
    BY <1>5, Zenon DEF RecordResponses
  <2>2. seen # Worker
    BY <1>3, <1>5, Zenon
  <2> HIDE DEF seen, cnt
  <2> QED BY <1>1, <1>2, <2>1, <2>2, ZenonT(60) DEF seen
<1> QED BY <1>4, <1>5, Zenon

\* A worker with an unanswered push has a key that is cached on a thread.
LEMMA PushedKey ==
  ASSUME ServerInv, NEW w \in Worker, NEW k \in Key, phase[w][k] = "pushed"
  PROVE  has_tensor[k] /\ hash_cache[k] \in Thread
<1>1. KeyInv(k)
  BY Zenon DEF ServerInv
<1>2. has_tensor[k] /\ Training(k)
  BY <1>1, Zenon DEF KeyInv, Declaring
<1>3. AllRecvPending(k) \/ Finished(k) => hash_cache[k] \in Thread
  BY <1>1, Zenon DEF KeyInv, RouteInv, AllRecvPending, Finished
<1>4. ~AllRecvPending(k) /\ ~Finished(k) => w \in InRequest(k)
  BY <1>2, Zenon DEF Training, Pending, Answering, Between
<1> QED BY <1>2, <1>3, <1>4, Zenon DEF Training

\* A pull keeps ServerInv, whether it is answered or parked.
LEMMA InvHandlePull ==
  ASSUME TypeOK, ServerInv, NEW w \in Worker, NEW k \in Key, HandlePull(w, k)
  PROVE  ServerInv'
<1>1. /\ phase[w][k] = "pushed"
      /\ UNCHANGED <<round, request, has_tensor, hash_cache>> /\ UNCHANGED engine
  BY Zenon DEF HandlePull, store, route
<1>2. KeyInv(k) /\ has_tensor[k] /\ hash_cache[k] \in Thread
  BY <1>1, PushedKey, Zenon DEF ServerInv
<1>3. PICK t \in Thread : t = hash_cache[k]
  BY <1>2, Zenon
<1>4. t = GetThreadID(k)
  BY <1>3 DEF GetThreadID, Thread, NoThread
<1>5. PICK e \in Round : /\ Rounds(k, e)
                         /\ Pending(k) \/ Answering(k) \/ Between(k)
  BY <1>2, Zenon DEF KeyInv, Training
<1>6. /\ phase \in [Worker -> [Key -> Phase]]
      /\ q_pull_reqmeta \in [Thread -> [Key -> [Worker -> Nat]]]
  BY Zenon DEF TypeOK
<1>7. /\ RequestInv(k)' /\ AllRecvOnce(k)' /\ InRequest(k)' = InRequest(k)
      /\ AllRecvPending(k)' <=> AllRecvPending(k)
      /\ hash_cache'[k] = t /\ has_tensor'[k]
  BY <1>1, <1>2, <1>3, SameEngine, Zenon DEF KeyInv, RequestInv, InRequest
<1>8. ASSUME NEW j \in Key, j # k, SameKey(j)
      PROVE  KeyInv(j)'
  <2>1. KeyInv(j)
    BY Zenon DEF ServerInv
  <2> QED BY <1>1, <1>8, <2>1, KeyFrame, SameEngine, Zenon DEF KeyInv, RouteInv
<1>9. CASE ~(is_push_finished[t][k] /\ w \notin seen_sender[t][k])
  <2>1. /\ q_pull_reqmeta' = [q_pull_reqmeta EXCEPT ![t][k][w] = @ + 1]
        /\ phase' = [phase EXCEPT ![w][k] = "waiting"]
        /\ UNCHANGED <<is_push_finished, seen_sender, pull_cnt>>
    BY <1>4, <1>9, Zenon DEF HandlePull, MayAnswer
  <2>2. /\ phase'[w][k] = "waiting"
        /\ \A v \in Worker : v # w => phase'[v][k] = phase[v][k]
    BY <1>6, <2>1, Zenon
  <2>3. RouteInv(k)'
    BY <1>1, <1>2, <1>3, <1>6, <2>1, SameEngine, ZenonT(60) DEF KeyInv, RouteInv
  <2>4. CountInv(k)' /\ (Finished(k)' <=> Finished(k))
    BY <1>2, <2>1, Zenon DEF KeyInv, CountInv, Finished
  <2>5. WaitingInv(k)'
    <3>1. q_pull_reqmeta[t][k][w] = 0
      BY <1>1, <1>2, Zenon DEF KeyInv, WaitingInv
    <3>2. q_pull_reqmeta'[t][k][w] = 1
      BY <1>6, <2>1, <3>1
    <3>3. \A u \in Thread, v \in Worker : v # w => q_pull_reqmeta'[u][k][v] = q_pull_reqmeta[u][k][v]
      BY <1>6, <2>1
    <3> QED BY <1>2, <1>3, <1>7, <2>2, <3>2, <3>3 DEF KeyInv, WaitingInv
  <2>6. w \in InRequest(k) \/ Pending(k)
    <3>1. ASSUME Answering(k) PROVE w \in InRequest(k)
      <4>1. is_push_finished[t][k]
        BY <1>2, <1>3, <3>1, Zenon DEF Answering, Finished, KeyInv, RouteInv
      <4> QED BY <1>1, <1>3, <1>9, <3>1, <4>1, Zenon DEF Answering
    <3>2. Between(k) => w \in InRequest(k)
      BY <1>1, Zenon DEF Between
    <3> QED BY <1>5, <3>1, <3>2, Zenon
  <2>7. Rounds(k, e)'
    BY <1>1, <1>5, <1>7, <2>2, Zenon DEF Rounds
  <2>8. Pending(k) => Pending(k)'
    BY <1>7, <2>2, <2>4, Zenon DEF Pending
  <2>9. Between(k) => Between(k)'
    BY <1>7, <2>2, <2>4, <2>6, Zenon DEF Between, Pending
  <2>10. ASSUME Answering(k) PROVE Answering(k)'
    <3>1. w \in InRequest(k)
      BY <2>6, <2>10, Zenon DEF Answering, Pending
    <3>2. {v \in Worker : phase'[v][k] = "idle"} = {v \in Worker : phase[v][k] = "idle"}
      BY <1>1, <2>2, Zenon
    <3>3. seen_sender'[hash_cache'[k]][k] = seen_sender[hash_cache[k]][k]
      BY <1>3, <1>7, <2>1, Zenon
    <3> QED BY <1>7, <2>2, <2>4, <2>10, <3>1, <3>2, <3>3, Zenon DEF Answering
  <2>11. Training(k)'
    BY <1>5, <1>7, <2>7, <2>8, <2>9, <2>10, Zenon DEF Training
  <2>12. KeyInv(k)'
    BY <1>7, <2>3, <2>4, <2>5, <2>11, Zenon DEF KeyInv
  <2>13. ASSUME NEW j \in Key, j # k PROVE SameKey(j)
    BY <1>1, <1>6, <2>1, <2>13, Zenon DEF SameKey
  <2> QED BY <1>8, <2>12, <2>13, Zenon DEF ServerInv
<1>10. CASE is_push_finished[t][k] /\ w \notin seen_sender[t][k]
  <2>1. /\ SendPullResponse({w}, k)
        /\ RecordResponses(t, k, {w})
        /\ UNCHANGED q_pull_reqmeta
    BY <1>4, <1>10, Zenon DEF HandlePull, MayAnswer
  <2>2. /\ phase'[w][k] = "idle"
        /\ \A v \in Worker, j \in Key : v # w \/ j # k => phase'[v][j] = phase[v][j]
    BY <1>6, <2>1, Zenon DEF SendPullResponse
  <2>3. Answering(k)
    BY <1>5, <1>10, Zenon DEF Pending, Between, Finished
  <2>4. w \notin InRequest(k)
    BY <1>3, <1>10, <2>3, Zenon DEF Answering
  <2> DEFINE seen == seen_sender[t][k] \cup {w}
  <2>5. /\ pull_cnt'[t][k] = Cardinality(seen_sender'[t][k])
        /\ seen = Worker => ~is_push_finished'[t][k] /\ seen_sender'[t][k] = {}
        /\ seen # Worker => is_push_finished'[t][k] /\ seen_sender'[t][k] = seen
        /\ \A u \in Thread, j \in Key : u # t \/ j # k =>
             /\ is_push_finished'[u][j] = is_push_finished[u][j]
             /\ seen_sender'[u][j] = seen_sender[u][j]
             /\ pull_cnt'[u][j] = pull_cnt[u][j]
    <3>1. pull_cnt[t][k] = Cardinality(seen_sender[t][k]) /\ {w} \cap seen_sender[t][k] = {}
      BY <1>2, <1>10, Zenon DEF KeyInv, CountInv
    <3> QED BY <2>1, <3>1, Recorded
  <2>6. seen = InRequest(k) \cup {v \in Worker : phase'[v][k] = "idle"}
    BY <1>3, <2>2, <2>3, SMTT(30), ZenonT(60) DEF Answering
  <2>7. RouteInv(k)'
    BY <1>1, <1>2, <1>3, <2>1, <2>5, SameEngine, SMTT(30), ZenonT(60) DEF KeyInv, RouteInv
  <2>8. CountInv(k)'
    BY <1>2, <2>5 DEF KeyInv, CountInv
  <2>9. WaitingInv(k)'
    BY <1>1, <1>2, <2>1, <2>2, Zenon DEF KeyInv, WaitingInv
  <2>10. Rounds(k, e)'
    BY <1>1, <1>5, <1>7, <2>2, <2>4, Zenon DEF Rounds
  <2>11. Between(k)' \/ Answering(k)'
    <3>1. CASE seen = Worker
      <4>1. ~Finished(k)'
        BY <1>2, <1>3, <2>5, <3>1 DEF KeyInv, RouteInv, Finished
      <4>2. \A v \in Worker \ InRequest(k) : phase'[v][k] = "idle"
        BY <2>6, <3>1, Zenon
      <4> QED BY <1>7, <2>3, <4>1, <4>2, ZenonT(60) DEF Between, Answering
    <3>2. CASE seen # Worker
      <4>1. Finished(k)'
        BY <2>5, <3>2, Zenon DEF Finished
      <4>2. \A v \in Worker \ InRequest(k) : phase'[v][k] \in {"idle", "pushed"}
        BY <2>2, <2>3 DEF Answering
      <4>3. seen_sender'[hash_cache'[k]][k] = seen
        BY <1>7, <2>5, <3>2, Zenon
      <4> QED BY <1>7, <2>3, <2>6, <3>2, <4>1, <4>2, <4>3, ZenonT(60) DEF Answering
    <3> QED BY <3>1, <3>2, Zenon
  <2>12. Training(k)'
    BY <1>5, <1>7, <2>10, <2>11, Zenon DEF Training
  <2>13. KeyInv(k)'
    BY <1>7, <2>7, <2>8, <2>9, <2>12, ZenonT(60) DEF KeyInv
  <2>14. ASSUME NEW j \in Key, j # k PROVE SameKey(j)
    BY <1>1, <2>1, <2>2, <2>5, <2>14, ZenonT(60) DEF SameKey
  <2> QED BY <1>8, <2>13, <2>14, Zenon DEF ServerInv
<1> QED BY <1>9, <1>10, Zenon

\* COPY_FIRST and SUM_RECV touch the tensors and the head of one queue only.
LEMMA InvEnginePop ==
  ASSUME TypeOK, ServerInv, NEW t \in Thread, engine_queue[t] # <<>>,
         Head(engine_queue[t]).ops # "ALL_RECV",
         engine_queue' = [engine_queue EXCEPT ![t] = Tail(@)],
         UNCHANGED <<phase, round, has_tensor, request, hash_cache, busy>>, UNCHANGED flags
  PROVE  ServerInv'
<1> SUFFICES ASSUME NEW j \in Key PROVE KeyInv(j)'
  BY Zenon DEF ServerInv
<1>1. KeyInv(j)
  BY ZenonT(60) DEF ServerInv
<1>2. SameKey(j)
  BY Zenon DEF SameKey, flags
<1>3. ~IsAllRecv(t, 1, j)
  BY DEF IsAllRecv, TypeOK
<1>4. \A u \in Thread : /\ AllRecvQueued(u, j)' <=> AllRecvQueued(u, j)
                        /\ QueuedOnce(u, j) => QueuedOnce(u, j)'
  BY <1>3, PopOther, ZenonT(60)
<1>5. (AllRecvPending(j)' <=> AllRecvPending(j)) /\ AllRecvOnce(j)'
  BY <1>1, <1>4, Zenon DEF AllRecvPending, AllRecvOnce, KeyInv
<1> QED BY <1>1, <1>2, <1>4, <1>5, KeyFrame, ZenonT(60) DEF KeyInv, RouteInv

\* The first half of ALL_RECV keeps ServerInv.
LEMMA InvEngineReduce ==
  ASSUME TypeOK, ServerInv, NEW t \in Thread, EngineReduce(t)
  PROVE  ServerInv'
<1>1. /\ engine_queue[t] # <<>> /\ busy[t] = {}
      /\ Head(engine_queue[t]).ops = "ALL_RECV"
      /\ engine_queue' = [engine_queue EXCEPT ![t] = Tail(@)]
      /\ busy' = [busy EXCEPT ![t] = {Head(engine_queue[t]).key}]
      /\ UNCHANGED <<phase, round, has_tensor, request, hash_cache>> /\ UNCHANGED flags
  BY Zenon DEF EngineReduce, CanPop, client, route
<1>2. PICK k \in Key : k = Head(engine_queue[t]).key
  BY <1>1, TypePop, ZenonT(60)
<1>3. busy \in [Thread -> SUBSET Key] /\ busy'[t] = {k} /\ \A u \in Thread : u # t => busy'[u] = busy[u]
  BY <1>1, <1>2, Zenon DEF TypeOK
<1>4. /\ engine_queue[t] \in Seq(Message)
      /\ 1 \in 1..Len(engine_queue[t]) /\ engine_queue[t][1] = Head(engine_queue[t])
  BY <1>1 DEF TypeOK
<1>5. IsAllRecv(t, 1, k) /\ AllRecvQueued(t, k)
  BY <1>1, <1>2, <1>4, Zenon DEF IsAllRecv, AllRecvQueued
<1> SUFFICES ASSUME NEW j \in Key PROVE KeyInv(j)'
  BY Zenon DEF ServerInv
<1>6. KeyInv(j)
  BY Zenon DEF ServerInv
<1>7. SameKey(j)
  BY <1>1, ZenonT(60) DEF SameKey, flags
<1>8. CASE j # k
  <2>1. ~IsAllRecv(t, 1, j)
    BY <1>2, <1>4, <1>8, Zenon DEF IsAllRecv
  <2>2. \A u \in Thread : /\ AllRecvQueued(u, j)' <=> AllRecvQueued(u, j)
                          /\ QueuedOnce(u, j) => QueuedOnce(u, j)'
    BY <1>1, <2>1, PopOther, ZenonT(60)
  <2>3. \A u \in Thread : j \in busy'[u] <=> j \in busy[u]
    BY <1>1, <1>3, <1>8, Zenon
  <2>4. AllRecvPending(j)' <=> AllRecvPending(j)
    BY <2>2, <2>3, Zenon DEF AllRecvPending
  <2>5. AllRecvOnce(j)'
    BY <1>1, <1>3, <1>6, <2>2, <2>3, Zenon DEF AllRecvOnce, KeyInv
  <2> QED BY <1>6, <1>7, <2>2, <2>3, <2>4, <2>5, KeyFrame, ZenonT(60) DEF KeyInv, RouteInv
<1>9. CASE j = k
  <2>1. hash_cache[k] = t
    BY <1>5, <1>6, <1>9, ZenonT(60) DEF KeyInv, RouteInv
  <2>2. ~AllRecvQueued(t, k)' /\ QueuedOnce(t, k)'
    BY <1>1, <1>5, <1>6, <1>9, PopAllRecv, ZenonT(60) DEF KeyInv, AllRecvOnce
  <2>3. \A u \in Thread : u # t => ~AllRecvQueued(u, k)' /\ QueuedOnce(u, k)' /\ k \notin busy'[u]
    BY <1>1, <1>3, <1>6, <1>9, <2>1
       DEF KeyInv, RouteInv, AllRecvOnce, AllRecvQueued, QueuedOnce, IsAllRecv, TypeOK
  <2>4. AllRecvPending(k)' /\ AllRecvPending(k)
    BY <1>3, <1>5, Zenon DEF AllRecvPending
  <2>5. AllRecvOnce(k)'
    BY <1>3, <2>2, <2>3, Zenon DEF AllRecvOnce
  <2> QED BY <1>6, <1>7, <1>9, <2>1, <2>3, <2>4, <2>5, KeyFrame, ZenonT(60)
<1> QED BY <1>8, <1>9, Zenon

\* The second half of ALL_RECV, which answers the parked pulls, keeps ServerInv.
LEMMA InvEngineAllRecv ==
  ASSUME TypeOK, ServerInv, NEW t \in Thread, EngineAllRecv(t)
  PROVE  ServerInv'
<1>1. PICK k \in busy[t] :
        LET S == {w \in Worker : q_pull_reqmeta[t][k][w] > 0 /\ w \notin seen_sender[t][k]}
        IN  /\ SendPullResponse(S, k)
            /\ RecordResponses(t, k, S)
            /\ q_pull_reqmeta' = [q_pull_reqmeta EXCEPT ![t][k] =
                                    [w \in Worker |-> IF w \in S THEN @[w] - 1 ELSE @[w]]]
  BY ZenonT(60) DEF EngineAllRecv
<1>2. /\ phase \in [Worker -> [Key -> Phase]]
      /\ busy \in [Thread -> SUBSET Key]
      /\ q_pull_reqmeta \in [Thread -> [Key -> [Worker -> Nat]]]
      /\ k \in Key
  BY Zenon DEF TypeOK
<1>3. /\ busy' = [busy EXCEPT ![t] = {}]
      /\ UNCHANGED <<round, request, has_tensor, hash_cache, engine_queue>>
  BY Zenon DEF EngineAllRecv, store, route
<1>4. KeyInv(k) /\ hash_cache[k] = t /\ busy[t] = {k} /\ ~AllRecvQueued(t, k)
  BY <1>1, <1>2, Zenon DEF ServerInv, KeyInv, RouteInv, AllRecvOnce
<1>5. has_tensor[k] /\ Training(k)
  BY <1>4 DEF KeyInv, Declaring, NoThread, Thread
<1>6. PICK e \in Round : Rounds(k, e) /\ Pending(k)
  BY <1>1, <1>5, Zenon DEF Training, Answering, Between, AllRecvPending
<1>7. PICK S \in SUBSET Worker : S = {w \in Worker : phase[w][k] = "waiting"}
  BY ZenonT(60)
<1>8. seen_sender[t][k] = {} /\ S = {w \in Worker : q_pull_reqmeta[t][k][w] > 0 /\ w \notin seen_sender[t][k]}
  <2>1. seen_sender[t][k] = {}
    BY <1>4, <1>6, Zenon DEF KeyInv, CountInv, Pending, Finished
  <2>2. \A w \in Worker : q_pull_reqmeta[t][k][w] > 0 <=> phase[w][k] = "waiting"
    BY <1>4 DEF KeyInv, WaitingInv
  <2> QED BY <1>7, <2>1, <2>2, Zenon
<1>9. /\ SendPullResponse(S, k)
      /\ RecordResponses(t, k, S)
      /\ q_pull_reqmeta' = [q_pull_reqmeta EXCEPT ![t][k] =
                              [w \in Worker |-> IF w \in S THEN @[w] - 1 ELSE @[w]]]
  BY <1>1, <1>8, ZenonT(60)
<1>10. /\ \A w \in S : phase'[w][k] = "idle"
       /\ \A w \in Worker \ S : phase'[w][k] = "pushed"
       /\ \A w \in Worker, j \in Key : j # k => phase'[w][j] = phase[w][j]
  BY <1>2, <1>6, <1>7, <1>9, ZenonT(60) DEF SendPullResponse, Pending
<1>11. /\ pull_cnt'[t][k] = Cardinality(seen_sender'[t][k])
       /\ S = Worker => ~is_push_finished'[t][k] /\ seen_sender'[t][k] = {}
       /\ S # Worker => is_push_finished'[t][k] /\ seen_sender'[t][k] = S
       /\ \A u \in Thread, j \in Key : u # t \/ j # k =>
            /\ is_push_finished'[u][j] = is_push_finished[u][j]
            /\ seen_sender'[u][j] = seen_sender[u][j]
            /\ pull_cnt'[u][j] = pull_cnt[u][j]
  <2>1. pull_cnt[t][k] = Cardinality(seen_sender[t][k]) /\ S \cap seen_sender[t][k] = {}
    BY <1>4, <1>8, ZenonT(60) DEF KeyInv, CountInv
  <2>2. seen_sender[t][k] \cup S = S
    BY <1>8, Zenon
  <2> DEFINE seen == seen_sender[t][k] \cup S
  <2>3. /\ pull_cnt'[t][k] = Cardinality(seen_sender'[t][k])
        /\ seen = Worker => ~is_push_finished'[t][k] /\ seen_sender'[t][k] = {}
        /\ seen # Worker => is_push_finished'[t][k] /\ seen_sender'[t][k] = seen
        /\ \A u \in Thread, j \in Key : u # t \/ j # k =>
             /\ is_push_finished'[u][j] = is_push_finished[u][j]
             /\ seen_sender'[u][j] = seen_sender[u][j]
             /\ pull_cnt'[u][j] = pull_cnt[u][j]
    BY <1>2, <1>9, <2>1, Recorded, ZenonT(60)
  <2> QED BY <2>2, <2>3, ZenonT(60)
<1>12. /\ \A u \in Thread, w \in Worker : q_pull_reqmeta'[u][k][w] = 0
       /\ \A u \in Thread, j \in Key : j # k => q_pull_reqmeta'[u][j] = q_pull_reqmeta[u][j]
  <2>1. \A w \in Worker : q_pull_reqmeta[t][k][w] = IF w \in S THEN 1 ELSE 0
    BY <1>4, <1>7, Zenon DEF KeyInv, WaitingInv
  <2>2. \A w \in Worker : q_pull_reqmeta'[t][k][w] = 0
    BY <1>2, <1>9, <2>1, SMTT(30), ZenonT(60)
  <2>3. \A u \in Thread, w \in Worker : u # t => q_pull_reqmeta'[u][k][w] = 0
    BY <1>2, <1>4, <1>9 DEF KeyInv, RouteInv
  <2>4. \A u \in Thread, j \in Key : j # k => q_pull_reqmeta'[u][j] = q_pull_reqmeta[u][j]
    BY <1>2, <1>9, Zenon
  <2> QED BY <2>2, <2>3, <2>4, Zenon
<1>13. /\ \A u \in Thread, j \in Key : /\ AllRecvQueued(u, j)' <=> AllRecvQueued(u, j)
                                       /\ QueuedOnce(u, j)' <=> QueuedOnce(u, j)
       /\ busy'[t] = {} /\ \A u \in Thread : u # t => busy'[u] = busy[u]
  BY <1>2, <1>3, ZenonT(60) DEF AllRecvQueued, QueuedOnce, IsAllRecv
<1>14. ASSUME NEW j \in Key, j # k
       PROVE  KeyInv(j)'
  <2>1. KeyInv(j)
    BY Zenon DEF ServerInv
  <2>2. SameKey(j)
    BY <1>3, <1>10, <1>11, <1>12, <1>14 DEF SameKey
  <2>3. \A u \in Thread : j \in busy'[u] <=> j \in busy[u]
    BY <1>4, <1>13, <1>14, Zenon
  <2>4. AllRecvPending(j)' <=> AllRecvPending(j)
    BY <1>13, <2>3, ZenonT(60) DEF AllRecvPending
  <2>5. AllRecvOnce(j)'
    BY <1>13, <2>1, Zenon DEF AllRecvOnce, KeyInv
  <2> QED BY <1>13, <2>1, <2>2, <2>3, <2>4, <2>5, KeyFrame, ZenonT(60) DEF KeyInv, RouteInv
<1>15. InRequest(k)' = {} /\ InRequest(k) = {} /\ RequestInv(k)'
  <2>1. InRequest(k)' = InRequest(k)
    BY <1>3, ZenonT(60) DEF InRequest
  <2>2. RequestInv(k)'
    BY <1>3, <1>4, Zenon DEF KeyInv, RequestInv
  <2> QED BY <1>6, <2>1, <2>2, Zenon DEF Pending
<1>16. RouteInv(k)' /\ ~AllRecvPending(k)'
  <2>1. \A u \in Thread : u # t =>
          /\ ~is_push_finished[u][k] /\ seen_sender[u][k] = {}
          /\ k \notin busy[u] /\ ~AllRecvQueued(u, k)
    BY <1>4, Zenon DEF KeyInv, RouteInv
  <2>2. \A u \in Thread : k \notin busy'[u] /\ ~AllRecvQueued(u, k)'
    BY <1>2, <1>4, <1>13, <2>1, ZenonT(60)
  <2>3. \A u \in Thread : u # t => ~is_push_finished'[u][k] /\ seen_sender'[u][k] = {}
    BY <1>2, <1>11, <2>1, ZenonT(60)
  <2>4. hash_cache'[k] = t
    BY <1>3, <1>4, Zenon
  <2>5. RouteInv(k)'
    BY <1>12, <2>2, <2>3, <2>4, Zenon DEF RouteInv
  <2> QED BY <2>2, <2>5, ZenonT(60) DEF AllRecvPending
<1>17. AllRecvOnce(k)'
  BY <1>2, <1>4, <1>13, ZenonT(60) DEF KeyInv, AllRecvOnce
<1>18. CountInv(k)'
  BY <1>2, <1>4, <1>11, ZenonT(60) DEF KeyInv, CountInv
<1>19. WaitingInv(k)'
  BY <1>10, <1>12, Zenon DEF WaitingInv
<1>20. Rounds(k, e)'
  BY <1>3, <1>6, <1>15, Zenon DEF Rounds
<1>21. Between(k)' \/ Answering(k)'
  <2>1. CASE S = Worker
    <3>1. ~Finished(k)'
      BY <1>3, <1>4, <1>11, <1>16, <2>1, Zenon DEF RouteInv, Finished
    <3> QED BY <1>10, <1>16, <2>1, <3>1, Zenon DEF Between
  <2>2. CASE S # Worker
    <3>1. Finished(k)' /\ seen_sender'[hash_cache'[k]][k] = S
      BY <1>3, <1>4, <1>11, <2>2, Zenon DEF Finished
    <3>2. S = {w \in Worker : phase'[w][k] = "idle"}
      BY <1>10, ZenonT(60)
    <3> QED BY <1>10, <1>15, <1>16, <2>2, <3>1, <3>2, ZenonT(60) DEF Answering
  <2> QED BY <2>1, <2>2, Zenon
<1>22. KeyInv(k)'
  BY <1>3, <1>5, <1>15, <1>16, <1>17, <1>18, <1>19, <1>20, <1>21, Zenon DEF KeyInv, Training
<1> QED BY <1>14, <1>22, ZenonT(60) DEF ServerInv

-----------------------------------------------------------------------------
(* The invariant, and what it says of the code *)

\* Every step keeps the types and the inductive invariant.
LEMMA InvNext ==
  ASSUME TypeOK, ServerInv, [Next]_vars
  PROVE  TypeOK' /\ ServerInv'
<1>1. ASSUME NEW w \in Worker, NEW k \in Key, HandleInitPush(w, k)
      PROVE  TypeOK' /\ ServerInv'
  BY <1>1, TypeHandleInitPush, InvHandleInitPush, Zenon
<1>2. ASSUME NEW w \in Worker, NEW k \in Key, HandlePush(w, k)
      PROVE  TypeOK' /\ ServerInv'
  <2>1. RequestInv(k)
    BY Zenon DEF ServerInv, KeyInv
  <2> QED BY <1>2, <2>1, TypeHandlePush, InvHandlePush, Zenon
<1>3. ASSUME NEW w \in Worker, NEW k \in Key, HandlePull(w, k)
      PROVE  TypeOK' /\ ServerInv'
  BY <1>3, TypeHandlePull, InvHandlePull, Zenon
<1>4. ASSUME NEW t \in Thread, EngineCopyFirst(t)
      PROVE  TypeOK' /\ ServerInv'
  <2>1. ServerInv'
    BY <1>4, InvEnginePop, ZenonT(60) DEF EngineCopyFirst, CanPop, client, route
  <2> QED BY <1>4, <2>1, TypeEngineCopyFirst, Zenon
<1>5. ASSUME NEW t \in Thread, EngineSumRecv(t)
      PROVE  TypeOK' /\ ServerInv'
  <2>1. ServerInv'
    BY <1>5, InvEnginePop, ZenonT(60) DEF EngineSumRecv, CanPop, client, route
  <2> QED BY <1>5, <2>1, TypeEngineSumRecv, Zenon
<1>6. ASSUME NEW t \in Thread, EngineReduce(t)
      PROVE  TypeOK' /\ ServerInv'
  BY <1>6, TypeEngineReduce, InvEngineReduce, Zenon
<1>7. ASSUME NEW t \in Thread, EngineAllRecv(t)
      PROVE  TypeOK' /\ ServerInv'
  BY <1>7, TypeEngineAllRecv, InvEngineAllRecv, Zenon
<1>8. ASSUME UNCHANGED <<phase, round, has_tensor, request, hash_cache>>, UNCHANGED engine, UNCHANGED flags
      PROVE  ServerInv'
  <2>1. ASSUME NEW j \in Key PROVE KeyInv(j)'
    <3>1. KeyInv(j) /\ SameKey(j)
      BY <1>8, Zenon DEF ServerInv, SameKey, flags
    <3> QED BY <1>8, <3>1, KeyFrame, SameEngine, Zenon DEF KeyInv, RouteInv
  <2> QED BY <2>1, Zenon DEF ServerInv
<1>9. CASE UNCHANGED vars
  <2>1. TypeOK'
    BY <1>9, Zenon DEF TypeOK, vars, client, store, route, engine, flags
  <2> QED BY <1>8, <1>9, <2>1, Zenon DEF vars, client, store, route
<1>10. ASSUME NEW w \in Worker, NEW k \in Key, ReadElements(w, k) \/ ReadLast(w, k)
       PROVE  TypeOK' /\ ServerInv'
  <2>1. TypeOK'
    BY <1>10, TypeRead, Zenon
  <2> QED BY <1>8, <1>10, <2>1, Zenon DEF ReadElements, ReadLast, store, route
<1> QED BY <1>1, <1>2, <1>3, <1>4, <1>5, <1>6, <1>7, <1>9, <1>10, Zenon
        DEF Next, Handler, EngineThread, Transport, Terminated

\* A step begins to send a response only to a worker that it leaves idle, and an idle
\* worker that is being sent one does not push.
LEMMA SendingNext ==
  ASSUME TypeOK, SendingInv, [Next]_vars
  PROVE  SendingInv'
<1>0. /\ phase \in [Worker -> [Key -> Phase]]
      /\ sending \in [Worker -> [Key -> BOOLEAN]]
      /\ busy \in [Thread -> SUBSET Key]
  BY Zenon DEF TypeOK
<1> SUFFICES ASSUME NEW w \in Worker, NEW k \in Key, sending'[w][k]
             PROVE  phase'[w][k] = "idle"
  BY Zenon DEF SendingInv
<1>1. sending[w][k] => phase[w][k] = "idle"
  BY Zenon DEF SendingInv
<1>2. ASSUME NEW v \in Worker, NEW j \in Key, HandleInitPush(v, j)
      PROVE  phase'[w][k] = "idle"
  <2>1. sending[w][k] /\ phase[v][j] = "start"
    BY <1>2, Zenon DEF HandleInitPush
  <2>2. CASE Len(Append(request[j], v)) < NumWorkers
    <3>1. phase' = [phase EXCEPT ![v][j] = "init"]
      BY <1>2, <2>2, Zenon DEF HandleInitPush
    <3> QED BY <1>0, <1>1, <2>1, <3>1, Zenon
  <2>3. CASE ~(Len(Append(request[j], v)) < NumWorkers)
    <3> DEFINE B(u) == \E i \in 1..Len(Append(request[j], v)) : Append(request[j], v)[i] = u
    <3>1. phase' = [u \in Worker |-> [phase[u] EXCEPT ![j] = IF B(u) THEN "idle" ELSE @]]
      BY <1>2, <2>3, Zenon DEF HandleInitPush
    <3> HIDE DEF B
    <3> QED BY <1>0, <1>1, <2>1, <3>1, Zenon
  <2> QED BY <2>2, <2>3, Zenon
<1>3. ASSUME NEW v \in Worker, NEW j \in Key, HandlePush(v, j)
      PROVE  phase'[w][k] = "idle"
  <2>1. sending[w][k] /\ ~sending[v][j] /\ phase' = [phase EXCEPT ![v][j] = "pushed"]
    BY <1>3, Zenon DEF HandlePush
  <2> QED BY <1>0, <1>1, <2>1, Zenon
<1>4. ASSUME NEW S, NEW j \in Key, SendPullResponse(S, j)
      PROVE  phase'[w][k] = "idle"
  <2>1. /\ phase' = [u \in Worker |-> [phase[u] EXCEPT ![j] = IF u \in S THEN "idle" ELSE @]]
        /\ sending' = [u \in Worker |-> [sending[u] EXCEPT ![j] = IF u \in S THEN TRUE ELSE @]]
    BY <1>4, Zenon DEF SendPullResponse
  <2>2. CASE k = j /\ w \in S
    BY <1>0, <2>1, <2>2, Zenon
  <2>3. CASE ~(k = j /\ w \in S)
    BY <1>0, <1>1, <2>1, <2>3, Zenon
  <2> QED BY <2>2, <2>3, Zenon
<1>5. ASSUME NEW v \in Worker, NEW j \in Key, HandlePull(v, j)
      PROVE  phase'[w][k] = "idle"
  <2>1. CASE MayAnswer(v, GetThreadID(j), j)
    <3>1. SendPullResponse({v}, j)
      BY <1>5, <2>1, Zenon DEF HandlePull
    <3> QED BY <1>4, <3>1, Zenon
  <2>2. CASE ~MayAnswer(v, GetThreadID(j), j)
    <3>1. sending[w][k] /\ phase[v][j] = "pushed" /\ phase' = [phase EXCEPT ![v][j] = "waiting"]
      BY <1>5, <2>2, Zenon DEF HandlePull
    <3> QED BY <1>0, <1>1, <3>1, Zenon
  <2> QED BY <2>1, <2>2, Zenon
<1>6. ASSUME NEW t \in Thread, EngineAllRecv(t)
      PROVE  phase'[w][k] = "idle"
  <2>1. PICK j \in busy[t] : \E S : SendPullResponse(S, j)
    BY <1>6, Zenon DEF EngineAllRecv
  <2> QED BY <1>0, <1>4, <2>1, Zenon
<1>7. ASSUME NEW t \in Thread, EngineCopyFirst(t) \/ EngineSumRecv(t) \/ EngineReduce(t)
      PROVE  UNCHANGED client
  BY <1>7, Zenon DEF EngineCopyFirst, EngineSumRecv, EngineReduce
<1>8. CASE UNCHANGED client
  BY <1>1, <1>8, Zenon DEF client
<1>9. ASSUME NEW v \in Worker, NEW j \in Key, ReadElements(v, j) \/ ReadLast(v, j)
      PROVE  phase'[w][k] = "idle"
  <2>1. phase' = phase /\ (sending' = sending \/ sending' = [sending EXCEPT ![v][j] = FALSE])
    BY <1>9, Zenon DEF ReadElements, ReadLast
  <2>2. sending[w][k]
    BY <1>0, <2>1, Zenon
  <2> QED BY <1>1, <2>1, <2>2, Zenon
<1> QED BY <1>2, <1>3, <1>5, <1>6, <1>7, <1>8, <1>9, Zenon
        DEF Next, Handler, EngineThread, Transport, Terminated, vars

\* The types of handler, engine and flags (server.cc) hold in every state.
THEOREM TypeCorrect == Spec => []TypeOK
<1>1. Init => TypeOK /\ ServerInv
  BY TypeInit, InvInit, Zenon
<1>2. TypeOK /\ ServerInv /\ [Next]_vars => TypeOK' /\ ServerInv'
  BY InvNext, Zenon
<1> QED BY <1>1, <1>2, PTL DEF Spec

\* In every state each key is collecting init pushes, or its ALL_RECV is pending,
\* or its responses are being given out, or it is between rounds, and the flags,
\* the queues and the workers' rounds agree with that (server.cc:169-196, 298-467).
THEOREM ServerInvariant == Spec => []ServerInv
<1>1. Init => TypeOK /\ ServerInv
  BY TypeInit, InvInit, Zenon
<1>2. TypeOK /\ ServerInv /\ [Next]_vars => TypeOK' /\ ServerInv'
  BY InvNext, Zenon
<1> QED BY <1>1, <1>2, PTL DEF Spec

\* Only an idle worker is being sent a response (server.cc:57-84), in every state.
LEMMA SendingInvariant == Spec => []SendingInv
<1>1. Init => SendingInv
  BY DEF Init, SendingInv
<1>2. TypeOK /\ SendingInv /\ [Next]_vars => SendingInv'
  BY SendingNext, Zenon
<1> QED BY <1>1, <1>2, TypeCorrect, PTL DEF Spec

\* In a state of ServerInv nobody was answered before everybody pushed.
LEMMA BarrierFromInv == TypeOK /\ ServerInv => RoundBarrier
<1> SUFFICES ASSUME TypeOK, ServerInv, NEW w \in Worker, NEW v \in Worker, NEW k \in Key,
                    phase[w][k] = "idle"
             PROVE  round[v][k] >= round[w][k]
  BY Zenon DEF RoundBarrier
<1>1. KeyInv(k)
  BY Zenon DEF ServerInv
<1>2. has_tensor[k]
  BY <1>1, Zenon DEF KeyInv, Declaring
<1>3. PICK e \in Round : Rounds(k, e)
  BY <1>1, <1>2, Zenon DEF KeyInv, Training
<1>4. e \in Nat /\ w \notin InRequest(k)
  BY <1>3, ServerAssumption DEF Rounds, Round
<1> QED BY <1>3, <1>4 DEF Rounds

\* push_pull is a barrier for every number of workers, keys, threads and rounds: a
\* worker that was answered (server.cc:184, 454) finds that every worker has pushed.
THEOREM BarrierHolds == Spec => []RoundBarrier
BY TypeCorrect, ServerInvariant, BarrierFromInv, PTL

\* In a state of ServerInv the pull flags agree with the progress of the workers.
LEMMA BookkeepingFromInv == TypeOK /\ ServerInv => PullBookkeeping
<1> SUFFICES ASSUME TypeOK, ServerInv, NEW t \in Thread, NEW k \in Key
             PROVE  /\ pull_cnt[t][k] = Cardinality(seen_sender[t][k])
                    /\ ~is_push_finished[t][k] => seen_sender[t][k] = {}
                    /\ is_push_finished[t][k] =>
                         \A v \in Worker \ seen_sender[t][k] :
                           /\ phase[v][k] = "pushed"
                           /\ \A w \in seen_sender[t][k] :
                                round[w][k] = round[v][k] + (IF phase[w][k] = "idle" THEN 0 ELSE 1)
  BY Zenon DEF PullBookkeeping
<1>1. KeyInv(k)
  BY Zenon DEF ServerInv
<1>2. pull_cnt[t][k] = Cardinality(seen_sender[t][k]) /\ (~is_push_finished[t][k] => seen_sender[t][k] = {})
  BY <1>1, Zenon DEF KeyInv, CountInv
<1>3. ASSUME is_push_finished[t][k], NEW v \in Worker \ seen_sender[t][k]
      PROVE  /\ phase[v][k] = "pushed"
             /\ \A w \in seen_sender[t][k] :
                  round[w][k] = round[v][k] + (IF phase[w][k] = "idle" THEN 0 ELSE 1)
  <2>1. hash_cache[k] = t
    BY <1>1, <1>3, Zenon DEF KeyInv, RouteInv
  <2>2. PICK e \in Round : Rounds(k, e) /\ Answering(k)
    BY <1>1, <1>3, <2>1 DEF KeyInv, Declaring, Training, Pending, Between, Finished, Thread, NoThread
  <2>3. e \in Nat
    BY ServerAssumption DEF Round
  <2>4. seen_sender[t][k] = InRequest(k) \cup {w \in Worker : phase[w][k] = "idle"}
    BY <2>1, <2>2, Zenon DEF Answering
  <2>5. phase[v][k] = "pushed" /\ round[v][k] = e
    BY <1>3, <2>2, <2>4, Zenon DEF Answering, Rounds
  <2>6. ASSUME NEW w \in seen_sender[t][k]
        PROVE  round[w][k] = round[v][k] + (IF phase[w][k] = "idle" THEN 0 ELSE 1)
    <3>1. w \in Worker
      BY <2>6 DEF TypeOK
    <3> QED BY <2>2, <2>3, <2>4, <2>5, <2>6, <3>1 DEF Rounds
  <2> QED BY <2>5, <2>6, Zenon
<1> QED BY <1>2, <1>3, Zenon

\* The pull flags agree with the workers' progress in every state (server.cc:178-196, 451-462).
THEOREM BookkeepingHolds == Spec => []PullBookkeeping
BY TypeCorrect, ServerInvariant, BookkeepingFromInv, PTL
=============================================================================
