---------------------------- MODULE BytePSServer ----------------------------
(***************************************************************************)
(* The BytePS server (src/byteps/server/server.cc) in its default mode:    *)
(* synchronous training, non-blocking engine, FIFO engine queues, no       *)
(* compressor.  ps-lite delivers the requests of the workers to            *)
(* BytePSHandler, which runs under handle_mu_ and hands the arithmetic to  *)
(* the engine threads through one queue per thread.  A worker has at most  *)
(* one outstanding request per key: it pushes a gradient, is answered,     *)
(* pulls the reduced gradient, is answered, and starts the next round.     *)
(*                                                                         *)
(* A gradient is a unit vector named by its worker and its round, so that  *)
(* a buffer is a vector of multiplicities and a sum is a pointwise sum.    *)
(* A request under way is a worker that has not taken its next step: the   *)
(* transport neither loses nor duplicates messages.  A pull response is    *)
(* sent without a copy: it is a pointer to the store, whose elements the   *)
(* transport reads one after the other when it comes to them, while the    *)
(* engine may be writing the same memory for the next round.  An element   *)
(* is an aligned word and is read before or after a write, never between.  *)
(***************************************************************************)
EXTENDS Integers, Sequences, FiniteSets

CONSTANTS
  Worker,      \* the workers, ps::NumWorkers() of them
  Key,         \* the keys (tensor partitions) this server owns
  KeyLen,      \* the length in bytes of each key's tensor
  NumThreads,  \* engine_thread_num_
  MaxRound,    \* bound: the number of rounds each worker runs
  ReduceMode,  \* "sum" (is_sum_) or "replica" (is_sum_serial_, is_median_, is_hybrid_)
  NoGrad       \* the content of replica memory that was never written

NumWorkers == Cardinality(Worker)
Thread     == 0..(NumThreads - 1)
NoThread   == -1
Round      == 0..MaxRound
Grad       == Worker \X Round
Slot       == 0..(NumWorkers - 1)

ASSUME ServerAssumption ==
  /\ IsFiniteSet(Worker) /\ Worker # {}
  /\ KeyLen \in [Key -> Nat \ {0}]
  /\ NumThreads \in Nat \ {0}
  /\ MaxRound \in Nat
  /\ ReduceMode \in {"sum", "replica"}
  /\ NoGrad \notin Grad

VARIABLES
  phase,             \* phase[w][k]: what worker w is doing with key k
  round,             \* round[w][k]: the round of w's last real push of k
  sending,           \* sending[w][k]: the transport has not read all of the response to w
  got,               \* got[w][k]: the contents of the store that elements of it were read from
  has_tensor,        \* stored->tensor is allocated
  stored,            \* the contents of stored->tensor
  replica,           \* the contents of stored_replica->tensor, by slot of stored->len bytes
  request,           \* updates->request, the senders buffered
  merged_tensor,     \* updates->merged.tensor points to stored->tensor
  hash_cache,        \* engine thread of a key, NoThread before its first real push
  acc_load,          \* accumulated tensor size of an engine thread
  engine_queue,      \* engine_queues_[t]
  busy,              \* the ALL_RECV message thread t is in the middle of, or none
  is_push_finished,  \* is_push_finished_[t][k]
  q_pull_reqmeta,    \* q_pull_reqmeta_[t][k], as the number of entries of each sender
  seen_sender,       \* seen_sender_[t][k]
  pull_cnt           \* pull_cnt_[t][k]

client == <<phase, round, sending, got>>
store  == <<has_tensor, stored, replica, request, merged_tensor>>
route  == <<hash_cache, acc_load>>
engine == <<engine_queue, busy>>
flags  == <<is_push_finished, q_pull_reqmeta, seen_sender, pull_cnt>>
vars   == <<client, store, route, engine, flags>>

-----------------------------------------------------------------------------
(* Tensors *)

Tensor == [Grad -> Nat]

\* The memory after PageAlignedMalloc.
Zero == [g \in Grad |-> 0]

\* The received tensor of one push.
Unit(h) == [g \in Grad |-> IF g = h THEN 1 ELSE 0]

\* bps_reducer_->copy(dst, src).
Copy(dst, src) == src

\* bps_reducer_->sum(dst, src).
Sum(dst, src) == [g \in Grad |-> dst[g] + src[g]]

\* The reduction over the replica slots: sum_serial adds one slot per worker.
\* median and hybrid are other functions of the same multiset of slots.
ReduceSlots(slots) == [g \in Grad |-> Cardinality({s \in Slot : slots[s] = g})]

\* What a round is for: every worker's gradient of the round, once.
RoundSum(r) == [g \in Grad |-> IF g[2] = r THEN 1 ELSE 0]

(* Engine messages *)

Message ==
  [ops : {"COPY_FIRST", "SUM_RECV"}, key : Key, dst : {"stored"}, slot : {0}, src : Grad]
    \cup [ops : {"COPY_FIRST"}, key : Key, dst : {"replica"}, slot : Slot, src : Grad]
    \cup [ops : {"ALL_RECV"}, key : Key, dst : {"stored"}, slot : {0}, src : {NoGrad}]

StoredMsg(op, k, g) == [ops |-> op, key |-> k, dst |-> "stored", slot |-> 0, src |-> g]
ReplicaMsg(k, s, g) == [ops |-> "COPY_FIRST", key |-> k, dst |-> "replica", slot |-> s, src |-> g]
AllRecvMsg(k)       == StoredMsg("ALL_RECV", k, NoGrad)

-----------------------------------------------------------------------------
(* GetThreadID: the first real push of a key sends it to the least loaded
   engine thread, the one with the smallest index among equals; later
   pushes and every pull find it in the cache. *)

LeastLoaded ==
  CHOOSE t \in Thread :
    \A u \in Thread : acc_load[t] < acc_load[u] \/ (acc_load[t] = acc_load[u] /\ t <= u)

GetThreadID(k) == IF hash_cache[k] # NoThread THEN hash_cache[k] ELSE LeastLoaded

\* Mutant: the chosen thread is not cached.
CacheThreadIDForgets(k) ==
  /\ acc_load' = [acc_load EXCEPT ![LeastLoaded] = @ + KeyLen[k]]
  /\ UNCHANGED hash_cache

CacheThreadID(k) ==
  IF hash_cache[k] # NoThread
    THEN UNCHANGED route
    ELSE /\ acc_load'   = [acc_load EXCEPT ![LeastLoaded] = @ + KeyLen[k]]
         /\ hash_cache' = [hash_cache EXCEPT ![k] = LeastLoaded]

-----------------------------------------------------------------------------
Init ==
  /\ phase            = [w \in Worker |-> [k \in Key |-> "start"]]
  /\ round            = [w \in Worker |-> [k \in Key |-> 0]]
  /\ sending          = [w \in Worker |-> [k \in Key |-> FALSE]]
  /\ got              = [w \in Worker |-> [k \in Key |-> {}]]
  /\ has_tensor       = [k \in Key |-> FALSE]
  /\ stored           = [k \in Key |-> Zero]
  /\ replica          = [k \in Key |-> [s \in Slot |-> NoGrad]]
  /\ request          = [k \in Key |-> <<>>]
  /\ merged_tensor    = [k \in Key |-> FALSE]
  /\ hash_cache       = [k \in Key |-> NoThread]
  /\ acc_load         = [t \in Thread |-> 0]
  /\ engine_queue     = [t \in Thread |-> <<>>]
  /\ busy             = [t \in Thread |-> {}]
  /\ is_push_finished = [t \in Thread |-> [k \in Key |-> FALSE]]
  /\ q_pull_reqmeta   = [t \in Thread |-> [k \in Key |-> [w \in Worker |-> 0]]]
  /\ seen_sender      = [t \in Thread |-> [k \in Key |-> {}]]
  /\ pull_cnt         = [t \in Thread |-> [k \in Key |-> 0]]

\* SendPullResponse to the workers in S: the transport is given the memory that
\* merged.tensor points to, and has read nothing of it.
SendPullResponse(S, k) ==
  /\ phase'   = [w \in Worker |-> [phase[w] EXCEPT ![k] = IF w \in S THEN "idle" ELSE @]]
  /\ sending' = [w \in Worker |-> [sending[w] EXCEPT ![k] = IF w \in S THEN TRUE ELSE @]]
  /\ got'     = [w \in Worker |-> [got[w] EXCEPT ![k] = IF w \in S THEN {} ELSE @]]

\* Mutant: the senders seen are kept when the round is over.
RecordResponsesKeepsSeen(t, k, S) ==
  LET cnt == pull_cnt[t][k] + Cardinality(S)
  IN  /\ is_push_finished' = [is_push_finished EXCEPT ![t][k] = cnt # NumWorkers]
      /\ pull_cnt'         = [pull_cnt EXCEPT ![t][k] = cnt % NumWorkers]
      /\ seen_sender'      = [seen_sender EXCEPT ![t][k] = @ \cup S]

\* Mutant: the round is never closed.
RecordResponsesStayFinished(t, k, S) ==
  LET cnt == pull_cnt[t][k] + Cardinality(S)
  IN  /\ is_push_finished' = [is_push_finished EXCEPT ![t][k] = TRUE]
      /\ pull_cnt'         = [pull_cnt EXCEPT ![t][k] = cnt % NumWorkers]
      /\ seen_sender'      = [seen_sender EXCEPT ![t][k] = IF cnt = NumWorkers THEN {} ELSE @ \cup S]

\* The bookkeeping of pull responses to the workers in S under flag_mu_[t]:
\* after the last worker of the round the flags are reset.
RecordResponses(t, k, S) ==
  LET cnt == pull_cnt[t][k] + Cardinality(S)
  IN  IF cnt = NumWorkers
        THEN /\ is_push_finished' = [is_push_finished EXCEPT ![t][k] = FALSE]
             /\ pull_cnt'         = [pull_cnt EXCEPT ![t][k] = 0]
             /\ seen_sender'      = [seen_sender EXCEPT ![t][k] = {}]
        ELSE /\ is_push_finished' = [is_push_finished EXCEPT ![t][k] = TRUE]
             /\ pull_cnt'         = [pull_cnt EXCEPT ![t][k] = cnt]
             /\ seen_sender'      = [seen_sender EXCEPT ![t][k] = @ \cup S]

-----------------------------------------------------------------------------
(* BytePSHandler, under handle_mu_ *)

\* The blocking push of InitTensor.  The request is buffered; the last one
\* allocates the store and the replica, copies its own data into both, and
\* answers every buffered request.
HandleInitPush(w, k) ==
  /\ phase[w][k] = "start"
  /\ ~has_tensor[k]
  /\ LET buffered == Append(request[k], w)
     IN  IF Len(buffered) < NumWorkers
           THEN /\ request' = [request EXCEPT ![k] = buffered]
                /\ phase'   = [phase EXCEPT ![w][k] = "init"]
                /\ UNCHANGED <<has_tensor, stored, replica>>
           ELSE /\ has_tensor' = [has_tensor EXCEPT ![k] = TRUE]
                /\ stored'  = [stored EXCEPT ![k] = Unit(<<w, 0>>)]
                /\ replica' = [replica EXCEPT ![k] =
                                 [s \in Slot |-> IF s = 0 THEN <<w, 0>> ELSE NoGrad]]
                /\ request' = [request EXCEPT ![k] = <<>>]
                /\ phase'   = [v \in Worker |->
                                 [phase[v] EXCEPT ![k] =
                                    IF \E i \in 1..Len(buffered) : buffered[i] = v
                                      THEN "idle" ELSE @]]
  /\ UNCHANGED <<round, sending, got, merged_tensor, route, engine, flags>>

\* The push being handled is the last of its round.
LastPush(k) == Len(request[k]) + 1 = NumWorkers

\* Mutant: every push is copied to replica slot 0.
PushMessagesNoShift(w, k) ==
  LET g    == <<w, round[w][k] + 1>>
      op   == IF request[k] = <<>> THEN "COPY_FIRST" ELSE "SUM_RECV"
      msgs == <<StoredMsg(op, k, g), ReplicaMsg(k, 0, g)>>
  IN  IF LastPush(k) THEN Append(msgs, AllRecvMsg(k)) ELSE msgs

\* Mutant: the contributors are counted with the push being handled.
PushMessagesShiftOne(w, k) ==
  LET g    == <<w, round[w][k] + 1>>
      n    == Len(request[k])
      op   == IF n = 0 THEN "COPY_FIRST" ELSE "SUM_RECV"
      msgs == <<StoredMsg(op, k, g), ReplicaMsg(k, n + 1, g)>>
  IN  IF LastPush(k) THEN Append(msgs, AllRecvMsg(k)) ELSE msgs

\* Mutant: ALL_RECV is queued before the copy to the replica.
PushMessagesEarlyAllRecv(w, k) ==
  LET g    == <<w, round[w][k] + 1>>
      n    == Len(request[k])
      op   == IF n = 0 THEN "COPY_FIRST" ELSE "SUM_RECV"
  IN  IF LastPush(k) THEN <<StoredMsg(op, k, g), AllRecvMsg(k), ReplicaMsg(k, n, g)>>
                     ELSE <<StoredMsg(op, k, g), ReplicaMsg(k, n, g)>>

\* The first push of a round is copied to the store and to replica slot 0, the
\* others are added to the store and copied to the next slot; the last one also
\* queues ALL_RECV.
PushMessages(w, k) ==
  LET g    == <<w, round[w][k] + 1>>
      n    == Len(request[k])
      op   == IF n = 0 THEN "COPY_FIRST" ELSE "SUM_RECV"
      msgs == <<StoredMsg(op, k, g), ReplicaMsg(k, n, g)>>
  IN  IF LastPush(k) THEN Append(msgs, AllRecvMsg(k)) ELSE msgs

\* A push of the next round, by a worker that has its last answer.  The last one
\* clears the request buffer.
HandlePush(w, k) ==
  /\ phase[w][k] = "idle" /\ ~sending[w][k]
  /\ round[w][k] < MaxRound
  /\ has_tensor[k]
  /\ engine_queue' = [engine_queue EXCEPT ![GetThreadID(k)] = @ \o PushMessages(w, k)]
  /\ request'      = [request EXCEPT ![k] = IF LastPush(k) THEN <<>> ELSE Append(@, w)]
  /\ CacheThreadID(k)
  /\ round' = [round EXCEPT ![w][k] = @ + 1]
  /\ phase' = [phase EXCEPT ![w][k] = "pushed"]
  /\ UNCHANGED <<sending, got, has_tensor, stored, replica, merged_tensor, busy, flags>>

\* Mutant: a pull does not wait for the round to finish.
MayAnswerEarly(w, t, k) == w \notin seen_sender[t][k]

MayAnswer(w, t, k) == is_push_finished[t][k] /\ w \notin seen_sender[t][k]

\* A pull.  It is answered at once if the round is finished and the sender
\* has not been answered in it, and queued for the engine otherwise.
HandlePull(w, k) ==
  /\ phase[w][k] = "pushed"
  /\ LET t == GetThreadID(k)
     IN  IF MayAnswer(w, t, k)
           THEN /\ SendPullResponse({w}, k)
                /\ RecordResponses(t, k, {w})
                /\ UNCHANGED q_pull_reqmeta
           ELSE /\ q_pull_reqmeta' = [q_pull_reqmeta EXCEPT ![t][k][w] = @ + 1]
                /\ phase' = [phase EXCEPT ![w][k] = "waiting"]
                /\ UNCHANGED <<sending, got, is_push_finished, seen_sender, pull_cnt>>
  /\ UNCHANGED <<round, store, route, engine>>

-----------------------------------------------------------------------------
(* BytePSServerEngineThread(t) *)

CanPop(t, op) ==
  /\ busy[t] = {}
  /\ engine_queue[t] # <<>>
  /\ Head(engine_queue[t]).ops = op

EngineCopyFirst(t) ==
  /\ CanPop(t, "COPY_FIRST")
  /\ LET msg == Head(engine_queue[t])
     IN  IF msg.dst = "stored"
           THEN /\ stored' = [stored EXCEPT ![msg.key] = Copy(@, Unit(msg.src))]
                /\ UNCHANGED replica
           ELSE /\ replica' = [replica EXCEPT ![msg.key][msg.slot] = msg.src]
                /\ UNCHANGED stored
  /\ engine_queue' = [engine_queue EXCEPT ![t] = Tail(@)]
  /\ UNCHANGED <<client, has_tensor, request, merged_tensor, route, busy, flags>>

EngineSumRecv(t) ==
  /\ CanPop(t, "SUM_RECV")
  /\ LET msg == Head(engine_queue[t])
     IN  stored' = [stored EXCEPT ![msg.key] = Sum(@, Unit(msg.src))]
  /\ engine_queue' = [engine_queue EXCEPT ![t] = Tail(@)]
  /\ UNCHANGED <<client, has_tensor, replica, request, merged_tensor, route, busy, flags>>

\* Mutant: the slots are added to the sum that the store holds already.
ReduceIntoAdds(k) == Sum(stored[k], ReduceSlots(replica[k]))

\* What the reduction leaves in the store.
ReduceInto(k) == IF ReduceMode = "sum" THEN stored[k] ELSE ReduceSlots(replica[k])

\* The first half of ALL_RECV, before flag_mu_[t] is taken.
EngineReduce(t) ==
  /\ CanPop(t, "ALL_RECV")
  /\ LET k == Head(engine_queue[t]).key
     IN  /\ stored' = [stored EXCEPT ![k] = ReduceInto(k)]
         /\ merged_tensor' = [merged_tensor EXCEPT ![k] = TRUE]
         /\ busy' = [busy EXCEPT ![t] = {k}]
  /\ engine_queue' = [engine_queue EXCEPT ![t] = Tail(@)]
  /\ UNCHANGED <<client, has_tensor, replica, request, route, flags>>

\* The second half, under flag_mu_[t]: the round is finished, and the queued
\* pulls of senders not seen in it are answered.
EngineAllRecv(t) ==
  /\ \E k \in busy[t] :
       LET S == {w \in Worker : q_pull_reqmeta[t][k][w] > 0 /\ w \notin seen_sender[t][k]}
       IN  /\ SendPullResponse(S, k)
           /\ RecordResponses(t, k, S)
           /\ q_pull_reqmeta' = [q_pull_reqmeta EXCEPT ![t][k] =
                                   [w \in Worker |-> IF w \in S THEN @[w] - 1 ELSE @[w]]]
  /\ busy' = [busy EXCEPT ![t] = {}]
  /\ UNCHANGED <<round, store, route, engine_queue>>

-----------------------------------------------------------------------------
(* The transport, under no lock of the server *)

\* Some elements of the response to w are read from the store.
ReadElements(w, k) ==
  /\ sending[w][k]
  /\ got' = [got EXCEPT ![w][k] = @ \cup {stored[k]}]
  /\ UNCHANGED <<phase, round, sending, store, route, engine, flags>>

\* The last elements are read, and w has its answer.
ReadLast(w, k) ==
  /\ sending[w][k]
  /\ got'     = [got EXCEPT ![w][k] = @ \cup {stored[k]}]
  /\ sending' = [sending EXCEPT ![w][k] = FALSE]
  /\ UNCHANGED <<phase, round, store, route, engine, flags>>

-----------------------------------------------------------------------------
\* Training is over: every worker has the answer of its last round.
Terminated ==
  /\ \A w \in Worker, k \in Key : phase[w][k] = "idle" /\ round[w][k] = MaxRound /\ ~sending[w][k]
  /\ \A t \in Thread : engine_queue[t] = <<>> /\ busy[t] = {}
  /\ UNCHANGED vars

Handler == \E w \in Worker, k \in Key : HandleInitPush(w, k) \/ HandlePush(w, k) \/ HandlePull(w, k)

EngineThread(t) == EngineCopyFirst(t) \/ EngineSumRecv(t) \/ EngineReduce(t) \/ EngineAllRecv(t)

Transport == \E w \in Worker, k \in Key : ReadElements(w, k) \/ ReadLast(w, k)

Next == Handler \/ (\E t \in Thread : EngineThread(t)) \/ Transport \/ Terminated

Spec == Init /\ [][Next]_vars

\* A worker sends the request it is about to send, ps-lite delivers it and sends a
\* response to its end, and an engine thread works as long as its queue is not empty.
Fairness ==
  /\ \A w \in Worker, k \in Key :
       /\ WF_vars(HandleInitPush(w, k) \/ HandlePush(w, k) \/ HandlePull(w, k))
       /\ WF_vars(ReadLast(w, k))
  /\ \A t \in Thread : WF_vars(EngineThread(t))

FairSpec == Spec /\ Fairness
-----------------------------------------------------------------------------
(* Properties *)

Phase == {"start", "init", "idle", "pushed", "waiting"}

\* The types of the server's state.
TypeOK ==
  /\ phase \in [Worker -> [Key -> Phase]]
  /\ round \in [Worker -> [Key -> Round]]
  /\ sending \in [Worker -> [Key -> BOOLEAN]]
  /\ got \in [Worker -> [Key -> SUBSET Tensor]]
  /\ has_tensor \in [Key -> BOOLEAN]
  /\ stored \in [Key -> Tensor]
  /\ replica \in [Key -> [Slot -> Grad \cup {NoGrad}]]
  /\ request \in [Key -> Seq(Worker)]
  /\ merged_tensor \in [Key -> BOOLEAN]
  /\ hash_cache \in [Key -> Thread \cup {NoThread}]
  /\ acc_load \in [Thread -> Nat]
  /\ engine_queue \in [Thread -> Seq(Message)]
  /\ busy \in [Thread -> SUBSET Key]
  /\ is_push_finished \in [Thread -> [Key -> BOOLEAN]]
  /\ q_pull_reqmeta \in [Thread -> [Key -> [Worker -> Nat]]]
  /\ seen_sender \in [Thread -> [Key -> SUBSET Worker]]
  /\ pull_cnt \in [Thread -> [Key -> Nat]]

\* push_pull is a barrier: a worker is answered in a round (server.cc:184, 454)
\* only after every worker has pushed that round, although the answer is decided
\* from flags that the handler and an engine thread update in separate steps.
RoundBarrier ==
  \A w, v \in Worker, k \in Key :
    phase[w][k] = "idle" => round[v][k] >= round[w][k]

\* While a round is finished and no worker has pushed the next one, the store
\* that the responses point to holds every gradient of the round exactly once,
\* whatever order the pushes came in and whichever reduction is used.
ReducedExactly ==
  \A t \in Thread, k \in Key :
    (is_push_finished[t][k] \/ k \in busy[t]) /\ request[k] = <<>> =>
      \A w \in Worker : stored[k] = RoundSum(round[w][k])

\* The flags of server.cc:178-196 and 451-462 agree with what the workers have
\* received: in a finished round the senders seen are those that were answered,
\* the others have all pushed the round and not pulled it, and between rounds
\* the flags are clear.
PullBookkeeping ==
  \A t \in Thread, k \in Key :
    /\ pull_cnt[t][k] = Cardinality(seen_sender[t][k])
    /\ ~is_push_finished[t][k] => seen_sender[t][k] = {}
    /\ is_push_finished[t][k] =>
         \A v \in Worker \ seen_sender[t][k] :
           /\ phase[v][k] = "pushed"
           /\ \A w \in seen_sender[t][k] :
                round[w][k] = round[v][k] + (IF phase[w][k] = "idle" THEN 0 ELSE 1)

\* The CHECKs of the handler and of SendPullResponse never fail: a pull finds
\* its key allocated (server.cc:437) and cached on a thread (server.h:168), and
\* a response finds merged.tensor set (server.cc:62).
ChecksHold ==
  \A k \in Key :
    /\ (\E w \in Worker : phase[w][k] = "pushed") => has_tensor[k] /\ hash_cache[k] # NoThread
    /\ \A t \in Thread : is_push_finished[t][k] \/ k \in busy[t] => merged_tensor[k]

\* When no worker is inside a push_pull of a key, no engine thread has work on the
\* key queued or half done.  At the end the server deletes the reducer before it stops
\* its threads (server.cc:588-596), and relies on this.
ReducerUnused ==
  \A k \in Key :
    (\A w \in Worker : phase[w][k] \notin {"pushed", "waiting"}) =>
      \A t \in Thread : k \notin busy[t] /\ \A i \in 1..Len(engine_queue[t]) : engine_queue[t][i].key # k

\* No element of what a pull returns (server.cc:63-83) is stale or counts a gradient
\* twice, although it is read from memory that the engine writes meanwhile
\* (server.cc:156, 212): it is an element of the sum of the worker's round, or, when
\* others have their answers and have pushed the next round, of a partial sum of that
\* next round without the worker's own gradient.  One answer may hold both.
AnswerElements ==
  \A w \in Worker, k \in Key :
    LET r == round[w][k]
    IN  phase[w][k] = "idle" /\ r > 0 =>
          /\ sending[w][k] \/ got[w][k] # {}
          /\ \A x \in got[w][k] :
               \/ x = RoundSum(r)
               \/ \E S \in SUBSET (Worker \ {w}) :
                    /\ S # {}
                    /\ x = [g \in Grad |-> IF g[1] \in S /\ g[2] = r + 1 THEN 1 ELSE 0]

Received(w, k) == sending[w][k] /\ ~sending'[w][k]

\* A response that the transport has read to its end before any worker has pushed the
\* next round is the exact sum of the round in every element, whether the handler or
\* the engine gave it and whenever its elements were read (server.cc:72, 82, 184, 454).
ExactUnlessOvertaken ==
  [][\A w \in Worker, k \in Key :
       Received(w, k) /\ (\A v \in Worker : round[v][k] = round[w][k])
         => got'[w][k] = {RoundSum(round[w][k])}]_vars

\* Every pull returns the sum of its own round.
PullReturnsRoundSum ==
  \A w \in Worker, k \in Key :
    phase[w][k] = "idle" /\ ~sending[w][k] /\ round[w][k] > 0 => got[w][k] = {RoundSum(round[w][k])}

\* A pull queued in q_pull_reqmeta_ (server.cc:465) is eventually answered, and the
\* worker has the answer.
PullAnswered ==
  \A w \in Worker, k \in Key : phase[w][k] = "waiting" ~> phase[w][k] = "idle" /\ ~sending[w][k]

\* The server implements the barrier of PushPull, with its liveness.
Abstract ==
  INSTANCE PushPull WITH
    ready  <- has_tensor,
    inside <- [w \in Worker |-> [k \in Key |-> phase[w][k] \in {"pushed", "waiting"} \/ sending[w][k]]]

\* Every step of handler, engine and transport is a step of the push_pull barrier or none.
ImplementsPushPull == Abstract!ASpec

\* No worker is left in a round that every worker has joined.
ImplementsFairPushPull == Abstract!AFairSpec
=============================================================================
