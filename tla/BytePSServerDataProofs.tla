------------------------ MODULE BytePSServerDataProofs ------------------------
(***************************************************************************)
(* FullInv is an invariant, and with it what the store and the answers     *)
(* contain is what the workers pushed.                                     *)
(***************************************************************************)
EXTENDS BytePSServerDataEngineProofs, BytePSServerProofs

\* In every state the store and the replica slots hold what has been copied and added of
\* the round being collected, or the last round, and the engine's queue holds exactly the
\* rest, in the order that makes the sum right (server.cc:98-167, 337-430).
THEOREM FullInvariant == Spec => []FullInv
<1>1. Init => TypeOK /\ ServerInv /\ DataInv
  BY TypeInit, InvInit, DataInit, Zenon
<1>2. TypeOK /\ ServerInv /\ SendingInv /\ DataInv /\ [Next]_vars => TypeOK' /\ ServerInv' /\ DataInv'
  BY InvNext, DataNext, Zenon
<1>3. ServerInv /\ SendingInv /\ DataInv => FullInv
  BY Zenon DEF FullInv
<1> QED BY <1>1, <1>2, <1>3, SendingInvariant, PTL DEF Spec

\* In a state of FullInv the store of a finished round is its sum.
LEMMA ReducedFromInv == TypeOK /\ FullInv => ReducedExactly
<1> SUFFICES ASSUME TypeOK, FullInv, NEW t \in Thread, NEW k \in Key,
                    is_push_finished[t][k] \/ k \in busy[t], request[k] = <<>>,
                    NEW w \in Worker
             PROVE  stored[k] = RoundSum(round[w][k])
  BY Zenon DEF ReducedExactly
<1>1. KeyInv(k) /\ StoreInv(k)
  BY Zenon DEF FullInv, ServerInv, DataInv, DataKeyInv
<1>2. InRequest(k) = {}
  BY DEF InRequest
<1>3. CASE Busy(k)
  BY <1>1, <1>2, <1>3, Zenon DEF StoreInv
<1>4. CASE ~Busy(k)
  <2>1. Finished(k)
    BY <1>4, Zenon DEF Busy, Finished
  <2>2. has_tensor[k] /\ ~AllRecvPending(k)
    <3>1. hash_cache[k] \in Thread
      BY <1>1, <2>1, Zenon DEF KeyInv, RouteInv, Finished
    <3> QED BY <1>1, <2>1, <3>1 DEF KeyInv, Declaring, Training, Pending, Between, Answering, Thread, NoThread
  <2>3. Pushed(k) = {}
    BY <1>2, <2>2, Zenon DEF Pushed
  <2> QED BY <1>1, <1>2, <2>1, <2>3, Zenon DEF StoreInv, Served
<1> QED BY <1>3, <1>4, Zenon

\* For every number of workers, keys and threads, in any order of their steps and with
\* either reduction: a finished round that no push has overtaken is in the store exactly,
\* every worker's gradient once (server.cc:98-167).
THEOREM ReductionExact == Spec => []ReducedExactly
BY TypeCorrect, FullInvariant, ReducedFromInv, PTL

\* In a state of FullInv the CHECKs of handler and engine hold.
LEMMA ChecksFromInv == TypeOK /\ FullInv => ChecksHold
<1> SUFFICES ASSUME TypeOK, FullInv, NEW k \in Key
             PROVE  /\ (\E w \in Worker : phase[w][k] = "pushed") =>
                         has_tensor[k] /\ hash_cache[k] # NoThread
                    /\ \A t \in Thread : is_push_finished[t][k] \/ k \in busy[t] => merged_tensor[k]
  BY Zenon DEF ChecksHold
<1>1. KeyInv(k) /\ MergedInv(k)
  BY Zenon DEF FullInv, ServerInv, DataInv, DataKeyInv
<1>2. ASSUME NEW w \in Worker, phase[w][k] = "pushed"
      PROVE  has_tensor[k] /\ hash_cache[k] # NoThread
  <2>1. has_tensor[k]
    BY <1>1, <1>2, Zenon DEF KeyInv, Declaring
  <2>2. InRequest(k) # {} \/ AllRecvPending(k) \/ Finished(k)
    BY <1>1, <1>2, <2>1, Zenon DEF KeyInv, Training, Pending, Answering, Between
  <2>3. hash_cache[k] \in Thread
    BY <1>1, <2>1, <2>2, Zenon DEF KeyInv, Training, RouteInv, AllRecvPending, Finished
  <2> QED BY <2>1, <2>3 DEF Thread, NoThread
<1>3. \A t \in Thread : is_push_finished[t][k] \/ k \in busy[t] => merged_tensor[k]
  BY <1>1, Zenon DEF MergedInv, Finished, Busy
<1> QED BY <1>2, <1>3, Zenon

\* The CHECKs of the handler and of SendPullResponse hold (server.cc:62, 437; server.h:168).
THEOREM ChecksNeverFail == Spec => []ChecksHold
BY TypeCorrect, FullInvariant, ChecksFromInv, PTL

\* In a state of FullInv a key without a push_pull under way has nothing with the engine.
LEMMA UnusedFromInv == TypeOK /\ FullInv => ReducerUnused
<1> SUFFICES ASSUME TypeOK, FullInv, NEW k \in Key,
                    \A w \in Worker : phase[w][k] \notin {"pushed", "waiting"},
                    NEW t \in Thread
             PROVE  k \notin busy[t] /\ \A i \in 1..Len(engine_queue[t]) : engine_queue[t][i].key # k
  BY Zenon DEF ReducerUnused
<1>1. KeyInv(k) /\ DataKeyInv(k)
  BY Zenon DEF FullInv, ServerInv, DataInv
<1>2. ~AllRecvPending(k) /\ Work(t, k) = {}
  <2>1. CASE ~has_tensor[k]
    BY <1>1, <2>1, DeclaringKey, Zenon
  <2>2. CASE has_tensor[k]
    <3>1. PICK e \in Round : Rounds(k, e) /\ (Pending(k) \/ Answering(k) \/ Between(k))
      BY <1>1, <2>2, Zenon DEF KeyInv, Training
    <3>2. InRequest(k) = {}
      <4>1. InRequest(k) \subseteq Worker
        BY DEF InRequest, TypeOK
      <4> QED BY <3>1, <4>1, Zenon DEF Rounds
    <3>3. ~AllRecvPending(k)
      BY <3>1, ServerAssumption, Zenon DEF Pending, Answering, Between
    <3>4. Pushed(k) = {}
      BY <3>2, <3>3, Zenon DEF Pushed
    <3> QED BY <1>1, <3>3, <3>4, NoWork, Zenon DEF DataKeyInv
  <2> QED BY <2>1, <2>2, Zenon
<1>3. k \notin busy[t]
  BY <1>2, Zenon DEF AllRecvPending
<1>4. \A i \in 1..Len(engine_queue[t]) : engine_queue[t][i].key # k
  BY <1>2, Zenon DEF Work, WorkOf
<1> QED BY <1>3, <1>4, Zenon

\* While no worker is inside a push_pull of a key the engine does not use the reducer for
\* it, so that deleting the reducer first at the end is safe (server.cc:588-596).
THEOREM ReducerNotInUse == Spec => []ReducerUnused
BY TypeCorrect, FullInvariant, UnusedFromInv, PTL


-----------------------------------------------------------------------------
(* The answers *)

\* What an element of an answer to w may be of: the sum of round r, or part of the next.
IsAnswer(x, w, r) ==
  \/ x = RoundSum(r)
  \/ \E S \in SUBSET (Worker \ {w}) :
       /\ S # {}
       /\ x = [g \in Grad |-> IF g[1] \in S /\ g[2] = r + 1 THEN 1 ELSE 0]

\* A worker that a response is being sent to has not pushed the next round, and neither is
\* the next round complete.
LEMMA SendingKey ==
  ASSUME TypeOK, FullInv, NEW w \in Worker, NEW k \in Key, sending[w][k]
  PROVE  has_tensor[k] /\ ~AllRecvPending(k) /\ w \notin InRequest(k)
<1>1. KeyInv(k) /\ phase[w][k] = "idle"
  BY Zenon DEF FullInv, ServerInv, SendingInv
<1>2. has_tensor[k]
  BY <1>1 DEF KeyInv, Declaring
<1> QED BY <1>1, <1>2 DEF KeyInv, Training, Rounds, Pending, Answering, Between

\* What the store holds while a response to w is read from it.
LEMMA StoreAnswers ==
  ASSUME TypeOK, FullInv, NEW w \in Worker, NEW k \in Key, sending[w][k]
  PROVE  /\ IsAnswer(stored[k], w, round[w][k])
         /\ (\A v \in Worker : round[v][k] = round[w][k]) => stored[k] = RoundSum(round[w][k])
<1>1. KeyInv(k) /\ StoreInv(k) /\ WorkInv(k)
  BY Zenon DEF FullInv, ServerInv, DataInv, DataKeyInv
<1>2. Served(k) /\ has_tensor[k] /\ ~AllRecvPending(k) /\ w \notin InRequest(k)
  BY SendingKey, Zenon DEF Served
<1>3. CASE Busy(k) \/ Opening(k) \/ Pushed(k) = {}
  BY <1>1, <1>2, <1>3, Zenon DEF StoreInv, IsAnswer
<1>4. CASE ~Busy(k) /\ ~Opening(k) /\ Pushed(k) # {}
  <2>1. PICK e \in Round : Rounds(k, e)
    BY <1>1, <1>2, Zenon DEF KeyInv, Training
  <2>2. Pushed(k) = InRequest(k) /\ InRequest(k) \in SUBSET Worker
    BY <1>2 DEF Pushed, InRequest, TypeOK
  <2>3. e \in Nat /\ round[w][k] = e /\ \A v \in InRequest(k) : round[v][k] = e + 1
    BY <1>2, <2>1, <2>2, ServerAssumption DEF Rounds, Round
  <2>4. PICK S : S = InRequest(k) \ Left(k)
    BY Zenon
  <2>5. Left(k) \subseteq InRequest(k)
    BY <1>1, <2>2 DEF Left, WorkInv, IsPart
  <2>6. S # {} /\ S \in SUBSET (Worker \ {w}) /\ stored[k] = PartSum(S, k)
    BY <1>1, <1>2, <1>4, <2>2, <2>4, <2>5, Zenon DEF StoreInv
  <2>7. PartSum(S, k) = [g \in Grad |-> IF g[1] \in S /\ g[2] = round[w][k] + 1 THEN 1 ELSE 0]
    BY <2>3, <2>4, Zenon DEF PartSum
  <2>8. IsAnswer(stored[k], w, round[w][k])
    BY <2>6, <2>7, Zenon DEF IsAnswer
  <2>9. ~\A v \in Worker : round[v][k] = round[w][k]
    BY <2>2, <2>3, <2>4, <2>6
  <2> QED BY <2>8, <2>9, Zenon
<1> QED BY <1>3, <1>4, Zenon

\* The answer to w is as it was.
SameAnswer(w, k) == got'[w][k] = got[w][k] /\ sending'[w][k] = sending[w][k]

\* A response to w begins, and nothing of it has been read.
Begins(w, k) == got'[w][k] = {} /\ sending'[w][k]

\* Elements of the response to w are read from the store.
Reads(w, k) == sending[w][k] /\ got'[w][k] = got[w][k] \cup {stored[k]}

\* After a step that leaves w idle w's answer begins, is being read or is as it was, or
\* w has only been initialised.
IdleStep(w, k) ==
  \/ round'[w][k] = round[w][k] /\ Begins(w, k)
  \/ round'[w][k] = round[w][k] /\ phase[w][k] = "idle" /\ (SameAnswer(w, k) \/ Reads(w, k))
  \/ round'[w][k] = 0 /\ ~sending'[w][k]

\* A response to the workers in S begins for them and changes no other answer.
LEMMA IdleAfterResponse ==
  ASSUME TypeOK, NEW S, NEW j \in Key, SendPullResponse(S, j), round' = round,
         NEW w \in Worker, NEW k \in Key, phase'[w][k] = "idle"
  PROVE  IdleStep(w, k)
<1>1. /\ phase \in [Worker -> [Key -> Phase]] /\ got \in [Worker -> [Key -> SUBSET Tensor]]
      /\ sending \in [Worker -> [Key -> BOOLEAN]]
  BY Zenon DEF TypeOK
<1>2. /\ got'[w][k] = IF k = j /\ w \in S THEN {} ELSE got[w][k]
      /\ phase'[w][k] = IF k = j /\ w \in S THEN "idle" ELSE phase[w][k]
      /\ sending'[w][k] = IF k = j /\ w \in S THEN TRUE ELSE sending[w][k]
  BY <1>1, Zenon DEF SendPullResponse
<1>3. CASE k = j /\ w \in S
  BY <1>2, <1>3, Zenon DEF IdleStep, Begins
<1>4. CASE ~(k = j /\ w \in S)
  BY <1>2, <1>4, Zenon DEF IdleStep, SameAnswer
<1> QED BY <1>3, <1>4, Zenon

\* Every step that leaves a worker idle is an IdleStep of it.
LEMMA IdleAfterStep ==
  ASSUME TypeOK, FullInv, [Next]_vars, NEW w \in Worker, NEW k \in Key, phase'[w][k] = "idle"
  PROVE  IdleStep(w, k)
<1>0. /\ phase \in [Worker -> [Key -> Phase]] /\ round \in [Worker -> [Key -> Round]]
      /\ got \in [Worker -> [Key -> SUBSET Tensor]] /\ busy \in [Thread -> SUBSET Key]
      /\ sending \in [Worker -> [Key -> BOOLEAN]]
  BY Zenon DEF TypeOK
<1>1. CASE UNCHANGED client
  BY <1>1, Zenon DEF client, IdleStep, SameAnswer
<1>2. ASSUME NEW v \in Worker, NEW j \in Key, HandleInitPush(v, j)
      PROVE  IdleStep(w, k)
  <2>1. UNCHANGED <<round, sending, got>> /\ ~has_tensor[j]
    BY <1>2, Zenon DEF HandleInitPush
  <2>2. CASE k = j
    <3>1. Declaring(k)
      BY <2>1, <2>2, Zenon DEF FullInv, ServerInv, KeyInv
    <3>2. round[w][k] = 0 /\ ~sending[w][k]
      BY <3>1 DEF Declaring, FullInv, SendingInv
    <3> QED BY <2>1, <3>2, Zenon DEF IdleStep
  <2>3. CASE k # j
    <3>1. phase'[w][k] = phase[w][k]
      <4>1. CASE Len(Append(request[j], v)) < NumWorkers
        <5>1. phase' = [phase EXCEPT ![v][j] = "init"]
          BY <1>2, <4>1, Zenon DEF HandleInitPush
        <5> QED BY <1>0, <2>3, <5>1, Zenon
      <4>2. CASE ~(Len(Append(request[j], v)) < NumWorkers)
        BY <1>0, <1>2, <2>3, <4>2 DEF HandleInitPush
      <4> QED BY <4>1, <4>2, Zenon
    <3> QED BY <2>1, <3>1, Zenon DEF IdleStep, SameAnswer
  <2> QED BY <2>2, <2>3, Zenon
<1>3. ASSUME NEW v \in Worker, NEW j \in Key, HandlePush(v, j)
      PROVE  IdleStep(w, k)
  <2>1. /\ round' = [round EXCEPT ![v][j] = @ + 1]
        /\ phase' = [phase EXCEPT ![v][j] = "pushed"]
        /\ UNCHANGED <<sending, got>>
    BY <1>3, Zenon DEF HandlePush
  <2>2. phase[w][k] = "idle" /\ round'[w][k] = round[w][k]
    BY <1>0, <2>1, Zenon
  <2> QED BY <2>1, <2>2, Zenon DEF IdleStep, SameAnswer
<1>4. ASSUME NEW v \in Worker, NEW j \in Key, HandlePull(v, j)
      PROVE  IdleStep(w, k)
  <2>1. round' = round
    BY <1>4, Zenon DEF HandlePull
  <2>2. CASE MayAnswer(v, GetThreadID(j), j)
    <3>1. SendPullResponse({v}, j)
      BY <1>4, <2>2, Zenon DEF HandlePull
    <3> QED BY <2>1, <3>1, IdleAfterResponse, Zenon
  <2>3. CASE ~MayAnswer(v, GetThreadID(j), j)
    <3>1. phase' = [phase EXCEPT ![v][j] = "waiting"] /\ UNCHANGED <<sending, got>>
      BY <1>4, <2>3, Zenon DEF HandlePull
    <3>2. phase[w][k] = "idle"
      BY <1>0, <3>1, Zenon
    <3> QED BY <2>1, <3>1, <3>2, Zenon DEF IdleStep, SameAnswer
  <2> QED BY <2>2, <2>3, Zenon
<1>5. ASSUME NEW t \in Thread, EngineAllRecv(t)
      PROVE  IdleStep(w, k)
  <2>1. PICK j \in busy[t] : \E S : SendPullResponse(S, j)
    BY <1>5, Zenon DEF EngineAllRecv
  <2>2. round' = round /\ j \in Key
    BY <1>0, <1>5, Zenon DEF EngineAllRecv
  <2> QED BY <2>1, <2>2, IdleAfterResponse, Zenon
<1>6. ASSUME NEW t \in Thread, EngineCopyFirst(t) \/ EngineSumRecv(t) \/ EngineReduce(t)
      PROVE  UNCHANGED client
  BY <1>6, Zenon DEF EngineCopyFirst, EngineSumRecv, EngineReduce
<1>7. ASSUME NEW v \in Worker, NEW j \in Key, ReadElements(v, j) \/ ReadLast(v, j)
      PROVE  IdleStep(w, k)
  <2>1. /\ sending[v][j] /\ UNCHANGED <<phase, round>>
        /\ got' = [got EXCEPT ![v][j] = @ \cup {stored[j]}]
        /\ sending' = sending \/ sending' = [sending EXCEPT ![v][j] = FALSE]
    BY <1>7, Zenon DEF ReadElements, ReadLast
  <2>2. PICK x : x = got[v][j] \cup {stored[j]}
    BY Zenon
  <2>3. got' = [got EXCEPT ![v][j] = x]
    BY <2>1, <2>2, Zenon
  <2>4. CASE w = v /\ k = j
    <3>1. got'[w][k] = x
      BY <1>0, <2>3, <2>4, Zenon
    <3> QED BY <2>1, <2>2, <2>4, <3>1, Zenon DEF IdleStep, Reads
  <2>5. CASE ~(w = v /\ k = j)
    <3>1. got'[w][k] = got[w][k]
      BY <1>0, <2>3, <2>5, Zenon
    <3>2. sending'[w][k] = sending[w][k]
      <4>1. CASE sending' = sending
        BY <4>1, Zenon
      <4>2. CASE sending' = [sending EXCEPT ![v][j] = FALSE]
        BY <1>0, <2>5, <4>2, Zenon
      <4> QED BY <2>1, <4>1, <4>2, Zenon
    <3> QED BY <2>1, <3>1, <3>2, Zenon DEF IdleStep, SameAnswer
  <2> QED BY <2>4, <2>5, Zenon
<1> QED BY <1>1, <1>2, <1>3, <1>4, <1>5, <1>6, <1>7, Zenon
        DEF Next, Handler, EngineThread, Transport, Terminated, vars

\* Nobody has an answer initially.
LEMMA AnswerInit == Init => AnswerElements
BY DEF Init, AnswerElements

\* What a step adds to an answer is of the worker's round or of the next.
LEMMA AnswerNext ==
  ASSUME TypeOK, FullInv, AnswerElements, [Next]_vars
  PROVE  AnswerElements'
<1> SUFFICES ASSUME NEW w \in Worker, NEW k \in Key, phase'[w][k] = "idle", round'[w][k] > 0
             PROVE  /\ sending'[w][k] \/ got'[w][k] # {}
                    /\ \A x \in got'[w][k] : IsAnswer(x, w, round'[w][k])
  BY Zenon DEF AnswerElements, IsAnswer
<1>1. IdleStep(w, k)
  BY IdleAfterStep, Zenon
<1>2. CASE Begins(w, k)
  BY <1>2, Zenon DEF Begins
<1>3. CASE phase[w][k] = "idle" /\ round'[w][k] = round[w][k] /\ (SameAnswer(w, k) \/ Reads(w, k))
  <2>1. /\ sending[w][k] \/ got[w][k] # {}
        /\ \A x \in got[w][k] : IsAnswer(x, w, round[w][k])
    BY <1>3, Zenon DEF AnswerElements, IsAnswer
  <2>2. CASE SameAnswer(w, k)
    BY <1>3, <2>1, <2>2, Zenon DEF SameAnswer
  <2>3. CASE Reads(w, k)
    <3>1. IsAnswer(stored[k], w, round[w][k])
      BY <2>3, StoreAnswers, Zenon DEF Reads
    <3> QED BY <1>3, <2>1, <2>3, <3>1, Zenon DEF Reads
  <2> QED BY <1>3, <2>2, <2>3, Zenon
<1>4. CASE round'[w][k] = 0
  BY <1>4
<1> QED BY <1>1, <1>2, <1>3, <1>4, Zenon DEF IdleStep

\* Although a response is read from the store while the engine may write the next round
\* there, no element of it is stale or counts a gradient twice: it is of the sum of the
\* worker's round, or of a part of the next round without the worker's own gradient
\* (server.cc:63-83, 156, 212).
THEOREM AnswerElementsHold == Spec => []AnswerElements
<1>1. TypeOK /\ FullInv /\ AnswerElements /\ [Next]_vars => AnswerElements'
  BY AnswerNext, Zenon
<1> QED BY <1>1, AnswerInit, TypeCorrect, FullInvariant, PTL DEF Spec

\* While nobody has pushed the next round, what has been read of a response is the exact
\* sum of the round.
ExactSoFar ==
  \A w \in Worker, k \in Key :
    sending[w][k] /\ (\A v \in Worker : round[v][k] = round[w][k])
      => \A x \in got[w][k] : x = RoundSum(round[w][k])

\* A worker's round never falls.
LEMMA RoundsGrow ==
  ASSUME TypeOK, [Next]_vars, NEW w \in Worker, NEW k \in Key
  PROVE  round'[w][k] >= round[w][k]
<1>1. round \in [Worker -> [Key -> Nat]]
  BY ServerAssumption DEF TypeOK, Round
<1>2. ASSUME NEW v \in Worker, NEW j \in Key, HandlePush(v, j)
      PROVE  round'[w][k] >= round[w][k]
  <2>1. round' = [round EXCEPT ![v][j] = @ + 1]
    BY <1>2, Zenon DEF HandlePush
  <2> QED BY <1>1, <2>1
<1>3. CASE round' = round
  BY <1>1, <1>3
<1>4. ASSUME NEW v \in Worker, NEW j \in Key, ~HandlePush(v, j),
             HandleInitPush(v, j) \/ HandlePull(v, j) \/ ReadElements(v, j) \/ ReadLast(v, j)
      PROVE  round' = round
  BY <1>4, Zenon DEF HandleInitPush, HandlePull, ReadElements, ReadLast
<1>5. ASSUME NEW t \in Thread, EngineThread(t)
      PROVE  round' = round
  BY <1>5, Zenon DEF EngineThread, EngineCopyFirst, EngineSumRecv, EngineReduce, EngineAllRecv, client
<1> QED BY <1>2, <1>3, <1>4, <1>5, Zenon DEF Next, Handler, Transport, Terminated, vars, client

\* A step keeps ExactSoFar: a push of the next round makes the rounds differ.
LEMMA ExactNext ==
  ASSUME TypeOK, TypeOK', FullInv, FullInv', ExactSoFar, [Next]_vars
  PROVE  ExactSoFar'
<1> SUFFICES ASSUME NEW w \in Worker, NEW k \in Key, sending'[w][k],
                    \A v \in Worker : round'[v][k] = round'[w][k]
             PROVE  \A x \in got'[w][k] : x = RoundSum(round'[w][k])
  BY Zenon DEF ExactSoFar
<1>1. phase'[w][k] = "idle"
  BY Zenon DEF FullInv, SendingInv
<1>2. IdleStep(w, k)
  BY <1>1, IdleAfterStep, Zenon
<1>3. CASE Begins(w, k)
  BY <1>3, Zenon DEF Begins
<1>4. CASE phase[w][k] = "idle" /\ round'[w][k] = round[w][k] /\ (SameAnswer(w, k) \/ Reads(w, k))
  <2>1. \A v \in Worker : round[v][k] = round[w][k]
    <3> SUFFICES ASSUME NEW v \in Worker PROVE round[v][k] = round[w][k]
      BY Zenon
    <3>1. round[v][k] >= round[w][k]
      BY <1>4, BarrierFromInv, Zenon DEF FullInv, RoundBarrier
    <3>2. round'[v][k] >= round[v][k] /\ round'[v][k] = round[w][k]
      BY <1>4, RoundsGrow, Zenon
    <3>3. round[v][k] \in Nat /\ round[w][k] \in Nat
      BY ServerAssumption DEF TypeOK, Round
    <3> QED BY <3>1, <3>2, <3>3
  <2>2. sending[w][k]
    BY <1>4, Zenon DEF SameAnswer, Reads
  <2>3. \A x \in got[w][k] : x = RoundSum(round[w][k])
    BY <2>1, <2>2, Zenon DEF ExactSoFar
  <2>4. stored[k] = RoundSum(round[w][k])
    BY <2>1, <2>2, StoreAnswers, Zenon
  <2> QED BY <1>4, <2>3, <2>4, Zenon DEF SameAnswer, Reads
<1> QED BY <1>2, <1>3, <1>4, Zenon DEF IdleStep

\* A worker has its whole answer when its last elements have been read.
LEMMA ReceivedStep ==
  ASSUME TypeOK, [Next]_vars, NEW w \in Worker, NEW k \in Key, Received(w, k)
  PROVE  Reads(w, k)
<1>1. /\ sending \in [Worker -> [Key -> BOOLEAN]] /\ got \in [Worker -> [Key -> SUBSET Tensor]]
      /\ busy \in [Thread -> SUBSET Key] /\ sending[w][k] /\ ~sending'[w][k]
  BY Zenon DEF TypeOK, Received
<1>2. sending' # sending
  BY <1>1, Zenon
<1>3. ASSUME NEW S, NEW j \in Key, SendPullResponse(S, j)
      PROVE  FALSE
  <2>1. sending'[w][k] = IF k = j /\ w \in S THEN TRUE ELSE sending[w][k]
    BY <1>1, <1>3, Zenon DEF SendPullResponse
  <2> QED BY <1>1, <2>1, Zenon
<1>4. ASSUME NEW v \in Worker, NEW j \in Key,
             HandleInitPush(v, j) \/ HandlePush(v, j) \/ HandlePull(v, j)
      PROVE  FALSE
  <2>1. HandlePull(v, j) => sending' = sending \/ SendPullResponse({v}, j)
    BY Zenon DEF HandlePull
  <2>2. HandleInitPush(v, j) => sending' = sending
    BY Zenon DEF HandleInitPush
  <2>3. HandlePush(v, j) => sending' = sending
    BY Zenon DEF HandlePush
  <2> QED BY <1>2, <1>3, <1>4, <2>1, <2>2, <2>3, Zenon
<1>5. ASSUME NEW t \in Thread, EngineThread(t)
      PROVE  FALSE
  <2>1. EngineAllRecv(t) => \E j \in busy[t], S \in SUBSET Worker : SendPullResponse(S, j)
    BY Zenon DEF EngineAllRecv
  <2>2. EngineCopyFirst(t) \/ EngineSumRecv(t) \/ EngineReduce(t) => sending' = sending
    BY Zenon DEF EngineCopyFirst, EngineSumRecv, EngineReduce, client
  <2> QED BY <1>1, <1>2, <1>3, <1>5, <2>1, <2>2, Zenon DEF EngineThread
<1>6. ASSUME NEW v \in Worker, NEW j \in Key, ReadElements(v, j) \/ ReadLast(v, j)
      PROVE  Reads(w, k)
  <2>1. ReadLast(v, j)
    BY <1>2, <1>6, Zenon DEF ReadElements
  <2>2. v = w /\ j = k
    BY <1>1, <2>1, Zenon DEF ReadLast
  <2>3. PICK x : x = got[w][k] \cup {stored[k]}
    BY Zenon
  <2>4. got' = [got EXCEPT ![w][k] = x]
    BY <2>1, <2>2, <2>3, Zenon DEF ReadLast
  <2>5. got'[w][k] = x
    BY <1>1, <2>4, Zenon
  <2> QED BY <1>1, <2>3, <2>5, Zenon DEF Reads
<1> QED BY <1>2, <1>4, <1>5, <1>6, Zenon DEF Next, Handler, Transport, Terminated, vars, client

\* A response that has been read to its end before any worker pushed the next round is
\* the exact sum of its round in every element (server.cc:63-83, 178-196, 451-462).
THEOREM ExactAnswers == Spec => ExactUnlessOvertaken
<1> DEFINE Exact == \A w \in Worker, k \in Key :
                      Received(w, k) /\ (\A v \in Worker : round[v][k] = round[w][k])
                        => got'[w][k] = {RoundSum(round[w][k])}
<1>1. Init => ExactSoFar
  BY DEF Init, ExactSoFar
<1>2. TypeOK /\ TypeOK' /\ FullInv /\ FullInv' /\ ExactSoFar /\ [Next]_vars => ExactSoFar'
  BY ExactNext, Zenon
<1>3. ASSUME TypeOK, FullInv, ExactSoFar, [Next]_vars PROVE Exact
  <2> SUFFICES ASSUME NEW w \in Worker, NEW k \in Key, Received(w, k),
                      \A v \in Worker : round[v][k] = round[w][k]
               PROVE  got'[w][k] = {RoundSum(round[w][k])}
    BY Zenon
  <2>1. sending[w][k] /\ got'[w][k] = got[w][k] \cup {stored[k]}
    BY <1>3, ReceivedStep, Zenon DEF Reads
  <2>2. \A x \in got[w][k] : x = RoundSum(round[w][k])
    BY <1>3, <2>1, Zenon DEF ExactSoFar
  <2>3. stored[k] = RoundSum(round[w][k])
    BY <1>3, <2>1, StoreAnswers, Zenon
  <2> QED BY <2>1, <2>2, <2>3, Zenon
<1>4. TypeOK /\ FullInv /\ ExactSoFar /\ [Next]_vars => [Exact]_vars
  BY <1>3, Zenon
<1> QED BY <1>1, <1>2, <1>4, TypeCorrect, FullInvariant, PTL DEF Spec, ExactUnlessOvertaken
===============================================================================
