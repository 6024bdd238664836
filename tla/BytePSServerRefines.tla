------------------------ MODULE BytePSServerRefines ------------------------
(***************************************************************************)
(* BytePSServer implements the barrier of PushPull: initial states map to  *)
(* initial states, and every step of handler, engine and transport maps to *)
(* a Declare, a Call or a Return, or leaves the barrier as it is.          *)
(***************************************************************************)
EXTENDS BytePSServerProofs

\* The worker has pushed and has not received its whole answer.
Inside(w, k) == phase[w][k] \in {"pushed", "waiting"} \/ sending[w][k]

InsideFcn == [w \in Worker |-> [k \in Key |-> phase[w][k] \in {"pushed", "waiting"} \/ sending[w][k]]]

\* Nothing the barrier sees changes when ready, round and inside do not.
LEMMA StutterStep ==
  ASSUME UNCHANGED <<has_tensor, round>>,
         \A w \in Worker, k \in Key : Inside(w, k)' <=> Inside(w, k)
  PROVE  UNCHANGED Abstract!avars
<1>1. InsideFcn' = InsideFcn
  BY DEF Inside, InsideFcn
<1> QED BY <1>1, Zenon DEF Abstract!avars, InsideFcn

\* The end of an answer to v is a Return of the barrier when all have pushed v's round.
LEMMA ReturnStep ==
  ASSUME NEW k \in Key, NEW v \in Worker, UNCHANGED <<has_tensor, round>>,
         Inside(v, k), \A w \in Worker : round[w][k] >= round[v][k],
         \A w \in Worker, j \in Key : Inside(w, j)' <=> Inside(w, j) /\ ~(w = v /\ j = k)
  PROVE  Abstract!ANext
<1>1. InsideFcn' = [w \in Worker |-> [InsideFcn[w] EXCEPT ![k] = IF w \in {v} THEN FALSE ELSE @]]
  <2>1. ASSUME NEW w \in Worker
        PROVE  InsideFcn'[w] = [InsideFcn[w] EXCEPT ![k] = IF w \in {v} THEN FALSE ELSE @]
    <3> DEFINE F == [InsideFcn[w] EXCEPT ![k] = IF w \in {v} THEN FALSE ELSE @]
    <3>1. InsideFcn'[w] = [j \in Key |-> Inside(w, j)']
      BY Zenon DEF InsideFcn, Inside
    <3>2. F = [j \in Key |-> IF j = k /\ w = v THEN FALSE ELSE Inside(w, j)]
      BY ZenonT(60) DEF InsideFcn, Inside
    <3>3. \A j \in Key : Inside(w, j)' = (IF j = k /\ w = v THEN FALSE ELSE Inside(w, j))
      BY DEF Inside
    <3> HIDE DEF F
    <3>4. InsideFcn'[w] = F
      BY <3>1, <3>2, <3>3, ZenonT(60)
    <3> QED BY <3>4, Zenon DEF F
  <2> QED BY <2>1, ZenonT(60) DEF InsideFcn
<1>2. \A w \in {v} : InsideFcn[w][k]
  BY ZenonT(60) DEF InsideFcn, Inside
<1>3. Abstract!Return({v}, k)
  BY <1>1, <1>2, ZenonT(60) DEF Abstract!Return, InsideFcn
<1> QED BY <1>3, Zenon DEF Abstract!ANext

\* Initial states are initial states of the barrier.
LEMMA RefinesInit == Init => Abstract!AInit
<1> SUFFICES ASSUME Init PROVE Abstract!AInit
  BY Zenon
<1>1. InsideFcn = [w \in Worker |-> [k \in Key |-> FALSE]]
  <2>1. \A w \in Worker, k \in Key : Inside(w, k) = FALSE
    BY DEF Init, Inside
  <2> QED BY <2>1, Zenon DEF InsideFcn, Inside
<1> QED BY <1>1, ZenonT(60) DEF Init, Abstract!AInit, InsideFcn

\* The last init push of a key is a Declare.
LEMMA RefinesHandleInitPush ==
  ASSUME TypeOK, ServerInv, SendingInv, NEW w \in Worker, NEW k \in Key, HandleInitPush(w, k)
  PROVE  [Abstract!ANext]_(Abstract!avars)
<1> DEFINE b == Append(request[k], w)
<1>1. /\ phase \in [Worker -> [Key -> Phase]] /\ has_tensor \in [Key -> BOOLEAN]
      /\ ~has_tensor[k] /\ round' = round /\ sending' = sending
      /\ \A v \in Worker : phase[v][k] \notin {"pushed", "waiting"}
  BY ZenonT(60) DEF TypeOK, HandleInitPush, ServerInv, KeyInv, Declaring
<1>2. CASE Len(b) < NumWorkers
  <2>1. phase' = [phase EXCEPT ![w][k] = "init"] /\ has_tensor' = has_tensor
    BY <1>2, Zenon DEF HandleInitPush
  <2>2. \A v \in Worker, j \in Key : Inside(v, j)' <=> Inside(v, j)
    BY <1>1, <2>1, Zenon DEF Inside
  <2> QED BY <1>1, <2>1, <2>2, StutterStep, Zenon
<1>3. CASE ~(Len(b) < NumWorkers)
  <2> HIDE DEF b
  <2>1. /\ has_tensor' = [has_tensor EXCEPT ![k] = TRUE]
        /\ phase' = [v \in Worker |->
                       [phase[v] EXCEPT ![k] = IF \E i \in 1..Len(b) : b[i] = v THEN "idle" ELSE @]]
    BY <1>3, ZenonT(60) DEF HandleInitPush, b
  <2>2. \A v \in Worker, j \in Key : Inside(v, j)' <=> Inside(v, j)
    BY <1>1, <2>1, Zenon DEF Inside
  <2>3. InsideFcn' = InsideFcn
    BY <2>2 DEF Inside, InsideFcn
  <2>4. Abstract!Declare(k)
    BY <1>1, <2>1, <2>3, Zenon DEF Abstract!Declare, InsideFcn
  <2> QED BY <2>4, Zenon DEF Abstract!ANext
<1> QED BY <1>2, <1>3, Zenon

\* A push is a Call.
LEMMA RefinesHandlePush ==
  ASSUME TypeOK, NEW w \in Worker, NEW k \in Key, HandlePush(w, k)
  PROVE  Abstract!ANext
<1>1. /\ phase \in [Worker -> [Key -> Phase]]
      /\ phase[w][k] = "idle" /\ ~sending[w][k] /\ sending' = sending
      /\ has_tensor[k] /\ has_tensor' = has_tensor
      /\ round' = [round EXCEPT ![w][k] = @ + 1]
      /\ phase' = [phase EXCEPT ![w][k] = "pushed"]
  BY Zenon DEF TypeOK, HandlePush
<1>2. \A v \in Worker, j \in Key : phase'[v][j] = IF v = w /\ j = k THEN "pushed" ELSE phase[v][j]
  BY <1>1, Zenon
<1>3. InsideFcn' = [InsideFcn EXCEPT ![w][k] = TRUE]
  <2>1. ASSUME NEW v \in Worker
        PROVE  InsideFcn'[v] = [InsideFcn EXCEPT ![w][k] = TRUE][v]
    <3> DEFINE F == [InsideFcn EXCEPT ![w][k] = TRUE][v]
    <3>1. InsideFcn'[v] = [j \in Key |-> Inside(v, j)']
      BY Zenon DEF InsideFcn, Inside
    <3>2. F = [j \in Key |-> IF v = w /\ j = k THEN TRUE ELSE Inside(v, j)]
      BY ZenonT(60) DEF InsideFcn, Inside
    <3>3. \A j \in Key : Inside(v, j)' = (IF v = w /\ j = k THEN TRUE ELSE Inside(v, j))
      BY <1>1, <1>2 DEF Inside
    <3> HIDE DEF F
    <3>4. InsideFcn'[v] = F
      BY <3>1, <3>2, <3>3, ZenonT(60)
    <3> QED BY <3>4, Zenon DEF F
  <2> QED BY <2>1, ZenonT(60) DEF InsideFcn
<1>4. ~InsideFcn[w][k]
  <2>1. ~Inside(w, k)
    BY <1>1 DEF Inside
  <2> QED BY <2>1, ZenonT(60) DEF InsideFcn, Inside
<1>5. Abstract!Call(w, k)
  BY <1>1, <1>3, <1>4, Zenon DEF Abstract!Call, InsideFcn
<1> QED BY <1>5, Zenon DEF Abstract!ANext

\* The begin of an answer leaves the barrier as it is: the answer has still to be read.
LEMMA RefinesSend ==
  ASSUME TypeOK, NEW k \in Key, NEW S \in SUBSET Worker, SendPullResponse(S, k),
         UNCHANGED <<has_tensor, round>>,
         \A w \in S : phase[w][k] \in {"pushed", "waiting"}
  PROVE  UNCHANGED Abstract!avars
<1>1. phase \in [Worker -> [Key -> Phase]] /\ sending \in [Worker -> [Key -> BOOLEAN]]
  BY Zenon DEF TypeOK
<1>2. \A w \in Worker, j \in Key :
        /\ phase'[w][j] = IF j = k /\ w \in S THEN "idle" ELSE phase[w][j]
        /\ sending'[w][j] = IF j = k /\ w \in S THEN TRUE ELSE sending[w][j]
  BY <1>1, Zenon DEF SendPullResponse
<1>3. \A w \in Worker, j \in Key : Inside(w, j)' <=> Inside(w, j)
  <2> SUFFICES ASSUME NEW w \in Worker, NEW j \in Key
               PROVE  Inside(w, j)' <=> Inside(w, j)
    BY Zenon
  <2>1. CASE j = k /\ w \in S
    BY <1>2, <2>1, Zenon DEF Inside
  <2>2. CASE ~(j = k /\ w \in S)
    BY <1>2, <2>2, Zenon DEF Inside
  <2> QED BY <2>1, <2>2, Zenon
<1> QED BY <1>3, StutterStep, Zenon

\* A pull is answered at once or parked; the worker is inside either way.
LEMMA RefinesHandlePull ==
  ASSUME TypeOK, NEW w \in Worker, NEW k \in Key, HandlePull(w, k)
  PROVE  UNCHANGED Abstract!avars
<1>1. /\ phase \in [Worker -> [Key -> Phase]]
      /\ phase[w][k] = "pushed" /\ UNCHANGED <<has_tensor, round>>
  BY Zenon DEF TypeOK, HandlePull, store
<1>2. CASE MayAnswer(w, GetThreadID(k), k)
  <2>1. SendPullResponse({w}, k)
    BY <1>2, Zenon DEF HandlePull
  <2>2. {w} \in SUBSET Worker /\ \A v \in {w} : phase[v][k] \in {"pushed", "waiting"}
    BY <1>1
  <2> QED BY <1>1, <2>1, <2>2, RefinesSend, Zenon
<1>3. CASE ~MayAnswer(w, GetThreadID(k), k)
  <2>1. phase' = [phase EXCEPT ![w][k] = "waiting"] /\ sending' = sending
    BY <1>3, Zenon DEF HandlePull
  <2>2. \A v \in Worker, j \in Key : Inside(v, j)' <=> Inside(v, j)
    BY <1>1, <2>1, Zenon DEF Inside
  <2> QED BY <1>1, <2>2, StutterStep, Zenon
<1> QED BY <1>2, <1>3, Zenon

\* Answering the parked pulls leaves their workers inside.
LEMMA RefinesEngineAllRecv ==
  ASSUME TypeOK, ServerInv, NEW t \in Thread, EngineAllRecv(t)
  PROVE  UNCHANGED Abstract!avars
<1>1. PICK k \in busy[t] :
        SendPullResponse({w \in Worker : q_pull_reqmeta[t][k][w] > 0 /\ w \notin seen_sender[t][k]}, k)
  BY ZenonT(60) DEF EngineAllRecv
<1> DEFINE S == {w \in Worker : q_pull_reqmeta[t][k][w] > 0 /\ w \notin seen_sender[t][k]}
<1>2. k \in Key /\ KeyInv(k) /\ UNCHANGED <<has_tensor, round>>
  BY Zenon DEF TypeOK, ServerInv, EngineAllRecv, store
<1>3. AllRecvPending(k) /\ hash_cache[k] = t
  BY <1>2, Zenon DEF AllRecvPending, KeyInv, RouteInv
<1>4. Pending(k)
  BY <1>2, <1>3 DEF KeyInv, Declaring, Training, Answering, Between, NoThread, Thread
<1>5. \A w \in S : phase[w][k] \in {"pushed", "waiting"}
  BY <1>4, Zenon DEF Pending
<1>6. S \in SUBSET Worker /\ SendPullResponse(S, k)
  BY <1>1, Zenon
<1> HIDE DEF S
<1> QED BY <1>2, <1>5, <1>6, RefinesSend, Zenon

\* The end of an answer is a Return: the round of an idle worker is complete.
LEMMA RefinesReadLast ==
  ASSUME TypeOK, ServerInv, SendingInv, NEW w \in Worker, NEW k \in Key, ReadLast(w, k)
  PROVE  Abstract!ANext
<1>1. /\ sending \in [Worker -> [Key -> BOOLEAN]] /\ sending[w][k]
      /\ sending' = [sending EXCEPT ![w][k] = FALSE]
      /\ phase' = phase /\ UNCHANGED <<has_tensor, round>>
  BY Zenon DEF TypeOK, ReadLast, store
<1>2. phase[w][k] = "idle" /\ Inside(w, k)
  BY <1>1, Zenon DEF SendingInv, Inside
<1>3. \A v \in Worker : round[v][k] >= round[w][k]
  BY <1>2, BarrierFromInv, Zenon DEF RoundBarrier
<1>4. \A v \in Worker, j \in Key : sending'[v][j] = IF v = w /\ j = k THEN FALSE ELSE sending[v][j]
  BY <1>1, Zenon
<1>5. \A v \in Worker, j \in Key : Inside(v, j)' <=> Inside(v, j) /\ ~(v = w /\ j = k)
  BY <1>1, <1>2, <1>4 DEF Inside
<1> QED BY <1>1, <1>2, <1>3, <1>5, ReturnStep

\* Every step of BytePSHandler, of an engine thread and of the transport
\* (server.cc:57-469) is a step of the push_pull barrier or leaves it unchanged, for
\* every value of the constants.
THEOREM Refinement == Spec => ImplementsPushPull
<1>1. TypeOK /\ ServerInv /\ SendingInv /\ [Next]_vars => [Abstract!ANext]_(Abstract!avars)
  <2> SUFFICES ASSUME TypeOK, ServerInv, SendingInv, [Next]_vars
               PROVE  [Abstract!ANext]_(Abstract!avars)
    BY Zenon
  <2>1. ASSUME UNCHANGED <<phase, round, sending, has_tensor>>
        PROVE  [Abstract!ANext]_(Abstract!avars)
    BY <2>1, StutterStep, Zenon DEF Inside
  <2>2. ASSUME NEW w \in Worker, NEW k \in Key,
               HandleInitPush(w, k) \/ HandlePush(w, k) \/ HandlePull(w, k)
        PROVE  [Abstract!ANext]_(Abstract!avars)
    BY <2>2, RefinesHandleInitPush, RefinesHandlePush, RefinesHandlePull, SMTT(30), ZenonT(60)
  <2>3. ASSUME NEW t \in Thread, EngineThread(t)
        PROVE  [Abstract!ANext]_(Abstract!avars)
    BY <2>1, <2>3, RefinesEngineAllRecv, Zenon
       DEF EngineThread, EngineCopyFirst, EngineSumRecv, EngineReduce, client
  <2>4. CASE UNCHANGED vars
    BY <2>1, <2>4, Zenon DEF vars, client, store
  <2>5. ASSUME NEW w \in Worker, NEW k \in Key, ReadElements(w, k) \/ ReadLast(w, k)
        PROVE  [Abstract!ANext]_(Abstract!avars)
    BY <2>1, <2>5, RefinesReadLast, Zenon DEF ReadElements, store
  <2> QED BY <2>2, <2>3, <2>4, <2>5, Zenon DEF Next, Handler, Transport, Terminated
<1> QED BY <1>1, RefinesInit, TypeCorrect, ServerInvariant, SendingInvariant, PTL
        DEF Spec, ImplementsPushPull, Abstract!ASpec
=============================================================================
