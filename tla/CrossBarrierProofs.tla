-------------------------- MODULE CrossBarrierProofs --------------------------
(***************************************************************************)
(* Proofs about the cross barrier: CrossInv is inductive, and with it the  *)
(* properties of CrossBarrier hold for every set of parameters, every      *)
(* number of steps and every number of backward passes per step.           *)
(***************************************************************************)
EXTENDS CrossBarrierInv, TLAPS

\* An event of the queue or of the poller is the end marker or has a parameter and a
\* positive handle.
LEMMA EventKinds ==
  ASSUME CrossAssumption
  PROVE  /\ \A e \in Events : e # Sentinel /\ e[1] \in Param /\ e[2] \in Nat \ {0} /\ e = <<e[1], e[2]>>
         /\ Sentinel[1] = NoParam /\ Sentinel[2] = 0
BY DEF CrossAssumption, Events, Sentinel

\* A function with one value replaced by another of its range is of its type.
LEMMA Override ==
  ASSUME NEW S, NEW T, NEW f \in [S -> T], NEW x \in S, NEW v \in T
  PROVE  [f EXCEPT ![x] = v] \in [S -> T]
BY Zenon

\* The types survive every step of the training thread.
LEMMA TrainerType ==
  ASSUME CrossAssumption, CrossTypeOK, TrainerInv, EventInv, Trainer
  PROVE  CrossTypeOK'
<1> USE DEF CrossTypeOK, shared, thread, history
<1>1. CASE StepZero
  BY <1>1, Zenon DEF StepZero
<1>2. CASE CallModel
  BY <1>2, Zenon DEF CallModel
<1>3. CASE EndBackward
  BY <1>3 DEF EndBackward, CrossAssumption
<1>4. CASE Synchronize
  BY <1>4, Zenon DEF Synchronize, Unpushed
<1>5. CASE Step
  BY <1>5 DEF Step
<1>6. ASSUME NEW p \in Param, PreForwardHook(p)
      PROVE  CrossTypeOK'
  BY <1>6, Zenon DEF PreForwardHook
<1>7. ASSUME NEW p \in Param, Hook(p)
      PROVE  CrossTypeOK'
  <2>1. /\ grad' \in [Param -> Gradients]
        /\ computed' \in [Param -> Gradients]
    BY <1>7 DEF Hook, Gradients
  <2>2. delay' \in [Param -> Int]
    BY <1>7 DEF Hook
  <2>3. handles' \in [Param -> SUBSET Nat]
    <3>1. {0} \in SUBSET Nat
      OBVIOUS
    <3>2. handles' = handles \/ handles' = [handles EXCEPT ![p] = {0}]
      BY <1>7, Zenon DEF Hook
    <3>3. [handles EXCEPT ![p] = {0}] \in [Param -> SUBSET Nat]
      BY <3>1, Override, Zenon
    <3> QED
      BY <3>2, <3>3, Zenon
  <2> QED
    BY <1>7, <2>1, <2>2, <2>3, Zenon DEF Hook
<1>8. CASE PushPullGradAsync
  <2>1. param \in Param
    BY <1>8, Zenon DEF PushPullGradAsync, TrainerInv
  <2> QED
    BY <1>8, <2>1 DEF PushPullGradAsync
<1>9. CASE PutEvent
  <2>1. param \in Param
    BY <1>9, Zenon DEF PutEvent, TrainerInv
  <2>2. Len(results) \in Nat
    OBVIOUS
  <2>3. Len(results) # 0
    BY <1>9 DEF PutEvent, EventInv, UnderWay, StartedEvent
  <2>4. event_queue' \in Seq(Events \cup {Sentinel})
    <3>1. <<param, Len(results)>> \in Events
      BY <2>1, <2>2, <2>3, Zenon DEF Events
    <3> QED
      BY <1>9, <3>1 DEF PutEvent
  <2>5. handles' \in [Param -> SUBSET Nat]
    <3>1. {Len(results)} \in SUBSET Nat
      BY <2>2, Zenon
    <3>2. handles' = [handles EXCEPT ![param] = {Len(results)}]
      BY <1>9, Zenon DEF PutEvent
    <3>3. [handles EXCEPT ![param] = {Len(results)}] \in [Param -> SUBSET Nat]
      BY <2>1, <3>1, Override, Zenon
    <3> QED
      BY <3>2, <3>3, Zenon
  <2> QED
    BY <1>9, <2>4, <2>5, Zenon DEF PutEvent
<1>10. CASE Drained
  BY <1>10, Zenon DEF Drained
<1>11. CASE PutSentinel
  BY <1>11 DEF PutSentinel
<1>12. CASE Join
  BY <1>12 DEF Join
<1> QED
  BY <1>1, <1>2, <1>3, <1>4, <1>5, <1>6, <1>7, <1>8, <1>9, <1>10, <1>11, <1>12, Zenon DEF Trainer

\* The types survive every step of the poller and the end of a push_pull.
LEMMA PollType ==
  ASSUME CrossAssumption, CrossTypeOK, EventInv, Poll \/ \E h \in DOMAIN results : MarkDone(h)
  PROVE  CrossTypeOK'
<1> USE DEF CrossTypeOK, trainer, history
<1>1. CASE GetEvent
  <2>1. event_queue # <<>>
    BY <1>1, Zenon DEF GetEvent
  <2>2. /\ Head(event_queue) \in Events \cup {Sentinel}
        /\ Tail(event_queue) \in Seq(Events \cup {Sentinel})
    BY <2>1
  <2> QED
    BY <1>1, <2>2, Zenon DEF GetEvent
<1>2. CASE PutBack
  BY <1>2 DEF PutBack
<1>3. CASE ApplyUpdate
  <2>1. event[1] \in Param /\ event[2] \in 1..Len(results)
    BY <1>3, Zenon DEF ApplyUpdate, EventInv, Working
  <2>2. results' \in Seq({"pending", "done", "cleared"}) /\ Len(results') = Len(results)
    BY <1>3, <2>1 DEF ApplyUpdate
  <2>3. delay' \in [Param -> Int]
    BY <1>3, <2>1 DEF ApplyUpdate, ResetDelay, CrossAssumption
  <2>4. updated' \in [Param -> Gradients]
    <3>1. grad[event[1]] \in Gradients /\ updated[event[1]] \in Gradients
      BY <2>1, Zenon
    <3>2. updated[event[1]] \cup grad[event[1]] \in Gradients
      BY <3>1, Zenon DEF Gradients
    <3> QED
      BY <1>3, <2>1, <3>2, Zenon DEF ApplyUpdate, Update
  <2> QED
    BY <1>3, <2>2, <2>3, <2>4, Zenon DEF ApplyUpdate
<1>4. CASE Release
  <2>1. {} \in Gradients
    BY Zenon DEF Gradients
  <2>2. event[1] \in Param
    BY <1>4, Zenon DEF Release, EventInv, Working
  <2>3. grad' \in [Param -> Gradients]
    BY <1>4, <2>1, <2>2, Override, Zenon DEF Release, ZeroOneGrad
  <2> QED
    BY <1>4, <2>3, Zenon DEF Release
<1>5. ASSUME NEW h \in DOMAIN results, MarkDone(h)
      PROVE  CrossTypeOK'
  BY <1>5 DEF MarkDone, thread
<1> QED
  BY <1>1, <1>2, <1>3, <1>4, <1>5, Zenon DEF Poll

\* What TrainerInv says survives every step of the training thread: a hook pushes in the
\* last pass only, since its delay covers the passes to come.
LEMMA TrainerNext ==
  ASSUME CrossAssumption, CrossInv, Trainer
  PROVE  TrainerInv'
<1> USE DEF CrossTypeOK, TrainerInv, CrossInv, Unpushed
<1>1. CASE StepZero
  BY <1>1 DEF StepZero, CrossAssumption
<1>2. CASE CallModel
  BY <1>2, Zenon DEF CallModel
<1>3. CASE EndBackward
  BY <1>3, Zenon DEF EndBackward
<1>4. CASE Synchronize
  BY <1>4, Zenon DEF Synchronize
<1>5. CASE Step
  BY <1>5 DEF Step, CrossAssumption
<1>6. ASSUME NEW p \in Param, PreForwardHook(p)
      PROVE  TrainerInv'
  BY <1>6, Zenon DEF PreForwardHook
<1>7. ASSUME NEW p \in Param, Hook(p)
      PROVE  TrainerInv'
  <2>1. BackwardAhead(p) /\ pc = "backward" /\ p \in bwd
    BY <1>7, Zenon DEF Hook, BackwardAhead
  <2>2. p \notin locks /\ handles[p] = {}
    BY <2>1, Zenon DEF GradientInv
  <2>3. delay[p] >= Passes - pass + 1
    BY <2>1, <2>2, Zenon DEF DelayInv, PassesAhead
  <2>4. PushNow(p) => pass = Passes
    BY <2>3 DEF PushNow, CrossAssumption
  <2> QED
    BY <1>7, <2>1, <2>2, <2>4, Zenon DEF Hook
<1>8. CASE PushPullGradAsync
  BY <1>8, Zenon DEF PushPullGradAsync
<1>9. CASE PutEvent
  <2>1. starting' = "no" /\ UNCHANGED <<pc, step, pass, bwd>>
    BY <1>9, Zenon DEF PutEvent
  <2>2. pc \notin {"drain", "finish", "join", "done"}
    BY <1>9, Zenon DEF PutEvent
  <2> QED
    BY <2>1, <2>2, Zenon
<1>10. CASE Drained
  BY <1>10, Zenon DEF Drained
<1>11. CASE PutSentinel
  BY <1>11, Zenon DEF PutSentinel
<1>12. CASE Join
  BY <1>12, Zenon DEF Join
<1> HIDE DEF CrossTypeOK, TrainerInv, CrossInv, Unpushed
<1> QED
  BY <1>1, <1>2, <1>3, <1>4, <1>5, <1>6, <1>7, <1>8, <1>9, <1>10, <1>11, <1>12, Zenon DEF Trainer

\* The poller leaves the state of the training thread alone.
LEMMA PollTrainer ==
  ASSUME TrainerInv, Poll \/ \E h \in DOMAIN results : MarkDone(h)
  PROVE  TrainerInv'
<1>1. UNCHANGED <<trainer, handles>>
  BY Zenon DEF Poll, GetEvent, PutBack, ApplyUpdate, Release, MarkDone
<1> QED
  BY <1>1, Zenon DEF TrainerInv, trainer, Unpushed

\* The entries of the queue are end markers or events.
LEMMA QueueKinds ==
  ASSUME CrossAssumption, CrossTypeOK
  PROVE  \A i \in 1..Len(event_queue) :
           /\ event_queue[i] # Sentinel => event_queue[i][1] \in Param /\ event_queue[i][2] # 0
           /\ event_queue[i] = Sentinel => event_queue[i][1] = NoParam /\ event_queue[i][2] = 0
<1>1. \A i \in 1..Len(event_queue) : event_queue[i] \in Events \cup {Sentinel}
  BY DEF CrossTypeOK
<1> QED
  BY <1>1, EventKinds, Zenon

\* The events and the locks are not concerned by a step that leaves them, the gradients
\* and the poller alone and puts no event.
LEMMA EventFrame ==
  ASSUME EventInv, LockInv,
         UNCHANGED <<event_queue, locks, results, grad, pushed, poller, event>>,
         (starting' = "put") = (starting = "put"),
         starting = "put" => param' = param
  PROVE  EventInv' /\ LockInv'
<1>1. EventInv'
  BY DEF EventInv, Working, UnderWay, StartedEvent, Apart
<1>2. LockInv'
  BY Zenon DEF LockInv, Working
<1> QED
  BY <1>1, <1>2, Zenon

\* A hook writes a gradient of a parameter that has no event.
LEMMA EventHook ==
  ASSUME CrossAssumption, CrossInv, NEW p \in Param, Hook(p)
  PROVE  EventInv' /\ LockInv'
<1> USE DEF CrossInv
<1>1. p \notin locks
  BY Zenon DEF Hook, GradientInv, BackwardAhead
<1>2. /\ UNCHANGED <<event_queue, locks, results, pushed, poller, event>>
      /\ starting # "put" /\ starting' # "put"
  BY Zenon DEF Hook, thread
<1>3. \A q \in locks : grad'[q] = grad[q]
  BY <1>1, Zenon DEF Hook, CrossTypeOK
<1>4. EventInv'
  BY <1>2, <1>3 DEF EventInv, Working, UnderWay, Apart
<1>5. LockInv'
  BY <1>2, Zenon DEF LockInv, Working
<1> QED
  BY <1>4, <1>5, Zenon

\* The handle and the lock that _push_pull_grad_async takes are those of no other event.
LEMMA EventPushPullGradAsync ==
  ASSUME CrossAssumption, CrossInv, PushPullGradAsync
  PROVE  EventInv' /\ LockInv'
<1> USE DEF CrossInv
<1>1. param \in Param /\ param \notin locks /\ starting # "put"
  BY Zenon DEF PushPullGradAsync, TrainerInv
<1>2. /\ UNCHANGED <<event_queue, grad, poller, event, param>>
      /\ starting' = "put"
      /\ locks' = locks \cup {param}
  BY Zenon DEF PushPullGradAsync, thread
<1>3. /\ Len(results) \in Nat
      /\ Len(results') = Len(results) + 1
      /\ \A h \in 1..Len(results) : results'[h] = results[h] /\ pushed'[h] = pushed[h]
      /\ results'[Len(results')] = "pending"
      /\ pushed'[Len(results')] = grad[param]
  BY DEF PushPullGradAsync, CrossTypeOK
<1>4. EventInv'
  BY <1>1, <1>2, <1>3 DEF EventInv, Working, UnderWay, StartedEvent, Apart
<1>5. LockInv'
  BY <1>1, <1>2, Zenon DEF LockInv, Working
<1> QED
  BY <1>4, <1>5, Zenon

\* The event that _push_pull_grad_async puts is the only one of its parameter.
LEMMA EventPutEvent ==
  ASSUME CrossAssumption, CrossInv, PutEvent
  PROVE  EventInv' /\ LockInv'
<1> USE DEF CrossInv
<1>1. param \in Param /\ starting = "put"
  BY Zenon DEF PutEvent, TrainerInv
<1>2. /\ UNCHANGED <<locks, results, grad, pushed, poller, event, param>>
      /\ starting' = "no"
  BY Zenon DEF PutEvent, thread, history
<1>3. /\ Len(event_queue) \in Nat
      /\ Len(event_queue') = Len(event_queue) + 1
      /\ \A i \in 1..Len(event_queue) : event_queue'[i] = event_queue[i]
      /\ event_queue'[Len(event_queue')] = <<param, Len(results)>>
  BY DEF PutEvent, CrossTypeOK
<1>4. \A i \in 1..Len(event_queue) : Apart(event_queue[i], <<param, Len(results)>>)
  <2>1. NoParam # param /\ Len(results) # 0
    BY <1>1 DEF CrossAssumption, EventInv, UnderWay, StartedEvent
  <2> QED
    BY <1>1, <2>1, QueueKinds, Zenon DEF EventInv, Apart, StartedEvent
<1>5. EventInv'
  <2>1. ASSUME NEW i \in 1..Len(event_queue'), event_queue'[i] # Sentinel
        PROVE  /\ UnderWay(event_queue[i])'
               /\ \A j \in 1..Len(event_queue') : i # j => Apart(event_queue'[i], event_queue'[j])
               /\ Working' => Apart(event_queue'[i], event')
    <3>1. CASE i \in 1..Len(event_queue)
      <4>1. event_queue'[i] = event_queue[i] /\ event_queue[i] # Sentinel
        BY <1>3, <2>1, <3>1, Zenon
      <4>2. UnderWay(event_queue[i])'
        BY <1>2, <3>1, <4>1, Zenon DEF EventInv, UnderWay
      <4>3. \A j \in 1..Len(event_queue') : i # j => Apart(event_queue'[i], event_queue'[j])
        BY <1>3, <1>4, <3>1, <4>1 DEF EventInv
      <4>4. Working' => Apart(event_queue'[i], event')
        BY <1>2, <3>1, <4>1, Zenon DEF EventInv, Working
      <4> QED
        BY <4>2, <4>3, <4>4, Zenon
    <3>2. CASE i = Len(event_queue')
      <4>1. event_queue'[i] = <<param, Len(results)>>
        BY <1>3, <3>2, Zenon
      <4>2. UnderWay(event_queue[i])'
        BY <1>1, <1>2, <4>1, Zenon DEF EventInv, UnderWay, StartedEvent
      <4>3. \A j \in 1..Len(event_queue') : i # j => Apart(event_queue'[i], event_queue'[j])
        BY <1>3, <1>4, <3>2, <4>1 DEF Apart
      <4>4. Working' => Apart(event_queue'[i], event')
        BY <1>1, <1>2, <4>1, Zenon DEF EventInv, Working, Apart, StartedEvent
      <4> QED
        BY <4>2, <4>3, <4>4, Zenon
    <3> QED
      BY <1>3, <3>1, <3>2
  <2> QED
    BY <1>1, <1>2, <2>1, Zenon DEF EventInv, Working, UnderWay, Apart
<1>6. LockInv'
  BY <1>1, <1>2, <1>3 DEF LockInv, Working
<1> QED
  BY <1>5, <1>6, Zenon

\* The end marker is no event.
LEMMA EventPutSentinel ==
  ASSUME CrossAssumption, CrossInv, PutSentinel
  PROVE  EventInv' /\ LockInv'
<1> USE DEF CrossInv
<1>1. starting = "no" /\ starting' = "no"
  BY Zenon DEF PutSentinel, TrainerInv, CrossTypeOK
<1>2. UNCHANGED <<locks, results, grad, pushed, poller, event, param>>
  BY Zenon DEF PutSentinel, thread, history
<1>3. /\ Len(event_queue) \in Nat
      /\ Len(event_queue') = Len(event_queue) + 1
      /\ \A i \in 1..Len(event_queue) : event_queue'[i] = event_queue[i]
      /\ event_queue'[Len(event_queue')] = Sentinel
  BY DEF PutSentinel, CrossTypeOK
<1>4. \A i \in 1..Len(event_queue) : event_queue[i] # Sentinel => Apart(event_queue[i], Sentinel)
  BY QueueKinds, EventKinds, Zenon DEF CrossAssumption, Apart
<1>5. EventInv'
  <2>1. ASSUME NEW i \in 1..Len(event_queue'), event_queue'[i] # Sentinel
        PROVE  /\ UnderWay(event_queue[i])'
               /\ \A j \in 1..Len(event_queue') : i # j => Apart(event_queue'[i], event_queue'[j])
               /\ Working' => Apart(event_queue'[i], event')
    <3>1. i \in 1..Len(event_queue) /\ event_queue'[i] = event_queue[i]
      BY <1>3, <2>1
    <3>2. /\ UnderWay(event_queue[i])
          /\ \A j \in 1..Len(event_queue) : i # j => Apart(event_queue[i], event_queue[j])
          /\ Working => Apart(event_queue[i], event)
      BY <2>1, <3>1, Zenon DEF EventInv
    <3>3. \A j \in 1..Len(event_queue') : j \in 1..Len(event_queue) \/ event_queue'[j] = Sentinel
      BY <1>3
    <3>4. \A j \in 1..Len(event_queue') : i # j => Apart(event_queue'[i], event_queue'[j])
      BY <1>3, <1>4, <2>1, <3>1, <3>2, <3>3, Zenon
    <3> QED BY <1>2, <3>1, <3>2, <3>4, Zenon DEF Working, UnderWay
  <2> QED
    BY <1>1, <1>2, <2>1, Zenon DEF EventInv, Working, UnderWay, Apart
<1>6. LockInv'
  BY <1>1, <1>2, <1>3 DEF LockInv, Working
<1> QED
  BY <1>5, <1>6, Zenon

\* A push_pull that is done is not cleared.
LEMMA EventMarkDone ==
  ASSUME CrossAssumption, CrossInv, NEW h \in DOMAIN results, MarkDone(h)
  PROVE  EventInv' /\ LockInv'
<1> USE DEF CrossInv
<1>1. UNCHANGED <<event_queue, locks, grad, pushed, poller, event, starting, param>>
  BY Zenon DEF MarkDone, trainer, thread, history
<1>2. /\ Len(results') = Len(results)
      /\ \A g \in 1..Len(results) : results[g] # "cleared" => results'[g] # "cleared"
  BY DEF MarkDone, CrossTypeOK
<1>3. EventInv'
  BY <1>1, <1>2 DEF EventInv, Working, UnderWay, StartedEvent, Apart
<1>4. LockInv'
  BY <1>1, Zenon DEF LockInv, Working
<1> QED
  BY <1>3, <1>4, Zenon

\* The poller takes the first event of the queue, or the end marker.
LEMMA EventGetEvent ==
  ASSUME CrossAssumption, CrossInv, GetEvent
  PROVE  EventInv' /\ LockInv'
<1> USE DEF CrossInv
<1>1. UNCHANGED <<locks, results, grad, pushed, starting, param>>
  BY Zenon DEF GetEvent, trainer, history
<1>2. /\ Len(event_queue) \in Nat \ {0}
      /\ Len(event_queue') = Len(event_queue) - 1
      /\ \A i \in 1..Len(event_queue') : event_queue'[i] = event_queue[i + 1]
      /\ event' = event_queue[1]
  BY DEF GetEvent, CrossTypeOK
<1>3. /\ ~Working
      /\ Working' <=> event_queue[1] # Sentinel
      /\ poller' # "release"
      /\ poller' = "poll" => event_queue[1] # Sentinel
  BY <1>2, Zenon DEF GetEvent, Working, CrossTypeOK
<1>4. EventInv'
  <2>1. ASSUME NEW i \in 1..Len(event_queue'), event_queue'[i] # Sentinel
        PROVE  /\ UnderWay(event_queue[i])'
               /\ \A j \in 1..Len(event_queue') : i # j => Apart(event_queue'[i], event_queue'[j])
               /\ Working' => Apart(event_queue'[i], event')
               /\ starting' = "put" => Apart(event_queue'[i], StartedEvent')
    <3>1. /\ i + 1 \in 1..Len(event_queue) /\ i + 1 # 1
          /\ event_queue'[i] = event_queue[i + 1]
          /\ event_queue[i + 1] # Sentinel
      BY <1>2, <2>1
    <3>2. UnderWay(event_queue[i])'
      BY <1>1, <3>1, Zenon DEF EventInv, UnderWay
    <3>3. \A j \in 1..Len(event_queue') : i # j => Apart(event_queue'[i], event_queue'[j])
      <4>1. ASSUME NEW j \in 1..Len(event_queue'), i # j
            PROVE  Apart(event_queue[i + 1], event_queue'[j])
        <5>1. /\ j + 1 \in 1..Len(event_queue) /\ i + 1 # j + 1
              /\ event_queue'[j] = event_queue[j + 1]
          BY <1>2, <4>1
        <5>2. Apart(event_queue[i + 1], event_queue[j + 1])
          BY <3>1, <5>1, Zenon DEF EventInv
        <5> QED
          BY <5>1, <5>2, Zenon
      <4> QED
        BY <3>1, <4>1, Zenon
    <3>4. Apart(event_queue'[i], event')
      <4>1. 1 \in 1..Len(event_queue)
        BY <1>2
      <4> QED
        BY <1>2, <3>1, <4>1, Zenon DEF EventInv
    <3>5. starting' = "put" => Apart(event_queue'[i], StartedEvent')
      BY <1>1, <3>1, Zenon DEF EventInv, StartedEvent
    <3> QED
      BY <3>2, <3>3, <3>4, <3>5, Zenon
  <2>2. Working' => /\ UnderWay(event)'
                    /\ starting' = "put" => Apart(event', StartedEvent')
    <3>1. 1 \in 1..Len(event_queue)
      BY <1>2
    <3>2. Working' => UnderWay(event_queue[1]) /\ (starting = "put" => Apart(event_queue[1], StartedEvent))
      BY <1>3, <3>1, Zenon DEF EventInv
    <3> QED
      BY <1>1, <1>2, <3>2, Zenon DEF UnderWay, StartedEvent
  <2>3. starting' = "put" => UnderWay(StartedEvent)'
    BY <1>1, Zenon DEF EventInv, UnderWay, StartedEvent
  <2> QED
    BY <2>1, <2>2, <2>3, Zenon DEF EventInv, UnderWay, Working
<1>5. LockInv'
  <2>1. ASSUME NEW p \in locks
        PROVE  \/ \E i \in 1..Len(event_queue') : event_queue'[i][1] = p
               \/ Working' /\ event'[1] = p
               \/ starting' = "put" /\ param' = p
    <3>1. ASSUME NEW i \in 1..Len(event_queue), event_queue[i][1] = p
          PROVE  \/ \E j \in 1..Len(event_queue') : event_queue'[j][1] = p
                 \/ Working' /\ event'[1] = p
      <4>1. CASE i = 1
        <5>1. event_queue[1] # Sentinel
          <6>1. p \in Param /\ p # NoParam
            BY Zenon DEF CrossTypeOK, CrossAssumption
          <6> QED
            BY <3>1, <4>1, <6>1, EventKinds, Zenon
        <5> QED
          BY <1>2, <1>3, <3>1, <4>1, <5>1, Zenon
      <4>2. CASE i # 1
        <5>1. i - 1 \in 1..Len(event_queue') /\ event_queue'[i - 1] = event_queue[i]
          BY <1>2, <4>2
        <5> QED
          BY <3>1, <5>1, Zenon
      <4> QED
        BY <4>1, <4>2, Zenon
    <3> QED
      BY <1>1, <1>3, <3>1, Zenon DEF LockInv
  <2> QED
    BY <1>1, <2>1, Zenon DEF LockInv
<1> QED
  BY <1>4, <1>5, Zenon

\* The poller puts back the event it took.
LEMMA EventPutBack ==
  ASSUME CrossAssumption, CrossInv, PutBack
  PROVE  EventInv' /\ LockInv'
<1> USE DEF CrossInv
<1>1. UNCHANGED <<locks, results, grad, pushed, starting, param, event>>
  BY Zenon DEF PutBack, trainer, history
<1>2. /\ Len(event_queue) \in Nat
      /\ Len(event_queue') = Len(event_queue) + 1
      /\ \A i \in 1..Len(event_queue) : event_queue'[i] = event_queue[i]
      /\ event_queue'[Len(event_queue')] = event
  BY DEF PutBack, CrossTypeOK
<1>3. Working /\ poller = "poll" /\ ~Working' /\ poller' # "poll"
  BY Zenon DEF PutBack, Working
<1>4. event[1] \in Param /\ event[2] # 0
  BY <1>3 DEF EventInv, CrossTypeOK
<1>5. \A i \in 1..Len(event_queue) : Apart(event_queue[i], event)
  BY <1>3, <1>4, QueueKinds, Zenon DEF EventInv, Apart, CrossAssumption
<1>6. EventInv'
  <2>1. ASSUME NEW i \in 1..Len(event_queue'), event_queue'[i] # Sentinel
        PROVE  /\ UnderWay(event_queue[i])'
               /\ \A j \in 1..Len(event_queue') : i # j => Apart(event_queue'[i], event_queue'[j])
               /\ starting' = "put" => Apart(event_queue'[i], StartedEvent')
    <3>1. CASE i \in 1..Len(event_queue)
      <4>1. event_queue'[i] = event_queue[i] /\ event_queue[i] # Sentinel
        BY <1>2, <2>1, <3>1, Zenon
      <4>2. UnderWay(event_queue[i])'
        BY <1>1, <3>1, <4>1, Zenon DEF EventInv, UnderWay
      <4>3. \A j \in 1..Len(event_queue') : i # j => Apart(event_queue'[i], event_queue'[j])
        BY <1>2, <1>5, <3>1, <4>1 DEF EventInv
      <4>4. starting' = "put" => Apart(event_queue'[i], StartedEvent')
        BY <1>1, <3>1, <4>1, Zenon DEF EventInv, StartedEvent
      <4> QED
        BY <4>2, <4>3, <4>4, Zenon
    <3>2. CASE i = Len(event_queue')
      <4>1. event_queue'[i] = event
        BY <1>2, <3>2, Zenon
      <4>2. UnderWay(event_queue[i])'
        BY <1>1, <1>3, <4>1, Zenon DEF EventInv, UnderWay
      <4>3. \A j \in 1..Len(event_queue') : i # j => Apart(event_queue'[i], event_queue'[j])
        BY <1>2, <1>5, <3>2, <4>1 DEF Apart
      <4>4. starting' = "put" => Apart(event_queue'[i], StartedEvent')
        BY <1>1, <1>3, <4>1, Zenon DEF EventInv, StartedEvent
      <4> QED
        BY <4>2, <4>3, <4>4, Zenon
    <3> QED
      BY <1>2, <3>1, <3>2
  <2>2. starting' = "put" => UnderWay(StartedEvent)'
    BY <1>1, Zenon DEF EventInv, UnderWay, StartedEvent
  <2> QED
    BY <1>3, <2>1, <2>2, Zenon DEF EventInv
<1>7. LockInv'
  BY <1>1, <1>2, <1>3 DEF LockInv
<1> QED
  BY <1>6, <1>7, Zenon

\* The handle that the poller clears and the lock it releases are those of no other event.
LEMMA EventApplyUpdate ==
  ASSUME CrossAssumption, CrossInv, ApplyUpdate
  PROVE  EventInv' /\ LockInv'
<1> USE DEF CrossInv
<1>1. UNCHANGED <<event_queue, locks, grad, pushed, starting, param, event>>
  BY Zenon DEF ApplyUpdate, trainer
<1>2. Working /\ Working' /\ poller' # "poll"
  BY Zenon DEF ApplyUpdate, Working
<1>3. /\ Len(results') = Len(results)
      /\ \A h \in 1..Len(results) : h # event[2] => results'[h] = results[h]
  BY <1>2 DEF ApplyUpdate, CrossTypeOK, EventInv
<1>4. EventInv'
  <2>1. ASSUME NEW i \in 1..Len(event_queue), event_queue[i] # Sentinel
        PROVE  /\ UnderWay(event_queue[i])'
               /\ Apart(event_queue[i], event)
    <3>1. UnderWay(event_queue[i]) /\ Apart(event_queue[i], event)
      BY <1>2, <2>1, Zenon DEF EventInv
    <3> QED
      BY <1>1, <1>3, <3>1, Zenon DEF UnderWay, Apart
  <2>2. starting = "put" => UnderWay(StartedEvent)'
    <3>1. starting = "put" => UnderWay(StartedEvent) /\ Apart(event, StartedEvent)
      BY <1>2, Zenon DEF EventInv
    <3> QED
      BY <1>1, <1>3, <3>1, Zenon DEF UnderWay, Apart, StartedEvent
  <2>3. StartedEvent' = StartedEvent
    BY <1>1, <1>3, Zenon DEF StartedEvent
  <2> QED
    BY <1>1, <1>2, <1>3, <2>1, <2>2, <2>3, Zenon DEF EventInv
<1>5. LockInv'
  BY <1>1, <1>2, Zenon DEF LockInv
<1> QED
  BY <1>4, <1>5, Zenon

\* Releasing the lock ends the event of the poller.
LEMMA EventRelease ==
  ASSUME CrossAssumption, CrossInv, Release
  PROVE  EventInv' /\ LockInv'
<1> USE DEF CrossInv
<1>1. UNCHANGED <<event_queue, results, pushed, starting, param, event>>
  BY Zenon DEF Release, trainer, history
<1>2. Working /\ ~Working' /\ poller' # "poll"
  BY Zenon DEF Release, Working
<1>3. /\ locks' = locks \ {event[1]}
      /\ \A p \in locks' : grad'[p] = grad[p]
  BY Zenon DEF Release, ZeroOneGrad, CrossTypeOK
<1>4. EventInv'
  BY <1>1, <1>2, <1>3 DEF EventInv, UnderWay, StartedEvent, Apart
<1>5. LockInv'
  BY <1>1, <1>2, <1>3, ZenonT(60) DEF LockInv
<1> QED
  BY <1>4, <1>5, Zenon

\* The first step begins without a gradient.
LEMMA ParamStepZero ==
  ASSUME CrossAssumption, CrossInv, StepZero, NEW q \in Param
  PROVE  GradientInv(q)' /\ DelayInv(q)'
<1> USE DEF CrossInv
<1>1. /\ pc = "init" /\ pc' = "batch" /\ step = 0 /\ step' = 1
      /\ UNCHANGED <<pass, fwd, bwd, starting, param, handles, delay, locks, grad, poller, event, computed, updated>>
  BY Zenon DEF StepZero, TrainerInv, shared, thread, history
<1>2. computed[q] = {} /\ grad[q] = {} /\ updated[q] = {}
  <2>1. \A c \in computed[q] : c[1] \in 1..0
    BY <1>1, Zenon DEF GradientInv
  <2>2. computed[q] = {}
    BY <2>1
  <2> QED
    BY <2>2 DEF GradientInv
<1>3. GradientInv(q)'
  BY <1>1, <1>2, ZenonT(60) DEF GradientInv, BackwardAhead, HookAhead, Releasing
<1>4. DelayInv(q)'
  BY <1>1, <1>2 DEF DelayInv, PassesAhead, Releasing, TrainerInv, CrossAssumption
<1> QED
  BY <1>3, <1>4, Zenon

\* A forward pass begins: every module of it has still to run.
LEMMA ParamCallModel ==
  ASSUME CrossAssumption, CrossInv, CallModel, NEW q \in Param
  PROVE  GradientInv(q)' /\ DelayInv(q)'
<1> USE DEF CrossInv
<1>1. /\ pc = "batch" /\ pc' = "forward" /\ fwd' = bwd'
      /\ UNCHANGED <<step, pass, starting, param, handles, delay, locks, grad, poller, event, computed, updated>>
  BY Zenon DEF CallModel, shared, thread, history
<1>2. GradientInv(q)'
  BY <1>1 DEF GradientInv, BackwardAhead, HookAhead, Releasing
<1>3. DelayInv(q)'
  BY <1>1, ZenonT(60) DEF DelayInv, PassesAhead, Releasing
<1> QED
  BY <1>2, <1>3, Zenon

\* The forward pass of p has waited for the lock of p.
LEMMA ParamPreForwardHook ==
  ASSUME CrossAssumption, CrossInv, NEW p \in Param, PreForwardHook(p), NEW q \in Param
  PROVE  GradientInv(q)' /\ DelayInv(q)'
<1> USE DEF CrossInv
<1>1. /\ pc = "forward" /\ pc' \in {"forward", "backward"}
      /\ p \in fwd /\ p \notin locks
      /\ fwd' = fwd \ {p}
      /\ pc' = "backward" => fwd' = {}
      /\ UNCHANGED <<step, pass, bwd, starting, param, delay, locks, grad, poller, event, computed, updated>>
  BY Zenon DEF PreForwardHook, shared, thread, history
<1>2. handles'[q] = IF q = p THEN {} ELSE handles[q]
  BY Zenon DEF PreForwardHook, CrossTypeOK
<1>3. GradientInv(q)'
  BY <1>1, <1>2 DEF GradientInv, BackwardAhead, HookAhead, Releasing
<1>4. DelayInv(q)'
  BY <1>1 DEF DelayInv, PassesAhead, Releasing, CrossTypeOK, CrossAssumption
<1> QED
  BY <1>3, <1>4, Zenon

\* The backward pass ends: another one of the step, or step().
LEMMA ParamEndBackward ==
  ASSUME CrossAssumption, CrossInv, EndBackward, NEW q \in Param
  PROVE  GradientInv(q)' /\ DelayInv(q)'
<1> USE DEF CrossInv
<1>1. /\ pc = "backward" /\ bwd = {}
      /\ \/ pc' = "batch" /\ pass < Passes /\ pass' = pass + 1
         \/ pc' = "step" /\ pass = Passes
      /\ UNCHANGED <<step, fwd, bwd, starting, param, handles, delay, locks, grad, poller, event, computed, updated>>
  BY DEF EndBackward, shared, thread, history, CrossTypeOK, CrossAssumption
<1>2. GradientInv(q)'
  BY <1>1 DEF GradientInv, BackwardAhead, HookAhead, Releasing
<1>3. DelayInv(q)'
  BY <1>1 DEF DelayInv, PassesAhead, Releasing, CrossTypeOK, CrossAssumption
<1> QED
  BY <1>2, <1>3, Zenon

\* step() chooses a parameter that has no event.
LEMMA ParamSynchronize ==
  ASSUME CrossAssumption, CrossInv, Synchronize, NEW q \in Param
  PROVE  GradientInv(q)' /\ DelayInv(q)'
<1> USE DEF CrossInv
<1>1. /\ starting = "no"
      /\ UNCHANGED <<pc, step, pass, fwd, bwd, handles, delay, locks, grad, poller, event, computed, updated>>
  BY Zenon DEF Synchronize, shared, thread, history
<1>2. GradientInv(q)'
  BY <1>1 DEF GradientInv, BackwardAhead, HookAhead, Releasing
<1>3. DelayInv(q)'
  BY <1>1, Zenon DEF DelayInv, PassesAhead, Releasing
<1> QED
  BY <1>2, <1>3, Zenon

\* step() is over: a gradient that is left is that of a locked parameter.
LEMMA NoGradientLeft ==
  ASSUME CrossInv, Unpushed = {}, NEW q \in Param, q \notin locks
  PROVE  grad[q] = {} /\ delay[q] = Passes
<1>1. ~(handles[q] \subseteq {0})
  BY Zenon DEF Unpushed
<1> QED
  BY <1>1, Zenon DEF CrossInv, GradientInv, DelayInv

\* step() keeps what is said of each parameter.
LEMMA ParamStep ==
  ASSUME CrossAssumption, CrossInv, Step, NEW q \in Param
  PROVE  GradientInv(q)' /\ DelayInv(q)'
<1> USE DEF CrossInv
<1>1. /\ pc = "step" /\ Unpushed = {} /\ starting = "no"
      /\ \/ pc' = "drain" /\ step' = step
         \/ pc' = "batch" /\ step' = step + 1
      /\ pass = 1
      /\ UNCHANGED <<pass, fwd, bwd, starting, param, handles, delay, locks, grad, poller, event, computed, updated>>
  BY Zenon DEF Step, shared, thread, history, TrainerInv
<1>2. q \notin locks => grad[q] = {} /\ delay[q] = Passes
  BY <1>1, NoGradientLeft, Zenon
<1>3. GradientInv(q)'
  BY <1>1, <1>2 DEF GradientInv, BackwardAhead, HookAhead, Releasing, CrossTypeOK
<1>4. DelayInv(q)'
  BY <1>1, <1>2 DEF DelayInv, PassesAhead, Releasing, CrossAssumption
<1> QED
  BY <1>3, <1>4, Zenon

\* The last step() waits, sends the end marker and joins the poller.
LEMMA ParamFinish ==
  ASSUME CrossAssumption, CrossInv, Drained \/ PutSentinel \/ Join, NEW q \in Param
  PROVE  GradientInv(q)' /\ DelayInv(q)'
<1> USE DEF CrossInv
<1>1. /\ pc \in {"drain", "finish", "join"} /\ pc' \in {"finish", "join", "done"}
      /\ step' \in {step, step + 1}
      /\ UNCHANGED <<pass, fwd, bwd, starting, param, handles, delay, locks, grad, poller, event, computed, updated>>
  BY Zenon DEF Drained, PutSentinel, Join, shared, thread, history
<1>2. q \notin locks => grad[q] = {} /\ delay[q] = Passes
  BY <1>1, NoGradientLeft, Zenon DEF TrainerInv
<1>3. GradientInv(q)'
  BY <1>1, <1>2 DEF GradientInv, BackwardAhead, HookAhead, Releasing, CrossTypeOK
<1>4. DelayInv(q)'
  BY <1>1, <1>2, ZenonT(60) DEF DelayInv, PassesAhead, Releasing, CrossAssumption
<1> QED
  BY <1>3, <1>4, Zenon

\* The hook of p adds a gradient of this step to gradients of this step, which no update
\* of this step has preceded, and pushes in the last pass.
LEMMA ParamHook ==
  ASSUME CrossAssumption, CrossInv, NEW p \in Param, Hook(p), NEW q \in Param
  PROVE  GradientInv(q)' /\ DelayInv(q)'
<1> USE DEF CrossInv
<1>1. /\ pc = "backward" /\ starting = "no" /\ p \in bwd
      /\ bwd' = bwd \ {p}
      /\ UNCHANGED <<pc, step, pass, fwd, locks, poller, event, updated>>
  BY Zenon DEF Hook, thread
<1>2. q # p =>
        /\ grad'[q] = grad[q] /\ computed'[q] = computed[q]
        /\ delay'[q] = delay[q] /\ handles'[q] = handles[q]
        /\ starting' = "acquire" => param' # q
  BY <1>1, Zenon DEF Hook, CrossTypeOK
<1>3. CASE q # p
  <2>1. GradientInv(q)'
    BY <1>1, <1>2, <1>3 DEF GradientInv, BackwardAhead, HookAhead, Releasing
  <2>2. DelayInv(q)'
    BY <1>1, <1>2, <1>3, Zenon DEF DelayInv, PassesAhead, Releasing
  <2> QED
    BY <2>1, <2>2, Zenon
<1>4. CASE q = p
  <2>1. /\ grad'[p] = grad[p] \cup {<<step, pass>>}
        /\ computed'[p] = computed[p] \cup {<<step, pass>>}
        /\ delay'[p] = delay[p] - 1
        /\ IF delay[p] = 1 THEN starting' = "acquire" /\ param' = p /\ handles' = handles
                           ELSE handles'[p] = {0} /\ starting' = "no"
    BY <1>1, Zenon DEF Hook, CrossTypeOK, PushNow
  <2>2. p \notin locks /\ handles[p] = {}
    BY <1>1, Zenon DEF GradientInv, BackwardAhead
  <2>3. ~Releasing(p) /\ ~Releasing(p)'
    BY <1>1, <2>2, ZenonT(60) DEF EventInv, Working, Releasing
  <2>4. \A c \in updated[p] : c[1] < step
    BY <1>1, Zenon DEF GradientInv, HookAhead
  <2>5. step \in 1..FinalStep /\ \A c \in grad[p] : c[1] = step
    BY <1>1, <2>2, Zenon DEF GradientInv, TrainerInv
  <2>6. handles'[p] \subseteq {0}
    BY <2>1, <2>2, Zenon
  <2>7. /\ computed'[p] = updated'[p] \cup grad'[p]
        /\ \A c \in computed'[p] : c[1] \in 1..step' /\ c[1] <= FinalStep
        /\ \A c, d \in grad'[p] : c[1] = d[1]
        /\ \A c \in grad'[p] : c[1] = step'
        /\ \A c \in updated'[p], d \in grad'[p] : c[1] # d[1]
    <3>1. updated' = updated /\ step' = step
      BY <1>1, Zenon
    <3>2. computed'[p] = updated[p] \cup grad'[p]
      BY <2>1, Zenon DEF GradientInv
    <3>3. \A c \in grad'[p] : c[1] = step
      BY <2>1, <2>5
    <3>4. \A c \in computed'[p] : c[1] \in 1..step /\ c[1] <= FinalStep
      BY <2>1, <2>5 DEF GradientInv
    <3>5. \A c \in updated[p] : c[1] # step
      BY <2>4, <2>5 DEF GradientInv, CrossTypeOK
    <3> QED
      BY <3>1, <3>2, <3>3, <3>4, <3>5, Zenon
  <2>8. GradientInv(p)'
    BY <1>1, <2>2, <2>3, <2>4, <2>6, <2>7, Zenon DEF GradientInv, BackwardAhead, HookAhead
  <2>9. DelayInv(p)'
    <3>1. delay[p] \in Int /\ delay[p] >= Passes - pass + 1 /\ pass \in 1..Passes
      BY <1>1, <2>2, Zenon DEF DelayInv, PassesAhead, CrossTypeOK
    <3>2. <<step, pass>> \in grad'[p]
      BY <2>1, Zenon
    <3>3. grad'[p] # {}
      BY <3>2, Zenon
    <3>4. delay'[p] >= Passes - pass
      BY <2>1, <3>1 DEF CrossAssumption
    <3>5. ~(starting' = "acquire" /\ param' = p) => delay'[p] >= 1
      BY <2>1, <3>1 DEF CrossAssumption
    <3>6. PassesAhead(p)' = Passes - pass
      BY <1>1, Zenon DEF PassesAhead
    <3> QED
      BY <2>3, <3>3, <3>4, <3>5, <3>6, Zenon DEF DelayInv
  <2> QED
    BY <1>4, <2>8, <2>9, Zenon
<1> QED
  BY <1>3, <1>4, Zenon

\* The lock is taken when no hook of the parameter is to come in this step.
LEMMA ParamPushPullGradAsync ==
  ASSUME CrossAssumption, CrossInv, PushPullGradAsync, NEW q \in Param
  PROVE  GradientInv(q)' /\ DelayInv(q)'
<1> USE DEF CrossInv
<1>1. /\ starting = "acquire" /\ starting' = "put" /\ locks' = locks \cup {param}
      /\ UNCHANGED <<pc, step, pass, fwd, bwd, param, handles, delay, grad, poller, event, computed, updated>>
  BY Zenon DEF PushPullGradAsync, thread
<1>2. param \notin bwd /\ ~HookAhead(param)
  BY <1>1 DEF TrainerInv, HookAhead, CrossTypeOK, CrossAssumption
<1>3. GradientInv(q)'
  BY <1>1, <1>2 DEF GradientInv, BackwardAhead, HookAhead, Releasing
<1>4. DelayInv(q)'
  BY <1>1, Zenon DEF DelayInv, PassesAhead, Releasing
<1> QED
  BY <1>3, <1>4, Zenon

\* A handle is recorded for a locked parameter.
LEMMA ParamPutEvent ==
  ASSUME CrossAssumption, CrossInv, PutEvent, NEW q \in Param
  PROVE  GradientInv(q)' /\ DelayInv(q)'
<1> USE DEF CrossInv
<1>1. /\ starting = "put" /\ starting' = "no"
      /\ UNCHANGED <<pc, step, pass, fwd, bwd, param, locks, delay, grad, poller, event, computed, updated>>
  BY Zenon DEF PutEvent, thread, history
<1>2. param \notin bwd /\ param \in locks
  BY <1>1, Zenon DEF TrainerInv, EventInv, UnderWay, StartedEvent
<1>3. q # param => handles'[q] = handles[q]
  BY Zenon DEF PutEvent, CrossTypeOK
<1>4. GradientInv(q)'
  BY <1>1, <1>2, <1>3 DEF GradientInv, BackwardAhead, HookAhead, Releasing
<1>5. DelayInv(q)'
  BY <1>1, Zenon DEF DelayInv, PassesAhead, Releasing
<1> QED
  BY <1>4, <1>5, Zenon

\* Taking and putting back events touches no parameter.
LEMMA ParamEvents ==
  ASSUME CrossAssumption, CrossInv,
         GetEvent \/ PutBack \/ \E h \in DOMAIN results : MarkDone(h), NEW q \in Param
  PROVE  GradientInv(q)' /\ DelayInv(q)'
<1> USE DEF CrossInv
<1>1. UNCHANGED <<pc, step, pass, fwd, bwd, starting, param, handles, locks, delay, grad, computed, updated>>
  BY Zenon DEF GetEvent, PutBack, MarkDone, trainer, history
<1>2. Releasing(q)' <=> Releasing(q)
  BY Zenon DEF GetEvent, PutBack, MarkDone, thread, Releasing
<1>3. GradientInv(q)'
  BY <1>1, <1>2 DEF GradientInv, BackwardAhead, HookAhead
<1>4. DelayInv(q)'
  BY <1>1, <1>2, ZenonT(60) DEF DelayInv, PassesAhead
<1> QED
  BY <1>3, <1>4, Zenon

\* The update makes the gradients part of the parameter, of an earlier step if a hook of
\* this step is to come.
LEMMA ParamApplyUpdate ==
  ASSUME CrossAssumption, CrossInv, ApplyUpdate, NEW q \in Param
  PROVE  GradientInv(q)' /\ DelayInv(q)'
<1> USE DEF CrossInv
<1>1. /\ poller = "poll" /\ poller' = "release"
      /\ UNCHANGED <<pc, step, pass, fwd, bwd, starting, param, handles, locks, grad, event, computed>>
  BY Zenon DEF ApplyUpdate, trainer
<1>2. event[1] \in locks /\ event[1] \in Param
  BY <1>1, Zenon DEF EventInv, Working, CrossTypeOK
<1>3. CASE q # event[1]
  <2>1. updated'[q] = updated[q] /\ delay'[q] = delay[q]
    BY <1>3, Zenon DEF ApplyUpdate, Update, ResetDelay, CrossTypeOK
  <2>2. ~Releasing(q) /\ ~Releasing(q)'
    BY <1>1, <1>3, Zenon DEF Releasing
  <2>3. GradientInv(q)'
    BY <1>1, <2>1, <2>2 DEF GradientInv, BackwardAhead, HookAhead
  <2>4. DelayInv(q)'
    BY <1>1, <2>1, <2>2, ZenonT(60) DEF DelayInv, PassesAhead
  <2> QED
    BY <2>3, <2>4, Zenon
<1>4. CASE q = event[1]
  <2>1. updated'[q] = updated[q] \cup grad[q] /\ delay'[q] = Passes
    BY <1>2, <1>4, Zenon DEF ApplyUpdate, Update, ResetDelay, CrossTypeOK
  <2>2. Releasing(q)' /\ q \in locks
    BY <1>1, <1>2, <1>4, Zenon DEF Releasing
  <2>3. GradientInv(q)'
    <3>1. GradientInv(q)
      BY Zenon
    <3>2. computed'[q] = updated'[q] \cup grad'[q] /\ grad'[q] \subseteq updated'[q]
      BY <1>1, <2>1, <3>1, ZenonT(60) DEF GradientInv
    <3>3. /\ \A c \in computed'[q] : c[1] \in 1..step' /\ c[1] <= FinalStep
          /\ \A c, d \in grad'[q] : c[1] = d[1]
          /\ BackwardAhead(q)' => q \notin locks' /\ handles'[q] = {}
      BY <1>1, <3>1, ZenonT(60) DEF GradientInv, BackwardAhead
    <3>4. HookAhead(q)' =>
            /\ \A c \in updated'[q] : c[1] < step'
            /\ q \in locks' => \A c \in grad'[q] : c[1] < step'
      BY <1>1, <2>1, <2>2, <3>1, Zenon DEF GradientInv, HookAhead
    <3> QED
      BY <1>1, <2>2, <3>2, <3>3, <3>4, ZenonT(60) DEF GradientInv
  <2>4. DelayInv(q)'
    BY <1>1, <2>1, <2>2, ZenonT(60) DEF DelayInv
  <2> QED
    BY <2>3, <2>4, Zenon
<1> QED
  BY <1>3, <1>4, Zenon

\* A parameter is released without a gradient and with its delay reset.
LEMMA ParamRelease ==
  ASSUME CrossAssumption, CrossInv, Release, NEW q \in Param
  PROVE  GradientInv(q)' /\ DelayInv(q)'
<1> USE DEF CrossInv
<1>1. /\ poller = "release" /\ poller' = "get" /\ locks' = locks \ {event[1]}
      /\ UNCHANGED <<pc, step, pass, fwd, bwd, starting, param, handles, delay, event, computed, updated>>
  BY Zenon DEF Release, trainer, history
<1>2. event[1] \in locks /\ event[1] \in Param
  BY <1>1, ZenonT(60) DEF EventInv, Working, CrossTypeOK
<1>3. CASE q # event[1]
  <2>1. grad'[q] = grad[q]
    BY <1>3, Zenon DEF Release, ZeroOneGrad, CrossTypeOK
  <2>2. ~Releasing(q) /\ ~Releasing(q)' /\ (q \in locks' <=> q \in locks)
    BY <1>1, <1>3, Zenon DEF Releasing
  <2>3. GradientInv(q)'
    BY <1>1, <2>1, <2>2 DEF GradientInv, BackwardAhead, HookAhead
  <2>4. DelayInv(q)'
    BY <1>1, <2>1, <2>2, ZenonT(60) DEF DelayInv, PassesAhead
  <2> QED
    BY <2>3, <2>4, Zenon
<1>4. CASE q = event[1]
  <2>1. grad'[q] = {}
    BY <1>2, <1>4, Zenon DEF Release, ZeroOneGrad, CrossTypeOK
  <2>2. Releasing(q) /\ ~Releasing(q)' /\ q \in locks /\ q \notin locks'
    BY <1>1, <1>2, <1>4, Zenon DEF Releasing
  <2>3. computed[q] = updated[q]
    <3>1. computed[q] = updated[q] \cup grad[q] /\ grad[q] \subseteq updated[q]
      BY <2>2, Zenon DEF GradientInv
    <3> QED
      BY <3>1, Zenon
  <2>4. GradientInv(q)'
    BY <1>1, <2>1, <2>2, <2>3, ZenonT(60) DEF GradientInv, BackwardAhead, HookAhead
  <2>5. delay[q] = Passes
    BY <2>2, ZenonT(60) DEF DelayInv
  <2>6. DelayInv(q)'
    BY <1>1, <2>2, <2>5 DEF DelayInv, PassesAhead, CrossTypeOK, CrossAssumption
  <2> QED
    BY <2>4, <2>6, Zenon
<1> QED
  BY <1>3, <1>4, Zenon

\* CrossInv holds initially.
LEMMA CrossInit ==
  ASSUME CrossAssumption, Init
  PROVE  CrossInv
<1> USE DEF Init
<1>1. CrossTypeOK
  BY DEF CrossTypeOK, CrossAssumption, Gradients
<1>2. TrainerInv
  BY Zenon DEF TrainerInv
<1>3. EventInv /\ LockInv
  BY DEF EventInv, LockInv, Working
<1>4. ASSUME NEW p \in Param
      PROVE  GradientInv(p) /\ DelayInv(p)
  BY <1>4 DEF GradientInv, DelayInv, Releasing, BackwardAhead, HookAhead, PassesAhead, CrossAssumption
<1> QED
  BY <1>1, <1>2, <1>3, <1>4, Zenon DEF CrossInv

\* A step that changes nothing preserves the invariant.
LEMMA CrossStutter ==
  ASSUME CrossInv, UNCHANGED vars
  PROVE  CrossInv'
<1> USE DEF CrossInv, vars, trainer, shared, thread, history
<1>1. CrossTypeOK'
  BY Zenon DEF CrossTypeOK
<1>2. TrainerInv'
  BY ZenonT(60) DEF TrainerInv, Unpushed
<1>3. EventInv' /\ LockInv'
  BY EventFrame, Zenon
<1>4. ASSUME NEW p \in Param
      PROVE  GradientInv(p)' /\ DelayInv(p)'
  BY DEF GradientInv, DelayInv, Releasing, BackwardAhead, HookAhead, PassesAhead
<1> QED
  BY <1>1, <1>2, <1>3, <1>4, Zenon

\* Every step preserves the invariant.
LEMMA CrossNext ==
  ASSUME CrossAssumption, CrossInv, Next
  PROVE  CrossInv'
<1>1. CASE Trainer
  <2>1. CrossTypeOK'
    BY <1>1, TrainerType, Zenon DEF CrossInv
  <2>2. TrainerInv'
    BY <1>1, TrainerNext, Zenon
  <2>3. EventInv' /\ LockInv'
    <3>1. CASE StepZero \/ CallModel \/ EndBackward \/ Step \/ Drained \/ Join
      <4>1. UNCHANGED <<event_queue, locks, results, grad, pushed, poller, event, starting, param>>
        BY <3>1, Zenon DEF StepZero, CallModel, EndBackward, Step, Drained, Join, shared, thread, history
      <4> QED
        BY <4>1, EventFrame, Zenon DEF CrossInv
    <3>2. CASE Synchronize
      <4>1. /\ UNCHANGED <<event_queue, locks, results, grad, pushed, poller, event>>
            /\ starting = "no" /\ starting' = "acquire"
        BY <3>2, Zenon DEF Synchronize, shared, thread, history
      <4> QED
        BY <4>1, EventFrame, Zenon DEF CrossInv
    <3>3. ASSUME NEW p \in Param, PreForwardHook(p)
          PROVE  EventInv' /\ LockInv'
      <4>1. UNCHANGED <<event_queue, locks, results, grad, pushed, poller, event, starting, param>>
        BY <3>3, Zenon DEF PreForwardHook, shared, thread, history
      <4> QED
        BY <4>1, EventFrame, Zenon DEF CrossInv
    <3> QED
      BY <1>1, <3>1, <3>2, <3>3, EventHook, EventPushPullGradAsync, EventPutEvent, EventPutSentinel, Zenon DEF Trainer
  <2>4. ASSUME NEW q \in Param
        PROVE  GradientInv(q)' /\ DelayInv(q)'
    BY <1>1, ParamStepZero, ParamCallModel, ParamPreForwardHook, ParamHook, ParamPushPullGradAsync,
       ParamPutEvent, ParamEndBackward, ParamSynchronize, ParamStep, ParamFinish, Zenon DEF Trainer
  <2> QED
    BY <2>1, <2>2, <2>3, <2>4, Zenon DEF CrossInv
<1>2. CASE Poll \/ \E h \in DOMAIN results : MarkDone(h)
  <2>1. CrossTypeOK'
    BY <1>2, PollType, Zenon DEF CrossInv
  <2>2. TrainerInv'
    BY <1>2, PollTrainer, Zenon DEF CrossInv
  <2>3. EventInv' /\ LockInv'
    BY <1>2, EventMarkDone, EventGetEvent, EventPutBack, EventApplyUpdate, EventRelease, Zenon DEF Poll
  <2>4. ASSUME NEW q \in Param
        PROVE  GradientInv(q)' /\ DelayInv(q)'
    BY <1>2, ParamEvents, ParamApplyUpdate, ParamRelease, Zenon DEF Poll
  <2> QED
    BY <2>1, <2>2, <2>3, <2>4, Zenon DEF CrossInv
<1>3. CASE Terminated
  BY <1>3, CrossStutter, Zenon DEF Terminated
<1> QED
  BY <1>1, <1>2, <1>3, Zenon DEF Next

\* The invariant of the cross barrier (cross_barrier.py:60-201) holds for every set of
\* parameters, number of steps and number of backward passes per step.
THEOREM CrossInvariant ==
  ASSUME CrossAssumption
  PROVE  Spec => []CrossInv
<1>1. Init => CrossInv
  BY CrossInit, Zenon
<1>2. CrossInv /\ [Next]_vars => CrossInv'
  BY CrossNext, CrossStutter, Zenon
<1> QED
  BY <1>1, <1>2, PTL DEF Spec

-----------------------------------------------------------------------------
(* What the invariant says of the code *)

\* What is outstanding, or applied and not released, is an event of the invariant.
LEMMA OpenEvents ==
  ASSUME CrossAssumption, CrossInv, NEW p \in Param, NEW h \in DOMAIN results
  PROVE  /\ Outstanding(p, h) <=>
              \/ \E i \in 1..Len(event_queue) : event_queue[i] # Sentinel /\ event_queue[i] = <<p, h>>
              \/ poller = "poll" /\ event = <<p, h>>
              \/ starting = "put" /\ StartedEvent = <<p, h>>
         /\ Outstanding(p, h) => UnderWay(<<p, h>>)
<1>1. <<p, h>> # Sentinel
  BY Zenon DEF Sentinel, CrossAssumption
<1>2. DOMAIN event_queue = 1..Len(event_queue)
  BY DEF CrossInv, CrossTypeOK
<1>3. StartedEvent = <<p, h>> <=> param = p /\ h = Len(results)
  BY Zenon DEF StartedEvent
<1>4. Outstanding(p, h) <=>
        \/ \E i \in 1..Len(event_queue) : event_queue[i] # Sentinel /\ event_queue[i] = <<p, h>>
        \/ poller = "poll" /\ event = <<p, h>>
        \/ starting = "put" /\ StartedEvent = <<p, h>>
  <2>1. (\E i \in DOMAIN event_queue : event_queue[i] = <<p, h>>)
          <=> \E i \in 1..Len(event_queue) : event_queue[i] # Sentinel /\ event_queue[i] = <<p, h>>
    BY <1>1, <1>2, ZenonT(60)
  <2> QED
    BY <1>3, <2>1, Zenon DEF Outstanding
<1>5. Outstanding(p, h) => UnderWay(<<p, h>>)
  BY <1>4, Zenon DEF CrossInv, EventInv
<1> QED
  BY <1>4, <1>5, Zenon

\* Nothing touches p.grad from the push_pull (cross_barrier.py:153) to the update (line
\* 169), whatever the number of parameters, steps and passes.
THEOREM GradientUntouched ==
  ASSUME CrossAssumption
  PROVE  Spec => []InFlightUntouched
<1>1. CrossInv => InFlightUntouched
  BY OpenEvents, Zenon DEF InFlightUntouched, UnderWay
<1> QED
  BY <1>1, CrossInvariant, PTL

\* The poller never releases a lock it does not own, and no lock is held without an event
\* (cross_barrier.py:149-201).
THEOREM LocksOwned ==
  ASSUME CrossAssumption
  PROVE  Spec => []LockMeansOutstanding
<1>1. ASSUME CrossInv
      PROVE  LockMeansOutstanding
  <2> SUFFICES ASSUME NEW p \in Param
               PROVE  LET open == {h \in DOMAIN results :
                                     Outstanding(p, h) \/ (poller = "release" /\ event = <<p, h>>)}
                      IN  \/ p \in locks /\ \E h \in open : open = {h}
                          \/ p \notin locks /\ open = {}
    BY ZenonT(60) DEF LockMeansOutstanding
  <2> DEFINE Open(h) == Outstanding(p, h) \/ (poller = "release" /\ event = <<p, h>>)
             open == {h \in DOMAIN results : Open(h)}
  <2>1. ASSUME NEW h \in DOMAIN results, Open(h)
        PROVE  p \in locks
    BY <1>1, <2>1, OpenEvents DEF CrossInv, EventInv, Working, UnderWay
  <2>2. ASSUME NEW h \in DOMAIN results, NEW g \in DOMAIN results, Open(h), Open(g)
        PROVE  g = h
    <3> DEFINE Queued(x)  == \E i \in 1..Len(event_queue) : event_queue[i] # Sentinel /\ event_queue[i] = <<p, x>>
               WithPoller(x) == Working /\ event = <<p, x>>
               Started(x) == starting = "put" /\ StartedEvent = <<p, x>>
    <3>1. ASSUME NEW x \in DOMAIN results, Open(x)
          PROVE  Queued(x) \/ WithPoller(x) \/ Started(x)
      <4>1. Outstanding(p, x) => Queued(x) \/ (poller = "poll" /\ event = <<p, x>>) \/ Started(x)
        BY <1>1, OpenEvents, Zenon
      <4>2. poller = "poll" \/ poller = "release" => Working
        BY Zenon DEF Working
      <4> QED
        BY <3>1, <4>1, <4>2, Zenon
    <3>2. EventInv
      BY <1>1, Zenon DEF CrossInv
    <3>3. \A x, y : ~Apart(<<p, x>>, <<p, y>>)
      BY Zenon DEF Apart
    <3>4. \A x, y : Queued(x) /\ Queued(y) => x = y
      <4> SUFFICES ASSUME NEW x, NEW y, Queued(x), Queued(y)
                   PROVE  x = y
        BY Zenon
      <4>1. PICK i \in 1..Len(event_queue) : event_queue[i] # Sentinel /\ event_queue[i] = <<p, x>>
        BY Zenon
      <4>2. PICK j \in 1..Len(event_queue) : event_queue[j] # Sentinel /\ event_queue[j] = <<p, y>>
        BY Zenon
      <4>3. i # j => Apart(<<p, x>>, <<p, y>>)
        BY <3>2, <4>1, <4>2, Zenon DEF EventInv
      <4>4. i = j
        BY <3>3, <4>3, Zenon
      <4> QED
        BY <4>1, <4>2, <4>4
    <3>5. \A x, y : ~(Queued(x) /\ WithPoller(y))
      BY <3>2, <3>3, Zenon DEF EventInv
    <3>6. \A x, y : ~(Queued(x) /\ Started(y))
      BY <3>2, <3>3, Zenon DEF EventInv
    <3>7. \A x, y : ~(WithPoller(x) /\ Started(y))
      BY <3>2, <3>3, Zenon DEF EventInv
    <3>8. \A x, y : (WithPoller(x) /\ WithPoller(y)) \/ (Started(x) /\ Started(y)) => x = y
      OBVIOUS
    <3> HIDE DEF Open, Queued, WithPoller, Started
    <3> QED
      BY <2>2, <3>1, <3>4, <3>5, <3>6, <3>7, <3>8, Zenon
  <2>3. ASSUME p \in locks
        PROVE  \E h \in DOMAIN results : Open(h)
    <3>1. ASSUME NEW i \in 1..Len(event_queue), event_queue[i][1] = p
          PROVE  \E h \in DOMAIN results : Outstanding(p, h)
      <4>1. event_queue[i] # Sentinel
        BY <3>1, EventKinds, Zenon DEF CrossAssumption
      <4>2. event_queue[i] \in Events
        BY <1>1, <4>1 DEF CrossInv, CrossTypeOK
      <4>3. event_queue[i] = <<p, event_queue[i][2]>>
        BY <3>1, <4>2, EventKinds, Zenon
      <4>4. event_queue[i][2] \in DOMAIN results
        BY <1>1, <4>1 DEF CrossInv, EventInv, UnderWay, CrossTypeOK
      <4>5. i \in DOMAIN event_queue
        BY <1>1 DEF CrossInv, CrossTypeOK
      <4> QED
        BY <4>3, <4>4, <4>5, Zenon DEF Outstanding
    <3>2. ASSUME Working, event[1] = p
          PROVE  \E h \in DOMAIN results : Open(h)
      <4>1. event[2] \in DOMAIN results
        BY <1>1, <3>2 DEF CrossInv, EventInv, CrossTypeOK
      <4>2. event # Sentinel
        BY <3>2, EventKinds, Zenon DEF CrossAssumption
      <4>3. event = <<p, event[2]>>
        BY <1>1, <3>2, <4>2, EventKinds, Zenon DEF CrossInv, CrossTypeOK
      <4> QED
        BY <3>2, <4>1, <4>3, ZenonT(60) DEF Outstanding, Working
    <3>3. ASSUME starting = "put", param = p
          PROVE  \E h \in DOMAIN results : Outstanding(p, h)
      <4>1. Len(results) \in DOMAIN results
        BY <1>1, <3>3 DEF CrossInv, EventInv, UnderWay, StartedEvent, CrossTypeOK
      <4> QED
        BY <3>3, <4>1, Zenon DEF Outstanding
    <3> QED
      BY <1>1, <2>3, <3>1, <3>2, <3>3, Zenon DEF CrossInv, LockInv
  <2>4. CASE p \in locks
    <3> HIDE DEF Open
    <3>1. PICK h \in DOMAIN results : Open(h)
      BY <2>3, <2>4, Zenon
    <3>2. h \in open /\ open = {h}
      BY <2>2, <3>1, Zenon
    <3> QED
      BY <2>4, <3>2, Zenon DEF Open
  <2>5. CASE p \notin locks
    <3> HIDE DEF Open
    <3>1. open = {}
      BY <2>1, <2>5, Zenon
    <3> QED
      BY <2>5, <3>1, Zenon DEF Open
  <2> QED
    BY <2>4, <2>5, Zenon
<1>2. CrossInv => LockMeansOutstanding
  BY <1>1, Zenon
<1> QED
  BY <1>2, CrossInvariant, PTL

\* A module that has run its forward pass has seen the updates of all earlier steps
\* ("maintaining correct dependencies", cross_barrier.py:30).
THEOREM ForwardAfterUpdates ==
  ASSUME CrossAssumption
  PROVE  Spec => []ForwardSeesUpdates
<1>1. ASSUME CrossInv, NEW p \in Param, BackwardAhead(p)
      PROVE  {c \in computed[p] : c[1] < step} \subseteq updated[p]
  <2>1. GradientInv(p) /\ step \in Nat
    BY <1>1, Zenon DEF CrossInv, CrossTypeOK
  <2>2. /\ computed[p] = updated[p] \cup grad[p]
        /\ \A c \in grad[p] : c[1] = step
    BY <1>1, <2>1, Zenon DEF GradientInv
  <2> QED
    BY <2>1, <2>2
<1>2. CrossInv => ForwardSeesUpdates
  BY <1>1, Zenon DEF ForwardSeesUpdates, BackwardAhead
<1> QED
  BY <1>2, CrossInvariant, PTL

\* No assertion of the hook fails and the poller never polls a cleared handle
\* (torch/__init__.py:144-152, handle_manager.cc:36).
THEOREM NoExceptionRaised ==
  ASSUME CrossAssumption
  PROVE  Spec => []NoException
<1>1. ASSUME CrossInv
      PROVE  NoException
  <2>1. ASSUME NEW p \in Param, pc = "backward", starting = "no", p \in bwd
        PROVE  delay[p] > 0
    <3>1. p \notin locks
      BY <1>1, <2>1, Zenon DEF CrossInv, GradientInv, BackwardAhead
    <3> QED
      BY <1>1, <2>1, <3>1 DEF CrossInv, DelayInv, CrossTypeOK
  <2>2. poller = "poll" => results[event[2]] # "cleared"
    BY <1>1, ZenonT(60) DEF CrossInv, EventInv, UnderWay
  <2> QED
    BY <2>1, <2>2, Zenon DEF NoException
<1>2. CrossInv => NoException
  BY <1>1, Zenon
<1> QED
  BY <1>2, CrossInvariant, PTL

\* An update consists of all gradients of one step, and none is applied twice
\* (cross_barrier.py:163-201).
THEOREM UpdatesOfOneStep ==
  ASSUME CrossAssumption
  PROVE  Spec => [][UpdatesOneStep]_vars
<1>1. ASSUME CrossInv, Next
      PROVE  UpdatesOneStep
  <2> SUFFICES ASSUME NEW p \in Param, updated'[p] # updated[p]
               PROVE  \E s \in 1..FinalStep :
                        /\ grad[p] = {c \in computed[p] : c[1] = s}
                        /\ grad[p] \cap updated[p] = {}
    BY Zenon DEF UpdatesOneStep
  <2>1. ApplyUpdate
    BY <1>1, Zenon DEF Next, Trainer, Poll, StepZero, CallModel, EndBackward, Synchronize, Step, PreForwardHook, Hook,
                PushPullGradAsync, PutEvent, Drained, PutSentinel, Join, GetEvent, PutBack, Release, MarkDone,
                Terminated, vars, history
  <2>2. updated'[p] = updated[p] \cup grad[p] /\ ~Releasing(p)
    BY <1>1, <2>1, Zenon DEF ApplyUpdate, Update, CrossInv, CrossTypeOK, Releasing
  <2>3. PICK d \in grad[p] : TRUE
    BY <2>2, Zenon
  <2>4. /\ computed[p] = updated[p] \cup grad[p]
        /\ \A c \in computed[p] : c[1] \in 1..step /\ c[1] <= FinalStep
        /\ \A c \in grad[p] : c[1] = d[1]
        /\ \A c \in updated[p] : c[1] # d[1]
    BY <1>1, <2>2, <2>3 DEF CrossInv, GradientInv
  <2>5. d[1] \in 1..FinalStep
    BY <2>3, <2>4
  <2>6. grad[p] = {c \in computed[p] : c[1] = d[1]}
    BY <2>4, Zenon
  <2>7. grad[p] \cap updated[p] = {}
    BY <2>4, Zenon
  <2> QED
    BY <2>5, <2>6, <2>7, Zenon
<1>2. CrossInv /\ [Next]_vars => [UpdatesOneStep]_vars
  BY <1>1, Zenon
<1> QED
  BY <1>2, CrossInvariant, PTL DEF Spec
=============================================================================
