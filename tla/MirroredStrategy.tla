-------------------------- MODULE MirroredStrategy --------------------------
(***************************************************************************)
(* MirroredStrategy of src/byteps/tensorflow/distribute: in every process  *)
(* one thread per device runs the replica function, one at a time; when    *)
(* all have paused in merge_call(), the main thread runs the merge         *)
(* function once, which reduces a value over the replicas, and with        *)
(* push_pull over the processes, and updates the copies of a variable, one *)
(* after the other.                                                        *)
(*                                                                         *)
(* A replica function is a sequence of merge calls, one of which may be an *)
(* error.  TensorFlow's Coordinator is external: stop_on_exception()       *)
(* swallows an exception, records it unless it is _RequestedStop, and      *)
(* requests a stop; join() waits for the threads and raises what was       *)
(* recorded.                                                               *)
(***************************************************************************)
EXTENDS Collective, DeviceList

CONSTANTS
  Scripts  \* [eager: BOOLEAN, devices: Seq, cluster, configure: [job -> Nat], gpus: Nat, fn: Seq(Seq(call))]

VARIABLES
  script,  \* devices: the argument of the strategy; cluster: TF_CONFIG; gpus: those of a process;
           \* configure: the cluster_spec that configure() is called with;
           \* fn[r]: the function of replica r, its calls [kind, op, value]
  pc,      \* pc[w]: where the main thread of process w is
  turn,    \* turn[w]: the thread whose turn it is
  done,    \* done[w]: the list of _call_for_each_replica
  thread,  \* thread[w][r]: a _MirroredReplicaThread
  coord,   \* coord[w]: its Coordinator
  weight,  \* weight[w][r]: the copy of the variable on device r
  sent     \* the push_pulls

vars == <<script, pc, turn, done, thread, coord, weight, sent>>

Replica == DOMAIN script.fn

NewThread ==
  [pc |-> "new", should_run |-> FALSE, has_paused |-> FALSE, done |-> FALSE, at |-> 1,
   merge_args |-> Zero, merge_result |-> Zero, returned |-> <<>>]

Init ==
  /\ script \in Scripts
  /\ pc     = [w \in Worker |-> "strategy"]
  /\ turn   = [w \in Worker |-> 1]
  /\ done   = [w \in Worker |-> <<>>]
  /\ thread = [w \in Worker |-> [r \in Replica |-> NewThread]]
  /\ coord  = [w \in Worker |-> [stop |-> FALSE, error |-> FALSE]]
  /\ weight = [w \in Worker |-> [r \in Replica |-> Zero]]
  /\ sent   = [w \in Worker |-> [n \in {"reduce"} |-> <<>>]]

-----------------------------------------------------------------------------
(* The strategy and its variable *)

Tasked(cluster) == \E job \in DOMAIN cluster : cluster[job] > 0

\* The devices that __init__ chooses.
Devices ==
  IF script.devices # <<>> THEN script.devices
  ELSE IF ~script.eager /\ Tasked(script.cluster)
  THEN ClusterDevices(script.cluster, script.gpus)
  ELSE LocalDevices(script.gpus)

\* The devices that raise an error: inconsistent ones, duplicates, and those of several
\* workers.
Refused ==
  \/ Inconsistent(Devices)
  \/ Cardinality(ToSet(Devices)) # Len(Devices)
  \/ ~SingleWorker(Devices) /\ MultiWorkerRefused(Devices)

\* configure() with a cluster: the same number of GPUs for each of its tasks.
ConfigureRaises ==
  /\ Tasked(script.configure)
  /\ MultiWorkerRefused(ClusterDevices(script.configure, InferGpus(Devices)))

Strategy(w) ==
  /\ pc[w] = "strategy"
  /\ pc' = [pc EXCEPT ![w] = IF Refused THEN "raised" ELSE "configure"]
  /\ UNCHANGED <<script, turn, done, thread, coord, weight, sent>>

Configure(w) ==
  /\ pc[w] = "configure"
  /\ pc' = [pc EXCEPT ![w] = IF ConfigureRaises THEN "raised" ELSE "scope"]
  /\ UNCHANGED <<script, turn, done, thread, coord, weight, sent>>

Initial(w, r) == <<w, r, 0>>

\* Mutant: every device initializes its copy itself.
InitialValueOwn(w, r) == Once(Initial(w, r))

\* _get_variable_creator_initial_value: the other copies are copies of the first.
InitialValue(w, r) == Once(Initial(w, 1))

\* _create_variable
CreateVariable(w) ==
  /\ pc[w] = "scope"
  /\ weight' = [weight EXCEPT ![w] = [r \in Replica |-> InitialValue(w, r)]]
  /\ pc'     = [pc EXCEPT ![w] = "start"]
  /\ UNCHANGED <<script, turn, done, thread, coord, sent>>

-----------------------------------------------------------------------------
(* _call_for_each_replica, the main thread *)

\* The threads are made and started.
Start(w) ==
  /\ pc[w] = "start"
  /\ thread' = [thread EXCEPT ![w] = [r \in Replica |-> [@[r] EXCEPT !.pc = "starting"]]]
  /\ pc'     = [pc EXCEPT ![w] = "turn"]
  /\ UNCHANGED <<script, turn, done, coord, weight, sent>>

\* Mutant: run_concurrently.
WakenAll(w) == Replica

\* Those that run_concurrently = FALSE lets run.
Waken(w) == {turn[w]}

\* should_run.set() for the thread whose turn it is.
Turn(w) ==
  /\ pc[w] = "turn"
  /\ thread' = [thread EXCEPT ![w] = [r \in Replica |-> [@[r] EXCEPT !.should_run = @ \/ r \in Waken(w)]]]
  /\ pc'     = [pc EXCEPT ![w] = "wait"]
  /\ UNCHANGED <<script, turn, done, coord, weight, sent>>

\* has_paused.wait() and clear(); a requested stop ends the loop.
Paused(w) ==
  LET r == turn[w] IN
  /\ pc[w] = "wait" /\ thread[w][r].has_paused
  /\ thread' = [thread EXCEPT ![w][r].has_paused = FALSE]
  /\ IF coord[w].stop
     THEN pc' = [pc EXCEPT ![w] = "finally"] /\ UNCHANGED <<turn, done>>
     ELSE /\ done' = [done EXCEPT ![w] = Append(@, thread[w][r].done)]
          /\ turn' = [turn EXCEPT ![w] = IF r = Len(script.fn) THEN 1 ELSE r + 1]
          /\ pc'   = [pc EXCEPT ![w] = IF r = Len(script.fn) THEN "collect" ELSE "turn"]
  /\ UNCHANGED <<script, coord, weight, sent>>

Stopped(c) == [c EXCEPT !.stop = TRUE, !.error = TRUE]

Outcome(flags) ==
  IF FALSE \notin ToSet(flags) THEN "all" ELSE IF TRUE \in ToSet(flags) THEN "some" ELSE "none"

\* All replicas have finished, or all have called merge_call(), or the RuntimeError.
Collect(w) ==
  /\ pc[w] = "collect"
  /\ pc'    = [pc EXCEPT ![w] = IF Outcome(done[w]) = "none" THEN "merge" ELSE "finally"]
  /\ coord' = [coord EXCEPT ![w] = IF Outcome(done[w]) = "some" THEN Stopped(@) ELSE @]
  /\ done'  = [done EXCEPT ![w] = <<>>]
  /\ UNCHANGED <<script, turn, thread, weight, sent>>

-----------------------------------------------------------------------------
(* The merge function: reduce and update *)

Call(w) == script.fn[1][thread[w][1].at]

\* _simple_reduce over the values of the replicas.
SimpleReduce(op, values) ==
  LET sum == Total(values) IN IF op = "MEAN" THEN Divide(sum, Cardinality(DOMAIN values)) ELSE sum

\* reduce_non_distributed_value: one value for several replicas cannot be summed.
NonDistributedRaises(c) == c.op = "SUM" /\ c.value = "single" /\ Cardinality(Replica) # 1

\* batch_reduce_implementation, which CrossDeviceOps leaves to its subclasses, is not
\* implemented by BytepsCrossDeviceOps: every batch raises.
BatchReduceRaises(c) == c.kind = "batch"

\* _reduce_to asserts that a mirrored value is not summed.
ReduceRaises(c) ==
  \/ BatchReduceRaises(c)
  \/ c.op = "SUM" /\ c.value = "mirrored"
  \/ NonDistributedRaises(c)

\* The merge function has its result.  It is noted for the threads, which do not read it
\* before the updates are done.
Merged(w, result) ==
  /\ thread' = [thread EXCEPT ![w] = [r \in Replica |-> [@[r] EXCEPT !.merge_result = result]]]
  /\ pc'     = [pc EXCEPT ![w] = "update"]
  /\ UNCHANGED weight

\* _update: the copy of the next device.
Update(w) ==
  LET r == turn[w] IN
  /\ pc[w] = "update"
  /\ weight' = [weight EXCEPT ![w][r] = @ (+) thread[w][r].merge_result]
  /\ turn'   = [turn EXCEPT ![w] = IF r = Len(script.fn) THEN 1 ELSE r + 1]
  /\ pc'     = [pc EXCEPT ![w] = IF r = Len(script.fn) THEN "turn" ELSE @]
  /\ UNCHANGED <<script, done, thread, coord, sent>>

MergeRaises(w) ==
  /\ pc[w] = "merge" /\ ReduceRaises(Call(w))
  /\ coord' = [coord EXCEPT ![w] = Stopped(@)]
  /\ pc'    = [pc EXCEPT ![w] = "finally"]
  /\ UNCHANGED <<script, turn, done, thread, weight, sent>>

\* _reduce_to of a value that all replicas share: it is the result.
MergeShared(w) ==
  /\ pc[w] = "merge" /\ ~ReduceRaises(Call(w)) /\ Call(w).value # "per_replica"
  /\ Merged(w, IF Call(w).value = "zero" THEN Zero ELSE thread[w][1].merge_args)
  /\ UNCHANGED <<script, turn, done, coord, sent>>

\* reduce_implementation of BytepsCrossDeviceOps.
MergeReplicas(w) ==
  /\ pc[w] = "merge" /\ ~ReduceRaises(Call(w)) /\ Call(w).value = "per_replica"
  /\ LET reduced == SimpleReduce(Call(w).op, [r \in Replica |-> thread[w][r].merge_args])
     IN  IF Size > 1
         THEN /\ sent' = Push(sent, w, "reduce", reduced)
              /\ pc'   = [pc EXCEPT ![w] = "push_pull"]
              /\ UNCHANGED <<thread, weight>>
         ELSE Merged(w, reduced) /\ UNCHANGED sent
  /\ UNCHANGED <<script, turn, done, coord>>

PushPulled(w) ==
  /\ pc[w] = "push_pull" /\ Finished(sent, "reduce", LastCall(sent, w, "reduce"))
  /\ Merged(w, Summed(sent, "reduce", LastCall(sent, w, "reduce")))
  /\ UNCHANGED <<script, turn, done, coord, sent>>

-----------------------------------------------------------------------------
\* The finally clause: all threads are let run to their end.
Finally(w) ==
  /\ pc[w] = "finally"
  /\ thread' = [thread EXCEPT ![w] = [r \in Replica |-> [@[r] EXCEPT !.should_run = TRUE]]]
  /\ pc'     = [pc EXCEPT ![w] = "join"]
  /\ UNCHANGED <<script, turn, done, coord, weight, sent>>

Join(w) ==
  /\ pc[w] = "join" /\ \A r \in Replica : thread[w][r].pc = "ended"
  /\ pc' = [pc EXCEPT ![w] = IF coord[w].error THEN "raised" ELSE "returned"]
  /\ UNCHANGED <<script, turn, done, thread, coord, weight, sent>>

-----------------------------------------------------------------------------
(* _MirroredReplicaThread.run and merge_call *)

\* should_run.wait() and clear() at the beginning.
Begin(w, r) ==
  LET t == thread[w][r] IN
  /\ t.pc = "starting" /\ t.should_run
  /\ thread' = [thread EXCEPT ![w][r].should_run = FALSE,
                              ![w][r].pc = IF coord[w].stop THEN "exit" ELSE "run"]
  /\ UNCHANGED <<script, pc, turn, done, coord, weight, sent>>

Value(w, r, k) == IF script.fn[r][k].value = "per_replica" THEN Once(<<w, r, k>>) ELSE Once(<<w, 0, k>>)

\* Mutant: has_paused is set before the arguments are.
MergeCallEarly(w, r) ==
  LET t == thread[w][r] IN
  /\ t.pc = "run" /\ t.at <= Len(script.fn[r]) /\ script.fn[r][t.at].kind \in {"merge", "batch"}
  /\ thread' = [thread EXCEPT ![w][r].has_paused = TRUE, ![w][r].pc = "pausing"]
  /\ UNCHANGED <<script, pc, turn, done, coord, weight, sent>>

\* merge_call(): the arguments are left for the main thread.
MergeCall(w, r) ==
  LET t == thread[w][r] IN
  /\ t.pc = "run" /\ t.at <= Len(script.fn[r]) /\ script.fn[r][t.at].kind \in {"merge", "batch"}
  /\ thread' = [thread EXCEPT ![w][r].merge_args = Value(w, r, t.at), ![w][r].pc = "pausing"]
  /\ UNCHANGED <<script, pc, turn, done, coord, weight, sent>>

\* has_paused.set()
Pause(w, r) ==
  /\ thread[w][r].pc = "pausing"
  /\ thread' = [thread EXCEPT ![w][r].has_paused = TRUE, ![w][r].pc = "paused"]
  /\ UNCHANGED <<script, pc, turn, done, coord, weight, sent>>

\* should_run.wait() and clear() in merge_call(), which returns, or raises _RequestedStop.
Resume(w, r) ==
  LET t == thread[w][r] IN
  /\ t.pc = "paused" /\ t.should_run
  /\ thread' = [thread EXCEPT ![w][r] =
       IF coord[w].stop THEN [t EXCEPT !.should_run = FALSE, !.pc = "exit"]
       ELSE [t EXCEPT !.should_run = FALSE, !.pc = "run", !.at = @ + 1,
                      !.returned = Append(@, t.merge_result)]]
  /\ UNCHANGED <<script, pc, turn, done, coord, weight, sent>>

\* The function raises, or calls merge_call() while it defines another graph.
Raise(w, r) ==
  LET t == thread[w][r] IN
  /\ t.pc = "run" /\ t.at <= Len(script.fn[r]) /\ script.fn[r][t.at].kind = "raise"
  /\ coord'  = [coord EXCEPT ![w] = Stopped(@)]
  /\ thread' = [thread EXCEPT ![w][r].pc = "exit"]
  /\ UNCHANGED <<script, pc, turn, done, weight, sent>>

\* The function returns.
Return(w, r) ==
  LET t == thread[w][r] IN
  /\ t.pc = "run" /\ t.at > Len(script.fn[r])
  /\ thread' = [thread EXCEPT ![w][r].done = TRUE, ![w][r].pc = "exit"]
  /\ UNCHANGED <<script, pc, turn, done, coord, weight, sent>>

\* The finally clause of run().
Exit(w, r) ==
  /\ thread[w][r].pc = "exit"
  /\ thread' = [thread EXCEPT ![w][r].has_paused = TRUE, ![w][r].pc = "ended"]
  /\ UNCHANGED <<script, pc, turn, done, coord, weight, sent>>

-----------------------------------------------------------------------------
Over(w)    == pc[w] \in {"returned", "raised"}
Terminated == (\A w \in Worker : Over(w)) /\ UNCHANGED vars

Main(w) ==
  \/ Strategy(w) \/ Configure(w) \/ CreateVariable(w) \/ Start(w) \/ Turn(w) \/ Paused(w) \/ Collect(w)
  \/ MergeRaises(w) \/ MergeShared(w) \/ MergeReplicas(w) \/ PushPulled(w) \/ Update(w) \/ Finally(w) \/ Join(w)

ReplicaThread(w, r) ==
  \/ Begin(w, r) \/ MergeCall(w, r) \/ Pause(w, r) \/ Resume(w, r) \/ Raise(w, r) \/ Return(w, r) \/ Exit(w, r)

\* The threads of a process.
Process(w) == Main(w) \/ \E r \in Replica : ReplicaThread(w, r)

Next == (\E w \in Worker : Process(w)) \/ Terminated

Spec == Init /\ [][Next]_vars

-----------------------------------------------------------------------------
(* Properties *)

\* What merge call k reduces to: the sum over all processes of what the replicas passed
\* in their k-th call; MEAN is the mean over the replicas of a process.
MergeResult(w, k) ==
  LET c == script.fn[1][k]
      n == IF c.op = "MEAN" THEN Scale \div Cardinality(Replica) ELSE Scale
  IN  IF c.value = "zero" THEN Zero
      ELSE IF c.value = "per_replica"
      THEN [x \in {<<u, r, k>> : u \in Worker, r \in Replica} |-> n]
      ELSE Once(<<w, 0, k>>)

\* The k-th merge_call() of a replica returns what the k-th calls of all replicas reduce
\* to: no argument or result of an earlier call is used, whatever the order of the
\* threads (mirrored_strategy.py:165-201, 978-1018).
MergesMatch ==
  \A w \in Worker, r \in Replica : \A k \in DOMAIN thread[w][r].returned :
    thread[w][r].returned[k] = MergeResult(w, k)

\* Whenever a replica's function runs, all copies of the variable are the same, although
\* they are updated one by one; in the end they hold the first copy's initial value and
\* every update once (mirrored_strategy.py:496-561, 755-766).
CopiesMirrored ==
  \A w \in Worker :
    /\ (\E r \in Replica : thread[w][r].pc = "run") => \A r \in Replica : weight[w][r] = weight[w][1]
    /\ pc[w] = "returned" =>
         \A r \in Replica :
           weight[w][r] = Once(Initial(w, 1)) (+) Total([k \in DOMAIN script.fn[1] |-> MergeResult(w, k)])

\* The call returns only when every replica has finished its function and has called
\* merge_call() as often as the others, and it leaves no thread behind, also when it
\* raises (mirrored_strategy.py:172-178, 202-207).
CallReports ==
  \A w \in Worker :
    /\ pc[w] = "returned" =>
         \A r, q \in Replica : thread[w][r].done /\ Len(thread[w][r].returned) = Len(thread[w][q].returned)
    /\ Over(w) => \A r \in Replica : thread[w][r].pc \in {"new", "ended"}

\* One thread at a time: a replica's function runs only while the main thread waits for
\* that replica, also after an error, and no event is left set for a later wait to find.
\* should_run is set for the thread whose turn it is, or for all when the call ends;
\* has_paused by that thread only, or by one that has ended
\* (mirrored_strategy.py:113-115, 159-173, 202-204, 908-933, 1013-1018).
OneReplicaRuns ==
  \A w \in Worker, r \in Replica :
    LET t      == thread[w][r]
        its_turn == pc[w] = "wait" /\ turn[w] = r
    IN  /\ t.pc \in {"run", "pausing"} => its_turn
        /\ t.should_run => its_turn \/ pc[w] \in {"join", "returned", "raised"}
        /\ t.has_paused => its_turn \/ t.pc = "ended"
=============================================================================
