--------------------------- MODULE LocalPipeline ---------------------------
(***************************************************************************)
(* One worker machine (src/byteps/common): a process per GPU, each with a  *)
(* thread per stage of the push_pull pipeline.  A tensor is cut into       *)
(* partitions; the task of a partition walks down its queue list, from one *)
(* scheduled queue to the next.  The devices of a machine agree through    *)
(* signals on Unix sockets, counted in ready tables: the root of an NCCL   *)
(* communicator decides which partition is reduced or broadcast next, and  *)
(* the root device pushes to the servers when every device has copied its  *)
(* slice into the shared CPU buffer.                                       *)
(*                                                                         *)
(* A tensor's memory is a slice per NCCL rank, and a slice is the set of   *)
(* the gradients summed into it, each named by its device and its round.   *)
(* Peers stands for the gradients of the other machines, which the servers *)
(* (module BytePSServer) add to what this machine pushes.                  *)
(***************************************************************************)
EXTENDS Integers, Sequences, FiniteSets, FiniteSetsExt

CONSTANTS
  LocalSize,      \* _local_size: the devices are 0..LocalSize - 1, the last is the root
  SwitchSize,     \* _nccl_pcie_size: the devices under one PCIe switch
  Distributed,    \* IsDistributed()
  Tensor,         \* the declared tensors
  KeyList,        \* context.key_list of each tensor
  KeyLen,         \* task->len of each partition
  Priority,       \* task->priority of each tensor
  Compressed,     \* the tensors with a compressor_list
  GroupSize,      \* _nccl_group_size
  Credit,         \* the bytes a scheduled queue may have under way, 0: not scheduled
  InPlace,        \* task->output and task->tensor are the same
  OnCpu,          \* task->device is CPU_DEVICE_ID: gpu_ptr maps task->tensor
  MaxRound,       \* bound: the number of push_pulls of each tensor by each device
  Peers           \* the contribution of the other machines

Device == 0..(LocalSize - 1)
Root   == LocalSize - 1
Switch == 0..(LocalSize \div SwitchSize - 1)
Slice  == 0..(SwitchSize - 1)
Round  == 0..MaxRound
KeysOf(t)   == {KeyList[t][i] : i \in DOMAIN KeyList[t]}
Key         == UNION {KeysOf(t) : t \in Tensor}
TensorOf(k) == CHOOSE t \in Tensor : k \in KeysOf(t)

ASSUME PipelineAssumption ==
  /\ LocalSize \in Nat \ {0} /\ SwitchSize \in Nat \ {0} /\ LocalSize % SwitchSize = 0
  /\ Distributed \in BOOLEAN /\ InPlace \in BOOLEAN /\ OnCpu \in BOOLEAN
  /\ \A t, u \in Tensor : t # u => \/ \A i \in KeysOf(t), j \in KeysOf(u) : i < j
                                   \/ \A i \in KeysOf(t), j \in KeysOf(u) : j < i
  /\ \A t \in Tensor : Len(KeyList[t]) > 0 /\ \A i, j \in DOMAIN KeyList[t] : i < j => KeyList[t][i] < KeyList[t][j]
  /\ Key \subseteq Nat /\ KeyLen \in [Key -> Nat \ {0}]
  /\ Priority \in [Tensor -> Int]
  /\ Compressed \subseteq Tensor
  /\ GroupSize \in Nat \ {0} /\ Credit \in Nat /\ MaxRound \in Nat
  /\ Credit > 0 => \A k \in Key : KeyLen[k] <= Credit
  /\ Peers \notin Device

CrossPcie     == LocalSize > SwitchSize
Staged        == Distributed \/ CrossPcie
SwitchOf(d)   == d \div SwitchSize
Rank(d)       == d % SwitchSize
Members(w)    == {d \in Device : SwitchOf(d) = w}
LastSwitch    == LocalSize \div SwitchSize - 1

\* The communicators and their roots: all devices, those under a switch,
\* those of the same NCCL rank.
Comm == {"basic", "nccl", "cpu"}
CommRoot(c, d) ==
  CASE c = "basic" -> Root
    [] c = "nccl"  -> SwitchOf(d) * SwitchSize + SwitchSize - 1
    [] c = "cpu"   -> LastSwitch * SwitchSize + Rank(d)
IsRoot(c, d) == CommRoot(c, d) = d

QueueType == {"COORDINATE_REDUCE", "REDUCE", "COPYD2H", "PCIE_REDUCE", "COORDINATE_PUSH", "COMPRESS", "PUSH",
              "PULL", "DECOMPRESS", "COPYH2D", "COORDINATE_BROADCAST", "BROADCAST"}

VARIABLES
  initialized,   \* initialized[d][t]: InitTensor is done
  round,         \* round[d][t]: the push_pulls of t that d has enqueued
  active,        \* active[d][t]: enqueued, its callback not yet run
  unready,       \* unready[d]: the tensors whose ready_event has not fired
  counter,       \* counter[d][t]: *task->counter_ptr
  queue_list,    \* queue_list[d][k]: the stages left for the task of k, <<>> without a task
  sq,            \* sq[d][q]: the scheduled queue of stage q
  credits,       \* credits[d]: _credits of the REDUCE queue
  ready_table,   \* ready_table[d][name][k]
  socket,        \* socket[d][c]: the datagrams waiting at d's socket of communicator c
  announcing,    \* announcing[d]: <<stage, key>> moved on by a coordinate loop, signal not yet sent
  group,         \* group[d]: the <<stage, key>> tasks of the NCCL group being collected
  nccl_pipeline, \* nccl_pipeline[d]: the groups launched; done when their events are recorded
  pool,          \* the <<stage, key>> jobs in the root's thread pool
  inflight,      \* the ps-lite requests of the root under way; src: the bytes pushed if not the buffer's
  compressed,    \* compressed[k]: {} or {what task->compressed holds}
  cpubuff,       \* cpubuff[w][k]: the shared buffer of switch w; [data, enc: compressed bytes]
  server,        \* server[k]: what the servers hold of this machine's last push
  mem            \* mem[d][b][k][s]: slice s of task->tensor or task->output

frontend == <<initialized, round, active, unready, counter>>
queues   == <<queue_list, sq, credits>>
signals  == <<ready_table, socket, announcing>>
nccl     == <<group, nccl_pipeline>>
remote   == <<pool, inflight, compressed, server>>
memory   == <<cpubuff, mem>>
vars     == <<frontend, queues, signals, nccl, remote, memory>>

-----------------------------------------------------------------------------
(* GetPushQueueList, GetPullQueueList, and the two stages EnqueueTensor
   inserts at the root for a tensor with a compressor. *)

If(c, s) == IF c THEN s ELSE <<>>

GetPushQueueList(d) ==
  If(~IsRoot("nccl", d), <<"COORDINATE_REDUCE">>) \o <<"REDUCE">>
    \o If(Staged, <<"COPYD2H">>) \o If(CrossPcie, <<"PCIE_REDUCE">>)
    \o If(Staged, IF d = Root THEN <<"PUSH">> ELSE <<"COORDINATE_PUSH">>)

GetPullQueueList(d) ==
  If(Distributed /\ d = Root, <<"PULL">>) \o If(Staged, <<"COPYH2D">>)
    \o If(~IsRoot("nccl", d), <<"COORDINATE_BROADCAST">>) \o <<"BROADCAST">>

HasCompressor(d, t) == t \in Compressed /\ Distributed /\ d = Root

QueueList(d, t) ==
  LET list == GetPushQueueList(d) \o GetPullQueueList(d)
      n    == Len(GetPushQueueList(d))
  IN  IF HasCompressor(d, t)
        THEN SubSeq(list, 1, n - 1) \o <<"COMPRESS", "PUSH", "PULL", "DECOMPRESS">>
               \o SubSeq(list, n + 2, Len(list))
        ELSE list

(* ReadyTable *)

TableName == {"reduce", "broadcast", "pcie", "push", "copy"}

ReadyCount(name) ==
  CASE name \in {"reduce", "broadcast"} -> SwitchSize - 1
    [] name = "pcie" -> LastSwitch
    [] name = "push" -> LocalSize - 1
    [] name = "copy" -> 1

\* The count may not pass the limit: BPS_CHECK_LT ends the process.
MayAddReadyCount(d, name, k) == ready_table[d][name][k] < ReadyCount(name)

AddReadyCount(d, name, k) ==
  /\ MayAddReadyCount(d, name, k)
  /\ ready_table' = [ready_table EXCEPT ![d][name][k] = @ + 1]

\* _rt of a scheduled queue: the set holds at most one table.
Table(d, q) ==
  {name \in TableName :
     \/ name = "reduce"    /\ q = "REDUCE"    /\ IsRoot("nccl", d)
     \/ name = "broadcast" /\ q = "BROADCAST" /\ IsRoot("nccl", d)
     \/ name = "pcie"      /\ q = "PCIE_REDUCE" /\ IsRoot("cpu", d)
     \/ name = "push"      /\ q \in {"COMPRESS", "PUSH"} /\ d = Root
     \/ name = "copy"      /\ q = "COPYH2D" /\ d # Root}

(* BytePSScheduledQueue *)

Scheduled(d, q) == q = "REDUCE" /\ IsRoot("nccl", d) /\ Credit > 0

Eligible(d, q, k) ==
  /\ TensorOf(k) \notin unready[d]
  /\ Scheduled(d, q) => KeyLen[k] <= credits[d]
  /\ \A name \in Table(d, q) : ready_table[d][name][k] = ReadyCount(name)

\* getTask() returns the task of k: the first in the queue that may run.
IsNext(d, q, k) ==
  \E i \in DOMAIN sq[d][q] :
    /\ sq[d][q][i] = k
    /\ Eligible(d, q, k)
    /\ \A j \in 1..(i - 1) : ~Eligible(d, q, sq[d][q][j])

\* Mutant: the count of signals stays in the table.
GetTaskKeepsCount(d, q, k) == IsNext(d, q, k) /\ UNCHANGED ready_table

GetTask(d, q, k) ==
  /\ IsNext(d, q, k)
  /\ ready_table' = [ready_table EXCEPT ![d] =
       [name \in TableName |-> IF name \in Table(d, q) THEN [@[name] EXCEPT ![k] = 0] ELSE @[name]]]

\* The queues after the task of k has left queue q.
Without(d, q, k) == [sq EXCEPT ![d][q] = SelectSeq(@, LAMBDA j : j # k)]

Before(j, k) ==
  LET p == Priority[TensorOf(j)]
      r == Priority[TensorOf(k)]
  IN  p > r \/ (p = r /\ j < k)

\* Mutant: a scheduled queue is not sorted.
AddTasksUnsorted(qs, d, q, ks) == [qs EXCEPT ![d][q] = @ \o ks]

\* addTask of the tasks ks in turn, partitions of one tensor in ascending order.
AddTasks(qs, d, q, ks) ==
  [qs EXCEPT ![d][q] =
     IF Scheduled(d, q)
       THEN SelectSeq(@, LAMBDA j : Before(j, ks[1])) \o ks \o SelectSeq(@, LAMBDA j : ~Before(j, ks[1]))
       ELSE @ \o ks]

\* Mutant: the credits of a finished task are lost.
ReportFinishLost(d, q, k) == UNCHANGED credits

ReportFinish(d, q, k) ==
  credits' = IF Scheduled(d, q) THEN [credits EXCEPT ![d] = @ + KeyLen[k]] ELSE credits

\* Mutant: any partition that ends runs the callback.
LastPartAny(d, t) == TRUE

\* fetch_add returned total_partnum - 1: this partition ends the tensor.
LastPart(d, t) == counter[d][t] = Len(KeyList[t]) - 1

\* FinishOrProceed, the queues being qs: on to the next stage, or count the
\* partition and run the callback after the last one.
FinishOrProceed(d, k, qs) ==
  LET rest == Tail(queue_list[d][k])
      t    == TensorOf(k)
  IN  /\ ReportFinish(d, Head(queue_list[d][k]), k)
      /\ queue_list' = [queue_list EXCEPT ![d][k] = rest]
      /\ IF rest # <<>>
           THEN /\ sq' = AddTasks(qs, d, Head(rest), <<k>>)
                /\ UNCHANGED <<counter, active>>
           ELSE /\ sq' = qs
                /\ counter' = [counter EXCEPT ![d][t] = @ + 1]
                /\ active'  = IF LastPart(d, t) THEN [active EXCEPT ![d][t] = FALSE] ELSE active
      /\ UNCHANGED <<initialized, round, unready>>

-----------------------------------------------------------------------------
(* Memory *)

Buffer      == IF InPlace THEN {"tensor"} ELSE {"tensor", "output"}
Output      == IF InPlace THEN "tensor" ELSE "output"

\* The address the copies to the device and the broadcast work on.
DevicePtr   == IF OnCpu THEN "tensor" ELSE Output
\* The address the copy to the host reads: after an NCCL reduce, the output.
ReducedPtr  == IF SwitchSize > 1 THEN DevicePtr ELSE "tensor"
Plain(data) == [data |-> data, enc |-> FALSE]
Empty       == [s \in Slice |-> {}]

\* The sum of two slices; a gradient that is in both leaves the mark of round 0.
Sum(a, b) == a \cup b \cup {<<g[1], 0>> : g \in a \cap b}

\* What the callback promises for round r: every gradient of the round.
Whole(r) == {<<d, r>> : d \in Device} \cup (IF Distributed THEN {<<Peers, r>>} ELSE {})

Init ==
  /\ initialized   = [d \in Device |-> [t \in Tensor |-> FALSE]]
  /\ round         = [d \in Device |-> [t \in Tensor |-> 0]]
  /\ active        = [d \in Device |-> [t \in Tensor |-> FALSE]]
  /\ unready       = [d \in Device |-> {}]
  /\ counter       = [d \in Device |-> [t \in Tensor |-> 0]]
  /\ queue_list    = [d \in Device |-> [k \in Key |-> <<>>]]
  /\ sq            = [d \in Device |-> [q \in QueueType |-> <<>>]]
  /\ credits       = [d \in Device |-> Credit]
  /\ ready_table   = [d \in Device |-> [name \in TableName |-> [k \in Key |-> 0]]]
  /\ socket        = [d \in Device |-> [c \in Comm |-> <<>>]]
  /\ announcing    = [d \in Device |-> {}]
  /\ group         = [d \in Device |-> <<>>]
  /\ nccl_pipeline = [d \in Device |-> <<>>]
  /\ pool          = {}
  /\ inflight      = {}
  /\ compressed    = [k \in Key |-> {}]
  /\ cpubuff       = [w \in Switch |-> [k \in Key |-> Plain(Empty)]]
  /\ server        = [k \in Key |-> Plain(Empty)]
  /\ mem           = [d \in Device |-> [b \in Buffer |-> [k \in Key |-> Empty]]]

-----------------------------------------------------------------------------
(* The framework's side *)

\* InitTensor; the root of a distributed job returns from its blocking push here.
InitTensor(d, t) ==
  /\ ~initialized[d][t]
  /\ initialized' = [initialized EXCEPT ![d][t] = TRUE]
  /\ UNCHANGED <<round, active, unready, counter, queues, signals, nccl, remote, memory>>

\* Mutant: the framework enqueues a tensor that is still under way.
EnqueueTensorAgain(d, t) ==
  /\ initialized[d][t] /\ round[d][t] < MaxRound
  /\ round'      = [round EXCEPT ![d][t] = @ + 1]
  /\ active'     = [active EXCEPT ![d][t] = TRUE]
  /\ unready'    = [unready EXCEPT ![d] = @ \cup {t}]
  /\ counter'    = [counter EXCEPT ![d][t] = 0]
  /\ queue_list' = [queue_list EXCEPT ![d] = [k \in Key |-> IF k \in KeysOf(t) THEN QueueList(d, t) ELSE @[k]]]
  /\ sq'         = AddTasks(sq, d, QueueList(d, t)[1], KeyList[t])
  /\ UNCHANGED <<initialized, credits, signals, nccl, remote, memory>>

\* EnqueueTensor: the framework calls it again only after the callback.
EnqueueTensor(d, t) ==
  /\ initialized[d][t] /\ ~active[d][t]
  /\ round[d][t] < MaxRound
  /\ round'      = [round EXCEPT ![d][t] = @ + 1]
  /\ active'     = [active EXCEPT ![d][t] = TRUE]
  /\ unready'    = [unready EXCEPT ![d] = @ \cup {t}]
  /\ counter'    = [counter EXCEPT ![d][t] = 0]
  /\ queue_list' = [queue_list EXCEPT ![d] = [k \in Key |-> IF k \in KeysOf(t) THEN QueueList(d, t) ELSE @[k]]]
  /\ sq'         = AddTasks(sq, d, QueueList(d, t)[1], KeyList[t])
  /\ mem'        = [mem EXCEPT ![d]["tensor"] =
                      [k \in Key |-> IF k \in KeysOf(t) THEN [s \in Slice |-> {<<d, round'[d][t]>>}] ELSE @[k]]]
  /\ UNCHANGED <<initialized, credits, signals, nccl, remote, cpubuff>>

\* ready_event: the GPU has computed the gradient.
GradientReady(d, t) ==
  /\ t \in unready[d]
  /\ unready' = [unready EXCEPT ![d] = @ \ {t}]
  /\ UNCHANGED <<initialized, round, active, counter, queues, signals, nccl, remote, memory>>

-----------------------------------------------------------------------------
(* The coordinate loops *)

CoordinateOp == {"COORDINATE_REDUCE", "COORDINATE_BROADCAST", "COORDINATE_PUSH"}
CommOf(op)   == IF op = "COORDINATE_PUSH" THEN "basic" ELSE "nccl"
SignalOf(op) == CASE op = "COORDINATE_REDUCE"    -> "REDUCE_READY"
                  [] op = "COORDINATE_BROADCAST" -> "BCAST_READY"
                  [] op = "COORDINATE_PUSH"      -> "PUSH_READY"

Send(s, d, c, sig, k) == [s EXCEPT ![d][c] = Append(@, <<sig, k>>)]

\* RunCoordinateLoopOnce, first half: the task goes to its next queue ...
Coordinate(d, op) ==
  /\ \A a \in announcing[d] : a[1] # op
  /\ \E k \in Key :
       /\ GetTask(d, op, k)
       /\ FinishOrProceed(d, k, Without(d, op, k))
       /\ announcing' = [announcing EXCEPT ![d] = @ \cup {<<op, k>>}]
  /\ UNCHANGED <<socket, nccl, remote, memory>>

\* ... second half: and then the root is told.
SendCoordinate(d, op) ==
  \E k \in Key :
    /\ <<op, k>> \in announcing[d]
    /\ announcing' = [announcing EXCEPT ![d] = @ \ {<<op, k>>}]
    /\ socket' = Send(socket, CommRoot(CommOf(op), d), CommOf(op), SignalOf(op), k)
    /\ UNCHANGED <<frontend, queues, ready_table, nccl, remote, memory>>

\* startListenThread of the root of communicator c.
TableOf(sig) ==
  CASE sig = "REDUCE_READY"      -> "reduce"
    [] sig = "BCAST_READY"       -> "broadcast"
    [] sig = "PUSH_READY"        -> "push"
    [] sig = "PCIE_REDUCE_READY" -> "pcie"

Listen(d, c) ==
  /\ IsRoot(c, d) /\ socket[d][c] # <<>>
  /\ AddReadyCount(d, TableOf(Head(socket[d][c])[1]), Head(socket[d][c])[2])
  /\ socket' = [socket EXCEPT ![d][c] = Tail(@)]
  /\ UNCHANGED <<frontend, queues, announcing, nccl, remote, memory>>

-----------------------------------------------------------------------------
(* The NCCL loops *)

TasksIn(d, op) == {i \in DOMAIN group[d] : group[d][i][1] = op}

\* The inner loop over op ends: the group is full or getTask finds nothing.
Exhausted(d, op) ==
  \/ Cardinality(TasksIn(d, op)) = GroupSize
  \/ \A k \in Key : ~IsNext(d, op, k)

\* RunRootNcclLoopOnce is past its loop over REDUCE.
ReduceOver(d) == TasksIn(d, "BROADCAST") # {} \/ Exhausted(d, "REDUCE")

BroadcastSignal(d, c, sig, k) ==
  [e \in Device |-> [b \in Comm |->
     IF b = c /\ e # d /\ CommRoot(c, e) = d THEN Append(socket[e][b], <<sig, k>>) ELSE socket[e][b]]]

DoSignal(op) == IF op = "REDUCE" THEN "DO_REDUCE" ELSE "DO_BROADCAST"

\* RunRootNcclLoopOnce, one turn of an inner loop: take a task, tell the other
\* devices of the switch, post the call.
RootNccl(d, op) ==
  /\ IsRoot("nccl", d)
  /\ IF op = "REDUCE" THEN TasksIn(d, "BROADCAST") = {} ELSE ReduceOver(d)
  /\ ~Exhausted(d, op)
  /\ \E k \in Key :
       /\ GetTask(d, op, k)
       /\ sq'      = Without(d, op, k)
       /\ credits' = IF Scheduled(d, op) THEN [credits EXCEPT ![d] = @ - KeyLen[k]] ELSE credits
       /\ group'   = [group EXCEPT ![d] = Append(@, <<op, k>>)]
       /\ socket'  = BroadcastSignal(d, "nccl", DoSignal(op), k)
  /\ UNCHANGED <<frontend, queue_list, announcing, nccl_pipeline, remote, memory>>

EnqueueGroup(d) ==
  /\ nccl_pipeline' = [nccl_pipeline EXCEPT ![d] = Append(@, [tasks |-> group[d], done |-> FALSE])]
  /\ group' = [group EXCEPT ![d] = <<>>]

\* RunRootNcclLoopOnce, the end: DO_GROUP and ncclGroupEnd.
RootNcclGroup(d) ==
  /\ IsRoot("nccl", d)
  /\ group[d] # <<>> /\ ReduceOver(d) /\ Exhausted(d, "BROADCAST")
  /\ socket' = BroadcastSignal(d, "nccl", "DO_GROUP", 0)
  /\ EnqueueGroup(d)
  /\ UNCHANGED <<frontend, queues, ready_table, announcing, remote, memory>>

\* Mutant: each call is a group of its own.
NonRootNcclAlone(d) ==
  /\ ~IsRoot("nccl", d) /\ socket[d]["nccl"] # <<>>
  /\ socket' = [socket EXCEPT ![d]["nccl"] = Tail(@)]
  /\ LET sig == Head(socket[d]["nccl"])[1]
         k   == Head(socket[d]["nccl"])[2]
         op  == IF sig = "DO_BROADCAST" THEN "BROADCAST" ELSE "REDUCE"
     IN  IF sig = "DO_GROUP"
           THEN UNCHANGED <<sq, nccl_pipeline>>
           ELSE /\ sq' = Without(d, op, k)
                /\ nccl_pipeline' = [nccl_pipeline EXCEPT ![d] = Append(@, [tasks |-> <<<<op, k>>>>, done |-> FALSE])]
  /\ UNCHANGED <<frontend, queue_list, credits, ready_table, announcing, group, remote, memory>>

InQueue(d, q, k) == \E i \in DOMAIN sq[d][q] : sq[d][q][i] = k

\* RunNonRootNcclLoopOnce, one signal of the root: getTask(key), or the end.
NonRootNccl(d) ==
  /\ ~IsRoot("nccl", d) /\ socket[d]["nccl"] # <<>>
  /\ socket' = [socket EXCEPT ![d]["nccl"] = Tail(@)]
  /\ LET sig == Head(socket[d]["nccl"])[1]
         k   == Head(socket[d]["nccl"])[2]
         op  == IF sig = "DO_BROADCAST" THEN "BROADCAST" ELSE "REDUCE"
     IN  \/ /\ sig = "DO_GROUP"
            /\ EnqueueGroup(d)
            /\ UNCHANGED sq
         \/ /\ sig # "DO_GROUP"
            /\ InQueue(d, op, k)
            /\ sq'    = Without(d, op, k)
            /\ group' = [group EXCEPT ![d] = Append(@, <<op, k>>)]
            /\ UNCHANGED nccl_pipeline
  /\ UNCHANGED <<frontend, queue_list, credits, ready_table, announcing, remote, memory>>

\* The GPUs (external): the calls of a group run once every device under the
\* switch has launched it.  A group is launched on one stream, in order.
Launched(d) == {i \in DOMAIN nccl_pipeline[d] : ~nccl_pipeline[d][i].done}
First(d)    == CHOOSE i \in Launched(d) : \A j \in Launched(d) : i <= j
Calls(d)    == nccl_pipeline[d][First(d)].tasks

Collective(b, d, k, calls) ==
  CASE b = Output /\ <<"REDUCE", k>> \in calls
         -> [mem[d][b][k] EXCEPT ![Rank(d)] =
               UNION {mem[e]["tensor"][k][Rank(d)] : e \in Members(SwitchOf(d))}]
    [] b = DevicePtr /\ <<"BROADCAST", k>> \in calls
         -> [s \in Slice |-> mem[SwitchOf(d) * SwitchSize + s][b][k][s]]
    [] OTHER -> mem[d][b][k]

RunCollectives(w) ==
  /\ \A d \in Members(w) : Launched(d) # {}
  /\ \A d, e \in Members(w) : Calls(d) = Calls(e)
  /\ nccl_pipeline' = [d \in Device |-> IF d \in Members(w) THEN [nccl_pipeline[d] EXCEPT ![First(d)].done = TRUE]
                                                            ELSE nccl_pipeline[d]]
  /\ mem' = IF SwitchSize = 1
              THEN mem
              ELSE [d \in Device |-> IF d \in Members(w)
                                       THEN [b \in Buffer |-> [k \in Key |-> Collective(b, d, k, {Calls(d)[i] : i \in DOMAIN Calls(d)})]]
                                       ELSE mem[d]]
  /\ UNCHANGED <<frontend, queues, signals, group, remote, cpubuff>>

\* RunSyncNcclOnce, one task of the oldest group: FinishOrProceed.
SyncNccl(d) ==
  /\ nccl_pipeline[d] # <<>> /\ nccl_pipeline[d][1].done
  /\ LET tasks == nccl_pipeline[d][1].tasks
     IN  /\ FinishOrProceed(d, tasks[1][2], sq)
         /\ nccl_pipeline' = [nccl_pipeline EXCEPT ![d] =
              IF Len(tasks) = 1 THEN Tail(@) ELSE [@ EXCEPT ![1].tasks = Tail(tasks)]]
  /\ UNCHANGED <<signals, group, remote, memory>>

-----------------------------------------------------------------------------
(* The copies between the device and the shared CPU buffer *)

\* RunCopyDevice2HostLoopOnce: the device's slice, into the buffer of its switch.
CopyDevice2Host(d) ==
  /\ \E k \in Key :
       /\ GetTask(d, "COPYD2H", k)
       /\ cpubuff' = [cpubuff EXCEPT ![SwitchOf(d)][k].data[Rank(d)] = mem[d][ReducedPtr][k][Rank(d)],
                                     ![SwitchOf(d)][k].enc = FALSE]
       /\ FinishOrProceed(d, k, Without(d, "COPYD2H", k))
  /\ UNCHANGED <<socket, announcing, nccl, remote, mem>>

\* RunPcieReduceLoopOnce: the root of each NCCL rank adds the first switch's slice to the last one's.
PcieReduce(d) ==
  /\ \E k \in Key :
       /\ GetTask(d, "PCIE_REDUCE", k)
       /\ IF IsRoot("cpu", d)
            THEN /\ cpubuff' = [cpubuff EXCEPT ![LastSwitch][k].data[Rank(d)] = Sum(@, cpubuff[0][k].data[Rank(d)])]
                 /\ UNCHANGED socket
            ELSE /\ socket' = Send(socket, CommRoot("cpu", d), "cpu", "PCIE_REDUCE_READY", k)
                 /\ UNCHANGED cpubuff
       /\ FinishOrProceed(d, k, Without(d, "PCIE_REDUCE", k))
  /\ UNCHANGED <<announcing, nccl, remote, mem>>

\* CopyHost2Device: the device's slice of the last switch's buffer.
\* Compressed bytes are not a sum of anything.
FromHost(d, k) ==
  [mem EXCEPT ![d][DevicePtr][k][Rank(d)] =
     IF cpubuff[LastSwitch][k].enc THEN {} ELSE cpubuff[LastSwitch][k].data[Rank(d)]]

RootCopyHost2Device ==
  /\ \E k \in Key :
       /\ GetTask(Root, "COPYH2D", k)
       /\ socket' = BroadcastSignal(Root, "basic", "DO_COPYH2D", k)
       /\ mem'    = FromHost(Root, k)
       /\ FinishOrProceed(Root, k, Without(Root, "COPYH2D", k))
  /\ UNCHANGED <<announcing, nccl, remote, cpubuff>>

NonRootCopyListen(d) ==
  /\ d # Root /\ socket[d]["basic"] # <<>>
  /\ AddReadyCount(d, "copy", Head(socket[d]["basic"])[2])
  /\ socket' = [socket EXCEPT ![d]["basic"] = Tail(@)]
  /\ UNCHANGED <<frontend, queues, announcing, nccl, remote, memory>>

NonRootCopyHost2Device(d) ==
  /\ d # Root
  /\ \E k \in Key :
       /\ GetTask(d, "COPYH2D", k)
       /\ mem' = FromHost(d, k)
       /\ FinishOrProceed(d, k, Without(d, "COPYH2D", k))
  /\ UNCHANGED <<socket, announcing, nccl, remote, cpubuff>>

-----------------------------------------------------------------------------
(* The root's loops towards the servers *)

ToRemote(op, k) ==
  /\ GetTask(Root, op, k)
  /\ sq' = Without(Root, op, k)
  /\ UNCHANGED <<frontend, queue_list, credits, socket, announcing, nccl, memory>>

\* RunCompressLoopOnce and RunDecompressLoopOnce hand the work to the pool.
SpawnJob(op) ==
  \E k \in Key :
    /\ ToRemote(op, k)
    /\ pool' = pool \cup {<<op, k>>}
    /\ UNCHANGED <<inflight, compressed, server>>

\* Mutant: the count that COMPRESS has cleared is not restored for PUSH.
CompressJobNoReset ==
  \E k \in Key :
    /\ <<"COMPRESS", k>> \in pool
    /\ pool'       = pool \ {<<"COMPRESS", k>>}
    /\ compressed' = [compressed EXCEPT ![k] = {cpubuff[LastSwitch][k].data}]
    /\ FinishOrProceed(Root, k, sq)
    /\ UNCHANGED <<signals, nccl, inflight, server, memory>>

\* The queue after COMPRESS shares its table, which getTask has cleared.
CompressJob ==
  \E k \in Key :
    /\ <<"COMPRESS", k>> \in pool
    /\ pool'        = pool \ {<<"COMPRESS", k>>}
    /\ compressed'  = [compressed EXCEPT ![k] = {cpubuff[LastSwitch][k].data}]
    /\ ready_table' = [ready_table EXCEPT ![Root]["push"][k] = LocalSize - 1]
    /\ FinishOrProceed(Root, k, sq)
    /\ UNCHANGED <<socket, announcing, nccl, inflight, server, memory>>

DecompressJob ==
  \E k \in Key :
    /\ <<"DECOMPRESS", k>> \in pool
    /\ pool'    = pool \ {<<"DECOMPRESS", k>>}
    /\ cpubuff' = [cpubuff EXCEPT ![LastSwitch][k].enc = FALSE]
    /\ FinishOrProceed(Root, k, sq)
    /\ UNCHANGED <<signals, nccl, inflight, compressed, server, mem>>

\* RunPushLoopOnce, a real push ...
Push ==
  /\ Distributed
  /\ \E k \in Key :
       /\ ToRemote("PUSH", k)
       /\ inflight'   = inflight \cup {[op |-> "PUSH", key |-> k, src |-> compressed[k]]}
       /\ compressed' = [compressed EXCEPT ![k] = {}]
  /\ UNCHANGED <<pool, server>>

\* ... or a dummy barrier across PCIe switches.
PushBarrier ==
  /\ ~Distributed
  /\ \E k \in Key : GetTask(Root, "PUSH", k) /\ FinishOrProceed(Root, k, Without(Root, "PUSH", k))
  /\ UNCHANGED <<socket, announcing, nccl, remote, memory>>

\* RunPullLoopOnce.
Pull ==
  /\ \E k \in Key :
       /\ ToRemote("PULL", k)
       /\ inflight' = inflight \cup {[op |-> "PULL", key |-> k, src |-> {}]}
  /\ UNCHANGED <<pool, compressed, server>>

\* The callback of ZPush.  ps-lite sends from the buffer itself, so the
\* server has its content of any moment before the answer: here, the last.
PushDone ==
  \E req \in inflight :
    /\ req.op = "PUSH"
    /\ inflight' = inflight \ {req}
    /\ server' = [server EXCEPT ![req.key] =
         IF req.src = {} THEN Plain(cpubuff[LastSwitch][req.key].data)
                         ELSE [data |-> CHOOSE x \in req.src : TRUE, enc |-> TRUE]]
    /\ FinishOrProceed(Root, req.key, sq)
    /\ UNCHANGED <<signals, nccl, pool, compressed, memory>>

\* The callback of ZPull: the buffer holds the sum over all machines.
PullDone ==
  \E req \in inflight :
    /\ req.op = "PULL"
    /\ inflight' = inflight \ {req}
    /\ cpubuff' = [cpubuff EXCEPT ![LastSwitch][req.key] =
         [server[req.key] EXCEPT !.data =
            [s \in Slice |-> @[s] \cup {<<Peers, round[Root][TensorOf(req.key)]>>}]]]
    /\ FinishOrProceed(Root, req.key, sq)
    /\ UNCHANGED <<signals, nccl, pool, compressed, server, mem>>

-----------------------------------------------------------------------------
Terminated ==
  /\ \A d \in Device, t \in Tensor : round[d][t] = MaxRound /\ ~active[d][t]
  /\ UNCHANGED vars

FrontendStep(d)   == \E t \in Tensor : InitTensor(d, t) \/ EnqueueTensor(d, t) \/ GradientReady(d, t)
CoordinateStep(d) == \E op \in CoordinateOp : Coordinate(d, op) \/ SendCoordinate(d, op)
NcclStep(d)       == RootNccl(d, "REDUCE") \/ RootNccl(d, "BROADCAST") \/ RootNcclGroup(d) \/ NonRootNccl(d)
CopyStep(d)       == CopyDevice2Host(d) \/ PcieReduce(d) \/ NonRootCopyListen(d) \/ NonRootCopyHost2Device(d)
RootStep          == \/ SpawnJob("COMPRESS") \/ CompressJob \/ Push \/ PushBarrier \/ PushDone
                     \/ Pull \/ PullDone \/ SpawnJob("DECOMPRESS") \/ DecompressJob \/ RootCopyHost2Device

Next ==
  \/ \E d \in Device : FrontendStep(d) \/ CoordinateStep(d) \/ NcclStep(d) \/ SyncNccl(d) \/ CopyStep(d)
  \/ \E d \in Device, c \in Comm : Listen(d, c)
  \/ \E w \in Switch : RunCollectives(w)
  \/ RootStep
  \/ Terminated

Spec == Init /\ [][Next]_vars

-----------------------------------------------------------------------------
(* Properties *)

Contribution == (Device \cup {Peers}) \X Round
Data         == [Slice -> SUBSET Contribution]
Task         == {"REDUCE", "BROADCAST"} \X Key

\* Every variable of the pipeline has the type its declaration in the code gives it.
TypeOK ==
  /\ initialized \in [Device -> [Tensor -> BOOLEAN]]
  /\ round \in [Device -> [Tensor -> Round]]
  /\ active \in [Device -> [Tensor -> BOOLEAN]]
  /\ unready \in [Device -> SUBSET Tensor]
  /\ \A d \in Device : \A t \in Tensor : counter[d][t] \in 0..Len(KeyList[t])
  /\ \A d \in Device, k \in Key : \A i \in DOMAIN queue_list[d][k] : queue_list[d][k][i] \in QueueType
  /\ \A d \in Device, q \in QueueType : \A i \in DOMAIN sq[d][q] : sq[d][q][i] \in Key
  /\ credits \in [Device -> 0..Credit]
  /\ \A d \in Device, name \in TableName, k \in Key : ready_table[d][name][k] \in 0..ReadyCount(name)
  /\ \A d \in Device : announcing[d] \subseteq CoordinateOp \X Key
  /\ \A d \in Device : \A i \in DOMAIN group[d] : group[d][i] \in Task
  /\ pool \subseteq {"COMPRESS", "DECOMPRESS"} \X Key
  /\ \A req \in inflight : req.op \in {"PUSH", "PULL"} /\ req.key \in Key /\ req.src \subseteq Data
  /\ \A k \in Key : compressed[k] \subseteq Data
  /\ \A w \in Switch, k \in Key : cpubuff[w][k].data \in Data /\ cpubuff[w][k].enc \in BOOLEAN
  /\ \A d \in Device, b \in Buffer, k \in Key : mem[d][b][k] \in Data

\* The BPS_CHECKs a thread meets on another device's signal hold: a ready count
\* never passes its limit (AddReadyCount), the task the root names is waiting in
\* the queue of the device that is told to run it (getTask(key), of which
\* RunCoordinateLoopOnce says "to guarantee the entry is available"), and COMPRESS
\* finds no leftover of the last round.
ChecksHold ==
  /\ \A d \in Device, c \in Comm :
       (IsRoot(c, d) /\ socket[d][c] # <<>>) =>
         MayAddReadyCount(d, TableOf(Head(socket[d][c])[1]), Head(socket[d][c])[2])
  /\ \A d \in Device \ {Root} :
       socket[d]["basic"] # <<>> => MayAddReadyCount(d, "copy", Head(socket[d]["basic"])[2])
  /\ \A d \in Device : ~IsRoot("nccl", d) =>
       \A i \in DOMAIN socket[d]["nccl"] :
         /\ socket[d]["nccl"][i][1] = "DO_REDUCE"    => InQueue(d, "REDUCE", socket[d]["nccl"][i][2])
         /\ socket[d]["nccl"][i][1] = "DO_BROADCAST" => InQueue(d, "BROADCAST", socket[d]["nccl"][i][2])
  /\ \A k \in Key : InQueue(Root, "COMPRESS", k) => compressed[k] = {}

\* NCCL hangs when the devices of a communicator post different calls: the
\* groups that the root and the other devices launch are the same, in the same order.
NcclCallsMatch ==
  \A d, e \in Device :
    (SwitchOf(d) = SwitchOf(e) /\ Launched(d) # {} /\ Launched(e) # {}) => Calls(d) = Calls(e)

\* When the callback of a push_pull has run on a device, its output is the sum of
\* the gradients of that round over all devices and machines, in every slice.
ResultIsSum ==
  \A d \in Device, t \in Tensor : (round[d][t] > 0 /\ ~active[d][t]) =>
    \A k \in KeysOf(t), s \in Slice : mem[d][Output][k][s] = Whole(round[d][t])

\* A push_pull into another tensor leaves its input as it is, from the call to the next.
InputNotModified ==
  ~InPlace => \A d \in Device, t \in Tensor : round[d][t] > 0 =>
    \A k \in KeysOf(t), s \in Slice : mem[d]["tensor"][k][s] = {<<d, round[d][t]>>}

\* The credits of a scheduled REDUCE queue and the bytes of the tasks it has under
\* way always make up the budget: getTask takes what reportFinish gives back.
CreditsConserved ==
  Credit > 0 => \A d \in Device : IsRoot("nccl", d) =>
    LET reducing == {k \in Key :
                       \/ \E i \in DOMAIN group[d] : group[d][i] = <<"REDUCE", k>>
                       \/ \E i \in DOMAIN nccl_pipeline[d] :
                            \E j \in DOMAIN nccl_pipeline[d][i].tasks : nccl_pipeline[d][i].tasks[j] = <<"REDUCE", k>>}
    IN  credits[d] + MapThenSumSet(LAMBDA k : KeyLen[k], reducing) = Credit

StartsToReduce(d, k) ==
  Credit > 0 /\ Len(group'[d]) > Len(group[d]) /\ group'[d][Len(group'[d])] = <<"REDUCE", k>> /\ IsRoot("nccl", d)

MustWait(d, k) == \A j \in Key : (InQueue(d, "REDUCE", j) /\ Before(j, k)) => ~Eligible(d, "REDUCE", j)

\* A scheduled queue never passes over a partition of higher priority that could
\* run: when the root starts to reduce k, what stands before k has to wait.
PriorityFirst == [][\A d \in Device, k \in Key : StartsToReduce(d, k) => MustWait(d, k)]_vars

\* Every push_pull that a device has enqueued calls back: no partition is left in
\* a queue, and no device waits for a signal that does not come.
CallbackRuns == \A d \in Device, t \in Tensor : active[d][t] ~> ~active[d][t]

\* The devices of a machine are to one tensor what the workers are to a key of the
\* server: a device is inside from EnqueueTensor to its callback.
Barrier == INSTANCE PushPull WITH
  Worker <- Device, Key <- Tensor, inside <- active, round <- round,
  ready <- [t \in Tensor |-> \E d \in Device : initialized[d][t]]

\* The pipeline is the same barrier: no callback (core_loops.cc:116) of round r runs
\* before every device has enqueued round r.
ImplementsPushPull == Barrier!ASpec
=============================================================================
