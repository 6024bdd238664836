------------------------------ MODULE Launcher ------------------------------
(***************************************************************************)
(* The launchers: dist_launcher.py starts launch.py over ssh on the hosts  *)
(* of the scheduler, the workers and the servers; launch.py starts the     *)
(* processes of its host, on a worker one thread and one process per GPU,  *)
(* bound to CPUs.  Where a user starts launch.py on the hosts by hand, the *)
(* environment may lack some of what it requires (script.missing).         *)
(*                                                                         *)
(* A process of the training ends well only together with all others (they *)
(* wait for each other in every push_pull); one of script.fails fails.     *)
(***************************************************************************)
EXTENDS CpuAllocation, FiniteSets

CONSTANTS
  Scripts  \* [workers, servers: Seq({"host", "blank"}), gpus: Nat, force, bind: BOOLEAN,
           \*  machine: [topology, mt, quota, root_quota, blacklist, numactl], cores: Seq,
           \*  missing \subseteq {"common", "worker_id"}, fails]

VARIABLES
  script,    \* workers, servers: the lines of the host files; force: BYTEPS_FORCE_DISTRIBUTED;
             \* bind: BYTEPS_NUMA_ON; cores: BYTEPS_VISIBLE_CPU_CORES;
             \* missing: one of COMMON_REQUIRED_ENVS, DMLC_WORKER_ID
  envs,      \* pass_envs of submit()
  submitted, \* how many hosts submit() has gone through
  ssh,       \* ssh[h]: the command that the ssh thread of host h was given, its environment
  launch,    \* launch[h]: where launch.py is on host h
  next,      \* next[h]: the thread that it starts or joins next
  nodes,     \* nodes[h]: the CPUs of each NUMA node that allocate_cpu has left
  allocations, \* allocations[h]: those it has allocated, a sequence of runs for each process
  process    \* process[h][i]: the process of thread i, with its rank and CPUs

cpus == <<nodes, allocations>>
vars == <<script, envs, submitted, ssh, launch, next, cpus, process>>

GetHostsFromFile(lines) == SelectSeq(lines, LAMBDA line : line # "blank")

NumWorker == Len(GetHostsFromFile(script.workers))
NumServer == Len(GetHostsFromFile(script.servers))

\* The hosts in the order of submit().
Hosts ==
  <<[role |-> "scheduler", id |-> 0]>>
    \o [i \in 1..NumWorker |-> [role |-> "worker", id |-> i - 1]]
    \o [i \in 1..NumServer |-> [role |-> "server", id |-> i - 1]]

Host    == DOMAIN Hosts
Workers == {h \in Host : Hosts[h].role = "worker"}
Thread  == 0..(script.gpus - 1)

Absent == [state |-> "absent", rank |-> 0, cpus |-> {}]

Init ==
  /\ script    \in Scripts
  /\ envs      = [role |-> "none", worker_id |-> -1]
  /\ submitted = 0
  /\ ssh       = [h \in Host |-> envs]
  /\ launch    = [h \in Host |-> "absent"]
  /\ next      = [h \in Host |-> 0]
  /\ nodes     = [h \in Host |-> <<>>]
  /\ allocations = [h \in Host |-> <<>>]
  /\ process   = [h \in Host |-> [i \in Thread |-> Absent]]

-----------------------------------------------------------------------------
(* dist_launcher.py *)

\* submit(): the environment of the next host.  DMLC_WORKER_ID stays set for the servers.
Envs(host) ==
  [role      |-> host.role,
   worker_id |-> IF host.role = "worker" /\ "worker_id" \notin script.missing THEN host.id ELSE envs.worker_id]

\* The assertions of submit().
Refused == NumWorker = 0 \/ NumServer = 0

\* start_ssh() for the next host; the command has been put together before.
Submit ==
  /\ ~Refused /\ submitted < Len(Hosts)
  /\ submitted' = submitted + 1
  /\ envs' = Envs(Hosts[submitted'])
  /\ ssh'  = [ssh EXCEPT ![submitted'] = envs']
  /\ UNCHANGED <<script, launch, next, cpus, process>>

Command(h) == ssh[h]

\* The thread runs ssh in the background, and launch.py starts on the host.
RunSsh(h) ==
  /\ h <= submitted /\ launch[h] = "absent"
  /\ ssh'    = [ssh EXCEPT ![h] = Command(h)]
  /\ launch' = [launch EXCEPT ![h] = "check_env"]
  /\ UNCHANGED <<script, envs, submitted, next, cpus, process>>

-----------------------------------------------------------------------------
(* launch.py *)

Distributed == NumWorker > 1 \/ script.force

\* check_env: the only worker of a job needs no more than its id.
EnvMissing(h) ==
  \/ "common" \in script.missing /\ (ssh[h].role = "worker" => NumWorker > 1)
  \/ "worker_id" \in script.missing /\ ssh[h].role = "worker"

\* os._exit(0), with nothing but a message.
CheckEnv(h) ==
  /\ launch[h] = "check_env" /\ EnvMissing(h)
  /\ launch' = [launch EXCEPT ![h] = "exit"]
  /\ UNCHANGED <<script, envs, submitted, ssh, next, cpus, process>>

\* launch_bps on the scheduler and the servers.
LaunchServer(h) ==
  /\ launch[h] = "check_env" /\ ~EnvMissing(h) /\ ssh[h].role # "worker"
  /\ launch' = [launch EXCEPT ![h] = IF Distributed THEN "serving" ELSE "exit"]
  /\ UNCHANGED <<script, envs, submitted, ssh, next, cpus, process>>

\* On a worker: BYTEPS_VISIBLE_CPU_CORES lists the CPUs (parse_num_range), or allocate_cpu
\* looks at the NUMA nodes, and returns None where it finds none.
LaunchWorker(h) ==
  /\ launch[h] = "check_env" /\ ~EnvMissing(h) /\ ssh[h].role = "worker"
  /\ LET listed == script.cores # <<>>
         found  == NumaInfo(script.machine.topology, script.machine.mt)
     IN  /\ launch' = [launch EXCEPT ![h] = IF script.bind /\ ~listed /\ found # <<>> THEN "allocating" ELSE "starting"]
         /\ nodes'  = [nodes EXCEPT ![h] = found]
         /\ allocations' = [allocations EXCEPT ![h] = script.cores]
  /\ UNCHANGED <<script, envs, submitted, ssh, next, process>>

\* The loop of allocate_cpu over the quotas; a quota for which no CPU is left is skipped.
AllocateNext(h) ==
  /\ launch[h] = "allocating" /\ next[h] < script.gpus
  /\ LET m   == script.machine
         all == NumaInfo(m.topology, m.mt)
     IN  \E q \in {Best(nodes[h], Quotas(all, m.mt, script.gpus, m.quota, m.root_quota)[next[h] + 1])} :
           IF q = 0 THEN UNCHANGED cpus
           ELSE \E n \in {From(nodes[h], q)} :
                  /\ nodes' = [nodes EXCEPT ![h][n] = Left(@, q)]
                  /\ allocations' = [allocations EXCEPT ![h] =
                       Append(@, Runs(nodes[h][n], q, m.mt, CpuNum(all), m.blacklist))]
  /\ next' = [next EXCEPT ![h] = @ + 1]
  /\ UNCHANGED <<script, envs, submitted, ssh, launch, process>>

AllocatedAll(h) ==
  /\ launch[h] = "allocating" /\ next[h] = script.gpus
  /\ launch' = [launch EXCEPT ![h] = "starting"]
  /\ next'   = [next EXCEPT ![h] = 0]
  /\ UNCHANGED <<script, envs, submitted, ssh, cpus, process>>

Rank(h, i) == i + ssh[h].worker_id * script.gpus
WorldSize  == script.gpus * NumWorker

\* worker(): without numactl the process is not bound; a run that is empty, of CPUs on the
\* black list only, raises an IndexError in the thread.
Worker(h, i) ==
  LET binds == script.bind /\ script.machine.numactl
      runs  == allocations[h][i + 1]
  IN  [state |-> IF binds /\ \E k \in DOMAIN runs : runs[k] = <<>> THEN "failed" ELSE "running",
       rank  |-> Rank(h, i),
       cpus  |-> IF binds THEN PhysCpuBind(runs) ELSE {}]

\* Start thread i = next[h].  A list of allocations that is too short raises an
\* IndexError, None a TypeError.
StartThread(h) ==
  /\ launch[h] = "starting" /\ next[h] < script.gpus
  /\ LET i == next[h]
         allocated == script.bind => i + 1 \in DOMAIN allocations[h]
     IN  /\ launch'  = [launch EXCEPT ![h] = IF allocated THEN @ ELSE "raised"]
         /\ process' = IF allocated THEN [process EXCEPT ![h][i] = Worker(h, i)] ELSE process
         /\ next'    = [next EXCEPT ![h] = IF allocated THEN @ + 1 ELSE @]
  /\ UNCHANGED <<script, envs, submitted, ssh, cpus>>

StartedAll(h) ==
  /\ launch[h] = "starting" /\ next[h] = script.gpus
  /\ launch' = [launch EXCEPT ![h] = "joining"]
  /\ next'   = [next EXCEPT ![h] = 0]
  /\ UNCHANGED <<script, envs, submitted, ssh, cpus, process>>

\* Mutant: join() does not raise what the thread has caught.
JoinedSilently(state) == "joining"

\* join() raises the exception of check_call.
Joined(state) == IF state = "failed" THEN "raised" ELSE "joining"

\* Join the threads in order.
JoinThread(h) ==
  /\ launch[h] = "joining" /\ next[h] < script.gpus
  /\ process[h][next[h]].state \in {"ok", "failed"}
  /\ launch' = [launch EXCEPT ![h] = Joined(process[h][next[h]].state)]
  /\ next'   = [next EXCEPT ![h] = @ + 1]
  /\ UNCHANGED <<script, envs, submitted, ssh, cpus, process>>

JoinedAll(h) ==
  /\ launch[h] = "joining" /\ next[h] = script.gpus
  /\ launch' = [launch EXCEPT ![h] = "exit"]
  /\ UNCHANGED <<script, envs, submitted, ssh, next, cpus, process>>

-----------------------------------------------------------------------------
(* The processes *)

All(state) == \A h \in Workers, i \in Thread : process[h][i].state \in state

Fail(h, i) ==
  /\ process[h][i].state = "running" /\ <<h, i>> \in script.fails
  /\ process' = [process EXCEPT ![h][i].state = "failed"]
  /\ UNCHANGED <<script, envs, submitted, ssh, launch, next, cpus>>

\* Training is over when all processes have started and none fails.
EndProcess(h, i) ==
  /\ process[h][i].state = "running" /\ script.fails = {} /\ All({"running", "ok"})
  /\ process' = [process EXCEPT ![h][i].state = "ok"]
  /\ UNCHANGED <<script, envs, submitted, ssh, launch, next, cpus>>

\* The scheduler and the servers leave with the last worker.
EndServer(h) ==
  /\ launch[h] = "serving" /\ All({"ok"})
  /\ launch' = [launch EXCEPT ![h] = "exit"]
  /\ UNCHANGED <<script, envs, submitted, ssh, next, cpus, process>>

-----------------------------------------------------------------------------
HostStep(h) ==
  \/ RunSsh(h) \/ CheckEnv(h) \/ LaunchServer(h) \/ LaunchWorker(h) \/ AllocateNext(h) \/ AllocatedAll(h)
  \/ StartThread(h) \/ StartedAll(h)
  \/ JoinThread(h) \/ JoinedAll(h) \/ EndServer(h)
  \/ \E i \in Thread : Fail(h, i) \/ EndProcess(h, i)

Ended == Refused \/ (submitted = Len(Hosts) /\ \A h \in Host : launch[h] \in {"exit", "raised"})

\* A host or a process that has failed, or was never started, leaves the others waiting.
Broken ==
  \E h \in Host : launch[h] = "raised" \/ (launch[h] = "exit" /\ EnvMissing(h)) \/ \E i \in Thread : process[h][i].state = "failed"

Terminated == (Ended \/ Broken) /\ UNCHANGED vars

Next == Submit \/ (\E h \in Host : HostStep(h)) \/ Terminated

Spec == Init /\ [][Next]_vars

-----------------------------------------------------------------------------
(* Properties *)

Started == {p \in Workers \X Thread : process[p[1]][p[2]].state # "absent"}

\* The processes of a job have the ranks 0 to size-1, one each, in whatever order the ssh
\* threads run (dist_launcher.py:99-118, launch.py:155-158, communicator.cc:66-84).
RanksDistinct ==
  /\ \A p \in Started : process[p[1]][p[2]].rank \in 0..(WorldSize - 1)
  /\ \A p, q \in Started : process[p[1]][p[2]].rank = process[q[1]][q[2]].rank => p = q

\* Two processes of a host are never bound to the same CPU, on machines whose second
\* hardware threads are numbered after all cores (launch.py:43-135, 164-176).
CpusDisjoint ==
  \A p, q \in Started : p[1] = q[1] /\ p[2] # q[2] =>
    process[p[1]][p[2]].cpus \cap process[q[1]][q[2]].cpus = {}

\* There is a core for each process, and the size of the first node, of which _get_quota
\* takes half where second threads are counted, does not bring the root's quota to 0.
Enough ==
  LET found == NumaInfo(script.machine.topology, script.machine.mt)
  IN  CASE ~script.bind          -> TRUE
        [] script.cores # <<>>   -> Len(script.cores) >= script.gpus
        [] found = <<>>          -> FALSE
        [] OTHER                 -> CpuNum(found) >= script.gpus /\ Len(found[1]) >= IF script.machine.mt THEN 2 ELSE 1

\* A host starts a process for each of its GPUs exactly when its environment is complete
\* and the cores are enough, however its nodes are cut up, what the quotas are and which
\* nodes earlier processes have emptied; otherwise it ends before the last process, and
\* waits for none (launch.py:97-135, 138-152, 228-237).
EveryProcessStarted ==
  \A h \in Workers : launch[h] \in {"joining", "exit", "raised"} =>
    /\ (\A i \in Thread : process[h][i].state # "absent") <=> Enough /\ ~EnvMissing(h)
    /\ (~Enough \/ EnvMissing(h)) => launch[h] # "joining"

\* launch.py ends without an error only after all its processes have, or at once, with no
\* process started, where its environment is incomplete; in between, an error of a thread or
\* of the allocation always reaches its exit status (launch.py:13-35, 149-152, 239-240).
ErrorsPropagate ==
  \A h \in Workers : launch[h] = "exit" =>
    \/ \A i \in Thread : process[h][i].state = "ok"
    \/ EnvMissing(h) /\ \A i \in Thread : process[h][i].state = "absent"
=============================================================================
