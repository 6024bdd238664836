----------------------------- MODULE MCPlugins -----------------------------
(***************************************************************************)
(* What runs above push_pull, part by part: the parts of the PyTorch       *)
(* plugin (module MCTorch) and its cross barrier, the MXNet, TensorFlow    *)
(* and Keras plugins, MirroredStrategy, the suspension and resumption of a *)
(* job, programs that resume from checkpoints, the launcher and the        *)
(* installation; and the gradient compressors below it. A behaviour stays  *)
(* with the part it starts with; a variable that a part does not have is   *)
(* None.                                                                   *)
(***************************************************************************)
EXTENDS MCTorch

VARIABLES
  fwd, bwd, param, locks, event_queue, poller, event, updated,
  mom, wdmom,
  run, ready,
  epoch, batch, lr, momentum, cb, broadcasted, logs, checkpoint, kills,
  envs, submitted, ssh, launch, next, nodes, allocations, process,
  turn, done, thread, coord,
  gen, size, context, next_key,
  registered, written, read, round, moment, error, pre_lr, task, requests, received, stored, replica, buf, finished, seen, parked, expected,
  machine, env, attempt, abi, quote, libps, deps, ucx, macro, built, ext, stub, outcome,
  declared, pushed

-----------------------------------------------------------------------------
(* The instances *)

\* Two parameters, two steps of two backward passes.
Cross == INSTANCE CrossBarrierInv WITH Param <- {p1, p2}, FinalStep <- 2, Passes <- 2, NoParam <- None

MX(gluon, momentum_on, wd_on, compressor_on) ==
  [gluon |-> gluon, fp16 |-> FALSE, momentum |-> momentum_on, wd |-> wd_on, compressor |-> compressor_on]

\* The module API, and the trainer without a compressor, with one and with 1bit; of the two
\* tensors one is below the threshold, the other of exactly its size.
MXNet == INSTANCE MXNetTrainer WITH
  Worker <- Processes, Scale <- 64, NumParam <- 2, Elements <- <<10, 25>>, Threshold <- 100, Root <- w1, Steps <- 2,
  Scripts <- {MX(FALSE, TRUE, TRUE, "none"), MX(TRUE, TRUE, TRUE, "none"), MX(TRUE, TRUE, FALSE, "topk"),
              MX(TRUE, TRUE, TRUE, "onebit"), MX(TRUE, FALSE, TRUE, "onebit")}

TF(api, passes, restored, none) ==
  [api |-> api, passes |-> passes, restored |-> restored, none |-> none]

\* A session from scratch, restored with a variable that has no gradient, and refused; a
\* tf.function.
TensorFlow == INSTANCE TensorFlowPlugin WITH
  Worker <- Processes, Scale <- 4, NumVar <- 2, Root <- w1, LastStep <- 2,
  Scripts <- {TF("session", 1, 0, {}), TF("session", 1, 1, {2}), TF("session", 2, 0, {}),
              TF("function", 1, 0, {1}), TF("function", 1, 0, {})}

\* What Keras tells the callbacks: the steps of an epoch, or the samples and the batch
\* size, or too little.
Steps   == [steps |-> 2, samples |-> 0, batch_size |-> 0]
Samples == [steps |-> 0, samples |-> 4, batch_size |-> 2]
Neither == [steps |-> 0, samples |-> 4, batch_size |-> 0]

Fit(correction, graph, aggregates, params) ==
  [correction |-> correction, given |-> TRUE, graph |-> graph, aggregates |-> aggregates, params |-> params,
   logs |-> (w1 :> <<1, 2>>) @@ (w2 :> <<2, 1>>)]

\* Two epochs of warm-up and two of the schedule; the job is killed once at any time.
Keras == INSTANCE KerasTraining WITH
  Worker <- Processes, Scale <- 2, Root <- w1, Epochs <- 4, WarmupEpochs <- 2, Batches <- 2, BaseRate <- 64, MaxKills <- 1,
  Scripts <- {Fit(TRUE, TRUE, TRUE, Steps), Fit(TRUE, FALSE, TRUE, Samples), Fit(FALSE, TRUE, TRUE, Steps),
              Fit(TRUE, TRUE, FALSE, Steps), Fit(TRUE, TRUE, TRUE, Neither)}

\* Machines: the CPUs of a node in a row, alternating between the nodes, with second
\* hardware threads, and nodes of different sizes; nodes of one core, a first node
\* without cores, and no node at all.
Rows        == <<<<0, 1, 2, 3>>, <<4, 5, 6, 7>>>>
Alternating == <<<<0, 2, 4, 6>>, <<1, 3, 5, 7>>>>
Twins       == <<<<0, 1, 2, 6, 7, 8>>, <<3, 4, 5, 9, 10, 11>>>>
Uneven      == <<<<0, 1, 2>>, <<3>>, <<4, 5, 6, 7>>>>
Single      == <<<<0, 2>>, <<1, 3>>>>
Empty       == <<<<>>, <<0, 1, 2, 3>>>>

Numa(topology, mt, quota, root_quota) ==
  [topology |-> topology, mt |-> mt, quota |-> quota, root_quota |-> root_quota, blacklist |-> {}, numactl |-> TRUE]

\* A host file of n hosts.
Lines(n) == <<"blank">> \o [i \in 1..n |-> "host"]

Job(workers, gpus, bind, numa, cores, missing, fails) ==
  [workers |-> Lines(workers), servers |-> <<"host">>, gpus |-> gpus, force |-> numa.mt, bind |-> bind, machine |-> numa, cores |-> cores,
   missing |-> missing, fails |-> fails]
Bound(gpus, numa)      == Job(1, gpus, TRUE, numa, <<>>, {}, {})
Free(workers, gpus, missing, fails) == Job(workers, gpus, FALSE, Numa(<<>>, FALSE, 0, 0), <<>>, missing, fails)

\* One host with every number of GPUs and quota; without numactl, with CPUs on the black
\* list; no host, two hosts; CPUs given by the user, enough or not; an environment that lacks
\* something; a process of a host with one or two GPUs fails.
Launches ==
  {Bound(g, Numa(t, FALSE, q[1], q[2])) :
     g \in {2, 3, 4}, t \in {Rows, Alternating, Uneven}, q \in {<<0, 0>>, <<1, 4>>, <<3, 1>>}}
    \cup {Bound(g, Numa(t, TRUE, 0, 0)) : g \in 1..3, t \in {Twins, Single}}
    \cup {Bound(g, Numa(t, FALSE, 0, 0)) : g \in {1, 2}, t \in {Empty, <<>>}}
    \cup {Bound(2, [Numa(Rows, FALSE, 0, 0) EXCEPT !.numactl = FALSE]),
          Bound(2, [Numa(Rows, FALSE, 0, 0) EXCEPT !.blacklist = {1, 2, 3}]),
          Bound(2, [Numa(Rows, FALSE, 0, 0) EXCEPT !.blacklist = {4, 5, 6, 7}])}
    \cup {Job(w, 2, TRUE, Numa(Rows, FALSE, 0, 0), <<<<<<1>>, <<4, 5>>>>, <<<<6, 7>>>>>>, {}, {}) : w \in 1..2}
    \cup {Job(1, 3, TRUE, Numa(Rows, FALSE, 0, 0), <<<<<<1>>, <<4, 5>>>>, <<<<6, 7>>>>>>, {}, {})}
    \cup {Free(w, 1, m, {}) : w \in 1..2, m \in SUBSET {"common", "worker_id"}}
    \cup {Free(0, 1, {}, {}), Free(1, 1, {}, {<<2, 0>>}), Free(1, 2, {}, {<<2, 0>>}), Free(1, 2, {}, {<<2, 1>>})}

Launch == INSTANCE Launcher WITH Scripts <- Launches

Lists == INSTANCE DeviceList

ReplicaCall(kind, op, value) == [kind |-> kind, op |-> op, value |-> value]
Merge(op)                    == ReplicaCall("merge", op, "per_replica")
RaiseError                   == ReplicaCall("raise", "SUM", "zero")

NoCluster == [chief |-> 0, worker |-> 0]
OnGpus(fn) == [eager |-> TRUE, devices |-> <<>>, cluster |-> NoCluster, configure |-> NoCluster, gpus |-> Len(fn), fn |-> fn]
OnDevices(devices) ==
  [eager |-> TRUE, devices |-> devices, cluster |-> NoCluster, configure |-> NoCluster, gpus |-> 1, fn |-> [i \in DOMAIN devices |-> <<Merge("SUM")>>]]
OnCluster(chief, worker, gpus) ==
  [eager |-> FALSE, devices |-> <<>>, cluster |-> [chief |-> chief, worker |-> worker], configure |-> NoCluster, gpus |-> gpus,
   fn |-> [i \in 1..(IF gpus = 0 THEN 1 ELSE gpus) |-> <<Merge("SUM")>>]]

\* One or two replicas that merge values of every kind, equally often or not, or raise; lists
\* of devices, consistent or not; clusters, also given to configure().
ReplicaScripts ==
  {OnGpus(<<f, f>>) : f \in
     {<<Merge("SUM"), Merge("MEAN")>>,
      <<ReplicaCall("merge", "MEAN", "mirrored"), ReplicaCall("merge", "SUM", "mirrored")>>,
      <<ReplicaCall("merge", "MEAN", "single"), ReplicaCall("merge", "SUM", "zero"), ReplicaCall("batch", "SUM", "per_replica")>>,
      <<ReplicaCall("merge", "SUM", "single")>>}}
    \cup {OnGpus(<<<<Merge("SUM")>>, <<Merge("SUM"), Merge("SUM")>>>>),
          OnGpus(<<<<Merge("SUM")>>, <<Merge("SUM"), RaiseError>>>>),
          OnGpus(<<<<Merge("SUM"), RaiseError>>, <<Merge("SUM"), Merge("SUM")>>>>),
          OnGpus(<<<<ReplicaCall("merge", "SUM", "single"), Merge("SUM")>>>>)}
    \cup {[OnGpus(<<<<Merge("SUM")>>>>) EXCEPT !.configure.worker = k] : k \in 1..2}
    \cup {OnDevices(d) : d \in
           {<<Lists!Device("worker", 0, 0)>>,
            <<Lists!Device("worker", Lists!NoTask, 0)>>,
            <<Lists!Device("worker", 0, 0), Lists!Device("localhost", Lists!NoTask, 0)>>,
            <<Lists!Device("localhost", Lists!NoTask, 0), Lists!Device("localhost", Lists!NoTask, 0)>>,
            <<Lists!Device("worker", 0, 0), Lists!Device("worker", 1, 0)>>}}
    \cup {OnCluster(c, k, g) : c \in 0..1, k \in 0..2, g \in 0..2}

Mirrored == INSTANCE MirroredStrategy WITH Worker <- Processes, Scale <- 2, Scripts <- ReplicaScripts

\* No resumption, one with a new process, one without a former process, and both.
Elastic == INSTANCE ElasticJob WITH
  Member <- {1, 2, 3}, Program <- <<"a", "b">>,
  Scripts <- {[members |-> m, metric |-> "m"] : m \in {<<{1, 2}>>, <<{1}, {1, 2}>>, <<{1, 2}, {1}>>, <<{1, 2}, {2, 3}>>}}

Program(program, sched, decay, disks, local_ranks) ==
  [program |-> program, sched |-> sched, decay |-> decay, disk |-> (w1 :> disks[1]) @@ (w2 :> disks[2]),
   local_rank |-> (w1 :> local_ranks[1]) @@ (w2 :> local_ranks[2])]

\* One node; two nodes with a shared disk; two nodes with their own; resnet50 with and
\* without weight decay.  Four epochs, two of them warm-up; the job is killed once at any
\* time.
TrainingScripts ==
  {Program(p[1], "none", p[2], d[1], d[2]) :
     p \in {<<"resnet50", FALSE>>, <<"resnet50", TRUE>>, <<"ddp", FALSE>>},
     d \in {<<<<1, 1>>, <<0, 1>>>>, <<<<1, 1>>, <<0, 0>>>>, <<<<1, 2>>, <<0, 0>>>>}}
    \cup {Program("fit", s, FALSE, d[1], d[2]) : s \in {"none", "pow", "step"},
            d \in {<<<<1, 1>>, <<0, 1>>>>, <<<<1, 2>>, <<0, 0>>>>}}

Jobs == INSTANCE TrainingJobs WITH
  Worker <- Processes, Scale <- 2, Root <- w1, Epochs <- 4, WarmupEpochs <- 2, Milestones <- {2, 3}, Period <- 2,
  BaseRate <- 4, MaxKills <- 1, scheduler <- cb, Scripts <- TrainingScripts

Codec(type, k, scaling, natural) == [type |-> type, k |-> k, scaling |-> scaling, natural |-> natural, width |-> 16]
Narrow(type, k) == [Codec(type, k, FALSE, FALSE) EXCEPT !.width = 2]

Compressors ==
  {Codec("onebit", 1, TRUE, FALSE), Codec("topk", 2, FALSE, FALSE), Codec("randomk", 1, FALSE, FALSE),
   Codec("dithering", 2, FALSE, FALSE), Codec("dithering", 3, FALSE, TRUE)}

Compress(W, c, ef, mu, rates, lr_s) ==
  [workers |-> W, codec |-> c, ef |-> ef, mu |-> mu, rates |-> rates, lr_s |-> lr_s,
   grads |-> (w1 :> <<<<4, -4, 2, -4, 4, 4>>, <<-8, 6, 0, 0, 2, -4>>>>) @@ (w2 :> <<<<0, 2, -6, 3, 0, 0>>, <<5, 0, 0, -1, 0, 4>>>>)]

\* Every compressor, alone and with error feedback and momentum while the learning rate
\* falls; two workers with onebit; a server without lr.s; tensors of six elements in words
\* of 16 bits, and in words of two bits, in which the indices do not fit.
Compressing == INSTANCE Compression WITH
  Worker <- Processes, Length <- 6, mom <- moment,
  Scripts <- {Compress({w1}, c, FALSE, 0, <<1, 1>>, "none") : c \in Compressors \cup {Narrow("topk", 2), Narrow("randomk", 2)}}
               \cup {Compress({w1}, c, TRUE, 1, <<2, 1>>, w1) : c \in Compressors}
               \cup {Compress({w1, w2}, Codec("onebit", 1, TRUE, FALSE), TRUE, 1, <<2, 1>>, w2),
                     Compress({w1, w2}, Codec("onebit", 1, TRUE, FALSE), TRUE, 1, <<2, 1>>, "none")}

Framework(recent, flags, framework_abi, cuda) ==
  [installed |-> TRUE, recent |-> recent, flags |-> flags, abi |-> framework_abi, cuda |-> cuda,
   libs |-> {"tensorflow_framework", "mxnet"}, located |-> TRUE, parsed |-> TRUE, header |-> TRUE,
   tells |-> "runtime", mkldnn |-> TRUE, needed |-> {}]
Missing == [Framework(FALSE, FALSE, 2, FALSE) EXCEPT !.installed = FALSE]

Machine(tensorflow, torch, mxnet, cuda) ==
  [tensorflow |-> tensorflow, torch |-> torch, mxnet |-> mxnet, cuda |-> IF cuda THEN "/usr/local/cuda" ELSE "/opt",
   cpp |-> {"default", "libc++"}, link |-> {"ld"}, mpi |-> FALSE]

\* TensorFlow and PyTorch of different ABIs.
Mixed == Machine(Framework(TRUE, TRUE, 0, TRUE), Framework(TRUE, TRUE, 1, TRUE), Missing, TRUE)

Variables(with, without, use_ucx) ==
  [with |-> with, without |-> without, ucx |-> use_ucx, mpi |-> use_ucx = "prebuilt",
   cuda |-> IF use_ucx = "build" THEN "/opt" ELSE "unset", mkldnn |-> FALSE, rdma |-> with # {}]

Choices(m) ==
  {Variables({"torch"}, {"tensorflow"}, "build"), Variables({"tensorflow"}, {"torch"}, "prebuilt"),
   Variables({}, {"tensorflow", "torch", "mxnet"}, "no"), Variables({}, {}, "no"), Variables({"mxnet"}, {}, "no")}

\* An MXNet that readelf sees, or not, and a PyTorch without its CUDA header.
MXNetOf(tells, needed) == [Framework(TRUE, TRUE, 2, TRUE) EXCEPT !.tells = tells, !.needed = needed]
Headless == [Framework(TRUE, TRUE, 0, TRUE) EXCEPT !.header = FALSE]

\* Every framework with and without CUDA, an old one, one that is missing, one that
\* cannot tell its flags or what it was built with, one that is not where it says.
Build == INSTANCE PluginBuild WITH
  Machines <- {Mixed,
               Machine(Framework(TRUE, FALSE, 0, TRUE), Framework(FALSE, TRUE, 0, TRUE), Missing, TRUE),
               Machine(Missing, Framework(TRUE, TRUE, 1, TRUE), Framework(FALSE, TRUE, 2, TRUE), TRUE)}
                \cup {Machine(Framework(TRUE, TRUE, 0, TRUE), Framework(TRUE, TRUE, 0, c), Framework(TRUE, TRUE, 2, d), e) :
                        c, d, e \in BOOLEAN}
                \cup {Machine(Missing, Headless, m, TRUE) :
                        m \in {MXNetOf("readelf", {"cuda", "mkldnn"}), MXNetOf("readelf", {"cuda"}), MXNetOf("nothing", {}),
                               [MXNetOf("runtime", {}) EXCEPT !.located = FALSE]}}
                \cup {Machine(Missing, [Headless EXCEPT !.parsed = FALSE], MXNetOf("runtime", {}), TRUE)},
  Environments <- Choices, Attempts <- 2

-----------------------------------------------------------------------------
ofCross       == <<fwd, bwd, param, locks, event_queue, poller, event, updated>>
ofMXNet       == <<mom, wdmom>>
ofTensorFlow  == <<run, ready>>
ofKeras       == <<epoch, batch, lr, momentum, cb, broadcasted, logs, checkpoint, kills>>
ofLauncher    == <<envs, submitted, ssh, launch, next, nodes, allocations, process>>
ofMirrored    == <<turn, done, thread, coord>>
ofElastic     == <<gen, size, context, next_key>>
ofCompression == <<registered, written, read, round, moment, error, pre_lr, task, requests, received, stored, replica, buf, finished, seen, parked, expected>>
ofBuild       == <<machine, env, attempt, abi, quote, libps, deps, ucx, macro, built, ext, stub, outcome>>

ofPlugins  == <<ofCross, ofMXNet, ofTensorFlow, ofKeras, ofLauncher, ofMirrored, ofElastic, ofCompression, ofBuild, declared,
                pushed>>
pluginvars == <<allvars, ofPlugins>>

NoCross ==
  /\ fwd = None /\ bwd = None /\ param = None /\ locks = None /\ event_queue = None /\ poller = None
  /\ event = None /\ updated = None
NoMXNet == mom = None /\ wdmom = None
NoTensorFlow == run = None /\ ready = None
NoKeras ==
  /\ epoch = None /\ batch = None /\ lr = None /\ momentum = None /\ cb = None /\ broadcasted = None
  /\ logs = None /\ checkpoint = None /\ kills = None
NoLauncher ==
  /\ envs = None /\ submitted = None /\ ssh = None /\ launch = None /\ next = None /\ nodes = None
  /\ allocations = None /\ process = None
NoMirrored == turn = None /\ done = None /\ thread = None /\ coord = None
NoElastic == gen = None /\ size = None /\ context = None /\ next_key = None
NoCompression ==
  /\ registered = None /\ written = None /\ read = None /\ round = None /\ moment = None /\ error = None /\ pre_lr = None /\ task = None /\ requests = None
  /\ received = None /\ stored = None /\ replica = None /\ buf = None /\ finished = None /\ seen = None
  /\ parked = None /\ expected = None
NoBuild ==
  /\ machine = None /\ env = None /\ attempt = None /\ abi = None /\ quote = None /\ libps = None /\ deps = None /\ ucx = None
  /\ macro = None /\ built = None /\ ext = None /\ stub = None /\ outcome = None
NoPlugins ==
  /\ NoCross /\ NoMXNet /\ NoTensorFlow /\ NoKeras /\ NoLauncher /\ NoMirrored /\ NoElastic /\ NoCompression
  /\ NoBuild /\ declared = None /\ pushed = None

PluginsInit ==
  \/ TorchInit /\ NoPlugins
  \/ /\ part = "cross" /\ Cross!Init
     /\ script = None /\ todo = None /\ failed = None /\ weight = None /\ sent = None /\ layer = None
     /\ called = None /\ handle_map = None /\ announced = None /\ initialized = None /\ number = None
     /\ input = None /\ output = None /\ arrived = None /\ returned = None /\ declared = None /\ NoOptimizer
     /\ NoDDP /\ NoBroadcast /\ NoMXNet /\ NoTensorFlow /\ NoKeras /\ NoLauncher /\ NoMirrored /\ NoElastic
     /\ NoCompression /\ NoBuild
  \/ /\ part = "mxnet" /\ MXNet!Init
     /\ pass = None /\ delay = None /\ handles = None /\ failed = None /\ computed = None /\ layer = None
     /\ declared = None /\ pushed = None /\ NoOptimizer /\ NoDDP /\ NoBroadcast /\ NoOps /\ NoCross
     /\ NoTensorFlow /\ NoKeras /\ NoLauncher /\ NoMirrored /\ NoElastic /\ NoCompression /\ NoBuild
  \/ /\ part = "tensorflow" /\ TensorFlow!Init
     /\ pass = None /\ todo = None /\ delay = None /\ handles = None /\ failed = None
     /\ grad = None /\ computed = None /\ queue = None /\ tensor = None /\ option = None /\ bytes = None
     /\ layer = None /\ pushed = None /\ NoOptimizer /\ NoDDP /\ NoOps /\ NoCross /\ NoMXNet /\ NoKeras /\ NoLauncher
     /\ NoMirrored /\ NoElastic /\ NoCompression /\ NoBuild
  \/ /\ part = "keras" /\ Keras!Init
     /\ step = None /\ pass = None /\ todo = None /\ delay = None /\ handles = None /\ failed = None
     /\ grad = None /\ computed = None /\ layer = None /\ declared = None /\ pushed = None /\ NoOptimizer
     /\ NoDDP /\ NoBroadcast /\ NoOps /\ NoCross /\ NoMXNet /\ NoTensorFlow /\ NoLauncher /\ NoMirrored
     /\ NoElastic /\ NoCompression /\ NoBuild
  \/ /\ part = "jobs" /\ Jobs!Init
     /\ step = None /\ pass = None /\ todo = None /\ delay = None /\ handles = None /\ failed = None
     /\ grad = None /\ computed = None /\ layer = None /\ batch = None /\ broadcasted = None /\ logs = None
     /\ declared = None /\ pushed = None /\ NoOptimizer /\ NoDDP /\ NoBroadcast /\ NoOps /\ NoCross /\ NoMXNet
     /\ NoTensorFlow /\ NoLauncher /\ NoMirrored /\ NoElastic /\ NoCompression /\ NoBuild
  \/ /\ part = "launcher" /\ Launch!Init
     /\ pc = None /\ step = None /\ todo = None /\ delay = None /\ failed = None /\ sent = None /\ layer = None
     /\ declared = None /\ pushed = None /\ NoOptimizer /\ NoDDP /\ NoBroadcast /\ NoOps /\ NoTraining
     /\ NoCross /\ NoMXNet /\ NoTensorFlow /\ NoKeras /\ NoMirrored /\ NoElastic /\ NoCompression /\ NoBuild
  \/ /\ part = "mirrored" /\ Mirrored!Init
     /\ step = None /\ pass = None /\ todo = None /\ delay = None /\ handles = None /\ failed = None
     /\ grad = None /\ computed = None /\ layer = None /\ declared = None /\ pushed = None /\ NoOptimizer
     /\ NoDDP /\ NoBroadcast /\ NoOps /\ NoCross /\ NoMXNet /\ NoTensorFlow /\ NoKeras /\ NoLauncher
     /\ NoElastic /\ NoCompression /\ NoBuild
  \/ /\ part = "elastic" /\ Elastic!Init
     /\ step = None /\ delay = None /\ failed = None /\ sent = None /\ layer = None /\ called = None
     /\ handle_map = None /\ starting = None /\ announced = None /\ initialized = None /\ number = None
     /\ input = None /\ output = None /\ returned = None /\ NoOptimizer /\ NoDDP /\ NoBroadcast /\ NoTraining
     /\ NoCross /\ NoMXNet /\ NoTensorFlow /\ NoKeras /\ NoLauncher /\ NoMirrored /\ NoCompression /\ NoBuild
  \/ /\ part = "compression" /\ Compressing!Init
     /\ step = None /\ todo = None /\ delay = None /\ waiting = None /\ tensor = None /\ option = None
     /\ bytes = None /\ layer = None /\ called = None /\ handle_map = None /\ starting = None
     /\ announced = None /\ initialized = None /\ number = None /\ input = None /\ output = None
     /\ arrived = None /\ returned = None /\ declared = None /\ pushed = None /\ NoOptimizer /\ NoDDP
     /\ NoTraining /\ NoCross /\ NoMXNet /\ NoTensorFlow /\ NoKeras /\ NoLauncher /\ NoMirrored /\ NoElastic
     /\ NoBuild
  \/ /\ part = "build" /\ Build!Init
     /\ script = None /\ step = None /\ todo = None /\ delay = None /\ failed = None /\ sent = None
     /\ layer = None /\ declared = None /\ pushed = None /\ NoOptimizer /\ NoDDP /\ NoBroadcast /\ NoOps
     /\ NoTraining /\ NoCross /\ NoMXNet /\ NoTensorFlow /\ NoKeras /\ NoLauncher /\ NoMirrored /\ NoElastic
     /\ NoCompression

OnCross ==
  /\ part = "cross"
  /\ UNCHANGED <<part, script, todo, failed, weight, sent, layer, called, handle_map, announced, initialized,
                 number, input, output, arrived, returned, declared, ofOptimizer, ofDDP, ofBroadcast, ofMXNet,
                 ofTensorFlow, ofKeras, ofLauncher, ofMirrored, ofElastic, ofCompression, ofBuild>>

OnMXNet ==
  /\ part = "mxnet"
  /\ UNCHANGED <<part, pass, delay, handles, failed, computed, layer, declared, pushed, ofOptimizer, ofDDP,
                 ofBroadcast, ofOps, ofCross, ofTensorFlow, ofKeras, ofLauncher, ofMirrored, ofElastic,
                 ofCompression, ofBuild>>

OnTensorFlow ==
  /\ part = "tensorflow"
  /\ UNCHANGED <<part, pass, todo, delay, handles, should_sync, failed, grad, computed, queue, tensor, option,
                 bytes, layer, pushed, ofDDP, ofOps, ofCross, ofMXNet, ofKeras, ofLauncher, ofMirrored,
                 ofElastic, ofCompression, ofBuild>>

OnKeras ==
  /\ part = "keras"
  /\ UNCHANGED <<part, step, pass, todo, delay, handles, failed, grad, computed, layer, declared, pushed,
                 ofOptimizer, ofDDP, ofBroadcast, ofOps, ofCross, ofMXNet, ofTensorFlow, ofLauncher,
                 ofMirrored, ofElastic, ofCompression, ofBuild>>

OnJobs ==
  /\ part = "jobs"
  /\ UNCHANGED <<part, step, pass, todo, delay, handles, failed, grad, computed, layer, batch, broadcasted, logs,
                 declared, pushed, ofOptimizer, ofDDP, ofBroadcast, ofOps, ofCross, ofMXNet, ofTensorFlow,
                 ofLauncher, ofMirrored, ofElastic, ofCompression, ofBuild>>

OnLauncher ==
  /\ part = "launcher"
  /\ UNCHANGED <<part, pc, step, todo, delay, failed, sent, layer, declared, pushed, ofOptimizer, ofDDP,
                 ofBroadcast, ofOps, ofTraining, ofCross, ofMXNet, ofTensorFlow, ofKeras, ofMirrored,
                 ofElastic, ofCompression, ofBuild>>

OnMirrored ==
  /\ part = "mirrored"
  /\ UNCHANGED <<part, step, pass, todo, delay, handles, failed, grad, computed, layer, declared, pushed,
                 ofOptimizer, ofDDP, ofBroadcast, ofOps, ofCross, ofMXNet, ofTensorFlow, ofKeras, ofLauncher,
                 ofElastic, ofCompression, ofBuild>>

OnElastic ==
  /\ part = "elastic"
  /\ UNCHANGED <<part, step, delay, failed, sent, layer, called, handle_map, starting, announced, initialized,
                 number, input, output, returned, ofOptimizer, ofDDP, ofBroadcast, ofTraining, ofCross,
                 ofMXNet, ofTensorFlow, ofKeras, ofLauncher, ofMirrored, ofCompression, ofBuild>>

OnCompression ==
  /\ part = "compression"
  /\ UNCHANGED <<part, step, todo, delay, waiting, tensor, option, bytes, layer, called, handle_map, starting,
                 announced, initialized, number, input, output, arrived, returned, declared, pushed,
                 ofOptimizer, ofDDP, ofTraining, ofCross, ofMXNet, ofTensorFlow, ofKeras, ofLauncher,
                 ofMirrored, ofElastic, ofBuild>>

OnBuild ==
  /\ part = "build"
  /\ UNCHANGED <<part, script, step, todo, delay, failed, sent, layer, declared, pushed, ofOptimizer, ofDDP,
                 ofBroadcast, ofOps, ofTraining, ofCross, ofMXNet, ofTensorFlow, ofKeras, ofLauncher,
                 ofMirrored, ofElastic, ofCompression>>

PluginsNext ==
  \/ TorchNext /\ UNCHANGED ofPlugins
  \/ OnCross      /\ Cross!Next
  \/ OnMXNet      /\ MXNet!Next
  \/ OnTensorFlow /\ TensorFlow!Next
  \/ OnKeras      /\ Keras!Next
  \/ OnJobs       /\ Jobs!Next
  \/ OnLauncher   /\ Launch!Next
  \/ OnMirrored   /\ Mirrored!Next
  \/ OnElastic    /\ Elastic!Next
  \/ OnCompression /\ Compressing!Next
  \/ OnBuild      /\ Build!Next

\* Every process and every thread keeps running; setup.py runs to its end.
PluginsFairness ==
  /\ Fairness
  /\ WF_pluginvars(OnCross /\ Cross!Trainer)
  /\ WF_pluginvars(OnCross /\ Cross!Poll)
  /\ WF_pluginvars(OnCross /\ \E h \in DOMAIN results : Cross!MarkDone(h))
  /\ \A w \in Processes :
       /\ WF_pluginvars(OnMXNet      /\ MXNet!Process(w))
       /\ WF_pluginvars(OnTensorFlow /\ TensorFlow!Process(w))
       /\ WF_pluginvars(OnKeras      /\ Keras!Process(w))
       /\ WF_pluginvars(OnJobs       /\ Jobs!Process(w))
       /\ WF_pluginvars(OnMirrored   /\ Mirrored!Main(w))
       /\ \A r \in 1..2 : WF_pluginvars(OnMirrored /\ r \in Mirrored!Replica /\ Mirrored!ReplicaThread(w, r))
  /\ WF_pluginvars(OnLauncher /\ Launch!Submit)
  /\ \A h \in 1..5 : WF_pluginvars(OnLauncher /\ h \in Launch!Host /\ Launch!HostStep(h))
  /\ \A p \in 1..3 : WF_pluginvars(OnElastic /\ Elastic!Process(p))
  /\ WF_pluginvars(OnBuild /\ Build!Build)

PluginsSpec == PluginsInit /\ [][PluginsNext]_pluginvars /\ PluginsFairness

-----------------------------------------------------------------------------
(* Properties: what the parts promise; a promise that several parts make is one property *)

\* A step of DistributedOptimizer applies the averages of the processes' gradients, and
\* the calls under a gradient's name stay one per step (TorchOptimizer).
StepAppliesAverage == part = "optimizer" => Optimizer!StepAppliesAverage /\ Optimizer!RoundsAligned

\* Every epoch of a job that was killed and resumed counts once (TrainingJobs).
EpochsOnce == part = "jobs" => Jobs!EpochsOnce

\* A step after DistributedDataParallel's backward pass applies averages (TorchDDP).
GradientsAveraged == part = "ddp" => DDP!GradientsAveraged

\* After a broadcast all processes hold what the root holds: the parameters and optimizer
\* state (TorchBroadcast), the buffers of a forward pass (TorchDDP), the variables of a
\* session (TensorFlowPlugin) and those of every batch (KerasTraining), also in a program
\* that has resumed (TrainingJobs).
SameVariables ==
  /\ part = "broadcast"  => Broadcast!SameStart
  /\ part = "ddp"        => DDP!BuffersOfRoot
  /\ part = "tensorflow" => TensorFlow!VariablesAgree
  /\ part = "keras"      => Keras!SameVariables
  /\ part = "jobs"       => Jobs!SameTraining

\* Without a barrier between steps a layer still runs with every update of the earlier
\* steps (CrossBarrier, HalfOptimizer).
ForwardSeesUpdates ==
  /\ part = "cross" => Cross!ForwardSeesUpdates
  /\ part = "half"  => Half!LayersRunUpdated

\* No assertion of a hook, no check of a compressor and no call on a handle fails, but for
\* two usages that always do, and where they do: the half precision optimizer with several
\* backward passes per step, and error feedback with a server that has no lr.s
\* (TorchOptimizer, HalfOptimizer, CrossBarrier, Compression).
NothingFails ==
  /\ part = "optimizer"   => Optimizer!NoAssertionFails
  /\ part = "half"        => Half!NoCallFails
  /\ part = "cross"       => Cross!NoException
  /\ part = "compression" => Compressing!CompressedFits

\* A handle returns the result of its own call, and only an in-place call modifies its
\* input (TorchOps).
ReturnsOwnCall == part = "ops" => Ops!ReturnsOwnCall /\ Ops!InputModifiedInPlace

\* No gradient is touched between its push_pull and its update, and a parameter is locked
\* exactly while its event is outstanding (CrossBarrier); with them the inductive invariant
\* of their proof (CrossBarrierInv).
InFlightUntouched ==
  part = "cross" =>
    Cross!CrossAssumption /\ Cross!CrossInv /\ Cross!InFlightUntouched /\ Cross!LockMeansOutstanding

\* An update of the cross barrier consists of the gradients of one step (CrossBarrier).
UpdateOfOneStep == [][part = "cross" => Cross!UpdatesOneStep]_pluginvars


\* The callbacks do what they document: the learning rate of a batch follows the schedule,
\* every correction of the momentum is undone, and a metric is averaged with the same
\* metric of the others (KerasTraining); so do the schedules of the programs (TrainingJobs).
CallbacksAsDocumented ==
  /\ part = "keras" => Keras!RateFollowsSchedule /\ Keras!MomentumRestored /\ Keras!MetricsAveraged
  /\ part = "jobs"  => Jobs!RatesAsDocumented

\* Every GPU of every host gets a process, with a rank of its own and CPUs that it shares
\* with no other process of the host (Launcher, CpuAllocation).
ProcessesPlaced ==
  part = "launcher" => Launch!EveryProcessStarted /\ Launch!RanksDistinct /\ Launch!CpusDisjoint

\* What ends successfully has done all its work: launch.py when all its processes have
\* (Launcher), call_for_each_replica() when all replicas are done and no thread is left
\* (MirroredStrategy), an installation when everything asked for is built (PluginBuild).
ErrorsPropagate ==
  /\ part = "launcher" => Launch!ErrorsPropagate
  /\ part = "mirrored" => Mirrored!CallReports
  /\ part = "build"    => Build!InstalledAsAsked

\* A merge_call() returns what the same calls of all replicas reduce to (MirroredStrategy).
MergesMatch == part = "mirrored" => Mirrored!MergesMatch

\* All copies of a variable are the same whenever a replica runs (MirroredStrategy).
CopiesMirrored == part = "mirrored" => Mirrored!CopiesMirrored

\* The main thread and the replicas run one at a time and leave no event set
\* (MirroredStrategy).
OneReplicaRuns == part = "mirrored" => Mirrored!OneReplicaRuns

\* In a generation of an elastic job a name has one key, and what is summed under it is
\* over the members of the generation (ElasticJob).
SumOfMembers == part = "elastic" => Elastic!KeysAgree /\ Elastic!SumOfMembers

\* What a worker sent and its error make up its gradients (Compression).
GradientConserved == part = "compression" => Compressing!GradientConserved

\* A pushed tensor decodes to what its compressor promises, and one worker pulls what the
\* server compressed of its own push (Compression, Codecs).
TransfersDecode ==
  part = "compression" =>
    /\ Compressing!PushDecodes
    /\ script.workers = {w1} => Compressing!PullsCompressedSum

\* An extension has the ABI of its framework, the case of two ABIs excepted, uses CUDA and
\* MKLDNN if its framework does and can tell, and only an earlier installation brings a
\* ps-lite of other options (PluginBuild).
BuiltForFramework == part = "build" => Build!AbiOfFramework /\ Build!FeaturesOfFramework /\ Build!ArchiveOfInstallation

\* Every script ends: no process waits for a push_pull that another will not make or that no
\* thread completes, no thread for a turn that nobody gives it; only a failed process leaves
\* its launcher, or the other processes of its program, waiting, and programs that resume
\* from different disks may not end.  (The compressors' behaviours are finite: there it is enough that
\* no process is stuck, which is checked as the absence of deadlock.)
ScriptsEnd ==
  <>CASE part = "cross"    -> pc = "done"
      [] part = "launcher" -> Launch!Ended \/ Launch!Broken
      [] part = "keras"    -> Ended \/ \E w \in Processes : pc[w] = "failed"
      [] part = "jobs"     -> Ended \/ (\E w \in Processes : pc[w] = "failed") \/ ~Jobs!OneDisk
      [] part = "mirrored" -> \A w \in Processes : Mirrored!Over(w)
      [] part = "elastic"  -> \A p \in 1..3 : Elastic!Ended(p)
      [] part = "build"    -> Build!Ended
      [] part = "compression" -> TRUE
      [] OTHER             -> Ended
=============================================================================
