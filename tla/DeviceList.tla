----------------------------- MODULE DeviceList -----------------------------
(***************************************************************************)
(* The lists of devices of distribute/mirrored_strategy.py.  A device has  *)
(* a job ("localhost" if none is given), a task (-1 if none is given) and  *)
(* the index of its GPU (-1 for a CPU).  A cluster has a number of tasks   *)
(* for each job.                                                           *)
(***************************************************************************)
EXTENDS Integers, Sequences, FiniteSets, SequencesExt

Device(job, task, gpu) == [job |-> job, task |-> task, gpu |-> gpu]
Local(d)   == d.job = "localhost"
IsGpu(d)   == d.gpu >= 0
NoTask     == -1
Cpu        == -1

Tasks(devices) == {<<d.job, d.task>> : d \in ToSet(devices)}

\* The ValueErrors of _is_device_list_single_worker.
Inconsistent(devices) ==
  LET D == ToSet(devices)
  IN  \/ (\E d \in D : Local(d)) /\ (\E d \in D : ~Local(d))
      \/ Cardinality(Tasks(devices)) = 1 /\ \E d \in D : ~Local(d) /\ d.task = NoTask

\* _is_device_list_single_worker
SingleWorker(devices) == Cardinality(Tasks(devices)) = 1

\* all_local_devices
LocalDevices(gpus) ==
  IF gpus = 0 THEN <<Device("localhost", NoTask, Cpu)>>
  ELSE [i \in 1..gpus |-> Device("localhost", NoTask, i - 1)]

\* The devices of a task in _cluster_spec_to_device_list.
TaskDevices(job, task, gpus) ==
  IF gpus = 0 THEN <<Device(job, task, Cpu)>> ELSE [i \in 1..gpus |-> Device(job, task, i - 1)]

\* _cluster_spec_to_device_list
ClusterDevices(cluster, gpus) ==
  LET of(job) == FlattenSeq([t \in 1..cluster[job] |-> TaskDevices(job, t - 1, gpus)])
  IN  of("chief") \o of("worker")

\* _infer_num_gpus_per_worker for the devices of one worker.
InferGpus(devices) == Len(SelectSeq(devices, IsGpu))

\* _initialize_multi_worker: the assertion of _group_device_list refuses the devices of one
\* worker, and the cross device operations of this plugin are not for several.
MultiWorkerRefused(devices) == SingleWorker(devices) \/ Cardinality(Tasks(devices)) > 1
=============================================================================
