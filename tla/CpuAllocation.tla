--------------------------- MODULE CpuAllocation ---------------------------
(***************************************************************************)
(* allocate_cpu of launcher/launch.py: which CPUs each worker process of a *)
(* machine is bound to.  A topology has the CPU ids of each NUMA node in   *)
(* ascending order; with mt (BYTEPS_MULTITHREADED_CPU) the first half of a *)
(* node's ids are taken for its physical cores, and core c is taken to     *)
(* share its hardware with CPU c + cpu_num.                                *)
(***************************************************************************)
EXTENDS Integers, Sequences, FiniteSets, SequencesExt

\* get_numa_info; no nodes where NUMA_PATH is not there.
NumaInfo(topology, mt) ==
  [n \in DOMAIN topology |-> IF mt THEN SubSeq(topology[n], 1, Len(topology[n]) \div 2) ELSE topology[n]]

CpuNum(nodes) == Cardinality(UNION {ToSet(nodes[n]) : n \in DOMAIN nodes})

Least(a, b) == IF a < b THEN a ELSE b

\* _get_quota; quota and root_quota are the environment's, 0 if not set.  Root, the last
\* process, gets what the others leave, up to the size of a node.
Quotas(nodes, mt, local_size, quota, root_quota) ==
  LET n       == CpuNum(nodes)
      default == Least(IF quota > 0 THEN quota ELSE n \div local_size, n \div local_size)
      root    == IF root_quota > 0 THEN root_quota ELSE n - default * (local_size - 1)
      size    == IF mt THEN Len(nodes[1]) \div 2 ELSE Len(nodes[1])
  IN  [i \in 1..local_size |-> IF i < local_size THEN default ELSE Least(root, size)]

Allowed(cpus, blacklist) == SelectSeq(cpus, LAMBDA c : c \notin blacklist)

\* _get_allocation from one node: the runs of consecutive ids among its first quota CPUs.
\* The black list, and the second threads of the cores, only count for the last run.
Runs(node, quota, mt, cpu_num, blacklist) ==
  LET starts == {1} \cup {i \in 2..quota : node[i] # node[i - 1] + 1}
      first  == SetToSortSeq(starts, <)
      last   == Allowed(SubSeq(node, first[Len(first)], quota), blacklist)
      twins  == Allowed([i \in DOMAIN last |-> last[i] + cpu_num], blacklist)
  IN  [i \in 1..(Len(first) - 1) |-> SubSeq(node, first[i], first[i + 1] - 1)]
        \o (IF mt THEN <<last, twins>> ELSE <<last>>)

\* The quota is lowered until a node has it.
Best(nodes, quota) ==
  CHOOSE q \in 0..quota :
    /\ \E n \in DOMAIN nodes : Len(nodes[n]) >= q
    /\ \A r \in (q + 1)..quota : \A n \in DOMAIN nodes : Len(nodes[n]) < r

\* The node an allocation of q CPUs is taken from.
From(nodes, q) == SelectInSeq(nodes, LAMBDA node : Len(node) >= q)

\* Mutant: the last of the CPUs is not deleted.
LeftLast(node, q) == SubSeq(node, q, Len(node))

\* What is left of it.
Left(node, q) == SubSeq(node, q + 1, Len(node))

\* The argument of numactl: a run is written as its first and its last CPU.
PhysCpuBind(runs) == UNION {runs[i][1]..runs[i][Len(runs[i])] : i \in {j \in DOMAIN runs : runs[j] # <<>>}}
=============================================================================
