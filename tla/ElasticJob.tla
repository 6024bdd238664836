----------------------------- MODULE ElasticJob -----------------------------
(***************************************************************************)
(* The life of the library in a process, src/byteps/common/__init__.py and *)
(* the functions of operations.cc and global.cc behind it, in a job whose  *)
(* members change: all processes suspend, some leave, the servers and the  *)
(* scheduler are started anew, new processes join and the others resume,   *)
(* as in example/pytorch/elastic_benchmark_byteps.py.  Every process then  *)
(* trains and averages a metric, as train_mnist_byteps.py does (after its  *)
(* resumption the benchmark only ends).  The broadcasts at the start of a  *)
(* program, which a process that resumes does not repeat, are left out.    *)
(*                                                                         *)
(* A name is known to the servers by its key, the number of names declared *)
(* before it.  ps-lite's barriers are external: one is passed by everyone  *)
(* when as many have arrived as DMLC_NUM_WORKER says.                      *)
(***************************************************************************)
EXTENDS Integers, Sequences, FiniteSets, Bags, Functions, SequencesExt

CONSTANTS
  Member,   \* the processes
  Program,  \* the names that the training program declares at its start, in order
  Scripts   \* [members: Seq(SUBSET Member), metric: a name that is first used at the end of a generation]

VARIABLES
  script,    \* members[g]: the processes of generation g
  pc,        \* pc[p]: where process p is
  gen,       \* gen[p]: its generation, 0 before it is started
  size,      \* size[p]: DMLC_NUM_WORKER when it was last initialized
  context,   \* context[p]: _name_to_cxt, name -> its key
  next_key,  \* next_key[p]
  declared,  \* declared[p]: _declared_tensors
  todo,      \* todo[p]: the names that it has not pushed in this generation
  arrived,   \* arrived[<<b, g>>]: the processes at barrier b of generation g
  pushed,    \* pushed[<<g, k>>]: process -> what it has pushed under key k in generation g
  results    \* results[p]: name -> the sum in this generation

vars == <<script, pc, gen, size, context, next_key, declared, todo, arrived, pushed, results>>
keys == <<context, next_key, declared>>

Names   == ToSet(Program) \cup {script.metric}
Gens    == DOMAIN script.members
Empty   == <<>>
Members(p) == script.members[gen[p]]

Init ==
  /\ script   \in Scripts
  /\ pc       = [p \in Member |-> "absent"]
  /\ gen      = [p \in Member |-> 0]
  /\ size     = [p \in Member |-> 0]
  /\ context  = [p \in Member |-> Empty]
  /\ next_key = [p \in Member |-> 0]
  /\ declared = [p \in Member |-> <<>>]
  /\ todo     = [p \in Member |-> {}]
  /\ arrived  = [b \in {"start", "end"} \X Gens |-> {}]
  /\ pushed   = [x \in Gens \X (0..(2 * Cardinality(Names))) |-> Empty]
  /\ results  = [p \in Member |-> Empty]

-----------------------------------------------------------------------------
(* Names and keys *)

\* IsTensorDeclared on [context, next_key, declared].
Declare(s, n) ==
  IF n \in DOMAIN s.context THEN s
  ELSE [context  |-> [m \in DOMAIN s.context \cup {n} |-> IF m = n THEN s.next_key ELSE s.context[m]],
        next_key |-> s.next_key + 1,
        declared |-> IF n \in ToSet(s.declared) THEN s.declared ELSE Append(s.declared, n)]

DeclareAll(s, names) == FoldLeft(Declare, s, names)

Keys(p) == [context |-> context[p], next_key |-> next_key[p], declared |-> declared[p]]

SetKeys(p, s) ==
  /\ context'  = [context EXCEPT ![p] = s.context]
  /\ next_key' = [next_key EXCEPT ![p] = s.next_key]
  /\ declared' = [declared EXCEPT ![p] = s.declared]

\* What Shutdown leaves: the list of names.
Cleared(s) == [s EXCEPT !.context = Empty, !.next_key = 0]

\* Mutant: the names are not declared again.
RedeclaredNone(s) == s

\* ReDeclareTensor
Redeclared(s) == DeclareAll(s, s.declared)

-----------------------------------------------------------------------------
(* Start of a process *)

\* The next generation is started when the one before has shut down.
Launch(p, g) ==
  /\ pc[p] = "absent" /\ p \in script.members[g]
  /\ g > 1 => arrived[<<"end", g - 1>>] = script.members[g - 1]
  /\ pc'   = [pc EXCEPT ![p] = "init"]
  /\ gen'  = [gen EXCEPT ![p] = g]
  /\ UNCHANGED <<script, size, keys, todo, arrived, pushed, results>>

\* init(), which is lazy, and the names the program declares.
LazyInit(p) ==
  /\ pc[p] = "init"
  /\ size' = [size EXCEPT ![p] = Cardinality(Members(p))]
  /\ SetKeys(p, DeclareAll(Keys(p), Program))
  /\ todo' = [todo EXCEPT ![p] = ToSet(Program)]
  /\ pc'   = [pc EXCEPT ![p] = "first_push"]
  /\ UNCHANGED <<script, gen, arrived, pushed, results>>

\* GetOrInitPS in the first InitTensor, or in byteps_init for resume().
InitPS(p) ==
  /\ pc[p] \in {"first_push", "resume_init"}
  /\ arrived' = [arrived EXCEPT ![<<"start", gen[p]>>] = @ \cup {p}]
  /\ pc'      = [pc EXCEPT ![p] = IF @ = "resume_init" THEN "resuming" ELSE "starting"]
  /\ UNCHANGED <<script, gen, size, keys, todo, pushed, results>>

Passed(b, p) == Cardinality(arrived[<<b, gen[p]>>]) >= size[p]

Connected(p) ==
  /\ pc[p] = "starting" /\ Passed("start", p)
  /\ pc' = [pc EXCEPT ![p] = "train"]
  /\ UNCHANGED <<script, gen, size, keys, todo, arrived, pushed, results>>

-----------------------------------------------------------------------------
(* push_pull: in an order of the process' own *)

PushPull(p, n) ==
  /\ pc[p] = "train" /\ n \in todo[p]
  /\ SetKeys(p, Declare(Keys(p), n))
  /\ todo'   = [todo EXCEPT ![p] = @ \ {n}]
  /\ pushed' = [pushed EXCEPT ![<<gen[p], context'[p][n]>>] =
                  [q \in DOMAIN @ \cup {p} |-> IF q = p THEN n ELSE @[q]]]
  /\ UNCHANGED <<script, pc, gen, size, arrived, results>>

\* The result is what was pushed under the key, of as many processes as there are.
Returned(p, n) ==
  /\ pc[p] = "train" /\ n \in DOMAIN context[p] /\ n \notin todo[p] \cup DOMAIN results[p]
  /\ LET sum == pushed[<<gen[p], context[p][n]>>]
     IN  /\ Cardinality(DOMAIN sum) >= size[p]
         /\ results' = [results EXCEPT ![p] = [m \in DOMAIN @ \cup {n} |-> IF m = n THEN sum ELSE @[m]]]
  /\ UNCHANGED <<script, pc, gen, size, keys, todo, arrived, pushed>>

Trained(p) == todo[p] = {} /\ ToSet(Program) \subseteq DOMAIN results[p]

\* metric_average after the training of a generation.
Metric(p) ==
  /\ pc[p] = "train" /\ Trained(p) /\ script.metric \notin DOMAIN results[p]
  /\ ~\E k \in DOMAIN pushed : k[1] = gen[p] /\ p \in DOMAIN pushed[k] /\ pushed[k][p] = script.metric
  /\ todo' = [todo EXCEPT ![p] = {script.metric}]
  /\ UNCHANGED <<script, pc, gen, size, keys, arrived, pushed, results>>

-----------------------------------------------------------------------------
(* suspend(), or shutdown() at exit, and resume() *)

\* Shutdown until Finalize, where the processes wait for each other.
Shutdown(p) ==
  /\ pc[p] = "train" /\ Trained(p) /\ script.metric \in DOMAIN results[p]
  /\ arrived' = [arrived EXCEPT ![<<"end", gen[p]>>] = @ \cup {p}]
  /\ pc'      = [pc EXCEPT ![p] = "finalize"]
  /\ UNCHANGED <<script, gen, size, keys, todo, pushed, results>>

Stays(p) == gen[p] < Len(script.members) /\ p \in script.members[gen[p] + 1]

Finalized(p) ==
  /\ pc[p] = "finalize" /\ Passed("end", p)
  /\ SetKeys(p, Cleared(Keys(p)))
  /\ results' = [results EXCEPT ![p] = Empty]
  /\ pc'      = [pc EXCEPT ![p] = IF Stays(p) THEN "suspended" ELSE "exited"]
  /\ UNCHANGED <<script, gen, size, todo, arrived, pushed>>

\* resume(num_workers, ...), up to byteps_init.
Resume(p) ==
  /\ pc[p] = "suspended"
  /\ gen'  = [gen EXCEPT ![p] = @ + 1]
  /\ size' = [size EXCEPT ![p] = Cardinality(script.members[gen[p] + 1])]
  /\ pc'   = [pc EXCEPT ![p] = "resume_init"]
  /\ UNCHANGED <<script, keys, todo, arrived, pushed, results>>

\* The names are declared again, in their order, after the barrier.
Resumed(p) ==
  /\ pc[p] = "resuming" /\ Passed("start", p)
  /\ SetKeys(p, Redeclared(Keys(p)))
  /\ todo' = [todo EXCEPT ![p] = ToSet(Program)]
  /\ pc'   = [pc EXCEPT ![p] = "train"]
  /\ UNCHANGED <<script, gen, size, arrived, pushed, results>>

-----------------------------------------------------------------------------
Ended(p)   == pc[p] = "exited" \/ \A g \in Gens : p \notin script.members[g]
Terminated == (\A p \in Member : Ended(p)) /\ UNCHANGED vars

Process(p) ==
  \/ (\E g \in Gens : Launch(p, g))
  \/ LazyInit(p) \/ InitPS(p) \/ Connected(p)
  \/ (\E n \in Names : PushPull(p, n) \/ Returned(p, n)) \/ Metric(p)
  \/ Shutdown(p) \/ Finalized(p) \/ Resume(p) \/ Resumed(p)

Next == (\E p \in Member : Process(p)) \/ Terminated

Spec == Init /\ [][Next]_vars

-----------------------------------------------------------------------------
(* Properties *)

\* In a generation a name has the same key in all processes that have declared it,
\* whether they have resumed or are new and in whatever order they push, and two names
\* have different keys (operations.cc:107-108, global.cc:392-396, 412-436).
KeysAgree ==
  \A p, q \in Member : (pc[p] = "train" /\ pc[q] = "train" /\ gen[p] = gen[q]) =>
    \A n \in DOMAIN context[p], m \in DOMAIN context[q] : (n = m) <=> (context[p][n] = context[q][m])

\* A result is the sum of what the members of the generation, and all of them, pushed
\* under its name: nothing of an earlier generation is left
\* (common/__init__.py:71-81, global.cc:152, 319-403).
SumOfMembers ==
  \A p \in Member : pc[p] = "train" =>
    \A n \in DOMAIN results[p] : results[p][n] = [q \in Members(p) |-> n]
=============================================================================
