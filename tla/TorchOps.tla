------------------------------ MODULE TorchOps ------------------------------
(***************************************************************************)
(* The push_pull calls of src/byteps/torch/ops.py and the handles of       *)
(* ops.cc and handle_manager.cc.  A call returns a handle at once; the     *)
(* first call under a name goes through a detached thread, which creates   *)
(* the tensor on the servers before it is enqueued; a callback averages    *)
(* the output and marks the handle done; poll() and synchronize() look at  *)
(* the mark.  The processes run one program of calls; each waits for its   *)
(* handles in any order, and repeats a name only after it has waited.      *)
(***************************************************************************)
EXTENDS Collective

CONSTANTS
  Names,    \* the names that the programs use
  Scripts   \* sequences of calls [kind, name, average: BOOLEAN, dtype, fp16: BOOLEAN]; the
            \* kind is the function of ops.py, fp16 the compression given to push_pull

VARIABLES
  script,       \* the program
  called,       \* called[w]: the calls made; the handle of a call is its number
  handle_map,   \* _handle_map: the handles not yet waited for
  starting,     \* starting[w]: the handles whose detached thread has not enqueued them
  announced,    \* announced[w]: the names whose creation w has asked the servers for
  initialized,  \* initialized[w]: the names whose context is initialized
  number,       \* number[w][h]: the number of the call among those enqueued under its name
  input,        \* input[w][h], output[w][h]: the tensors of the call, [value, dtype]
  output,
  arrived,      \* arrived[w]: the handles whose sum is in the output
  results,      \* results[w]: the handles marked done
  returned,     \* returned[w][h]: what synchronize() has returned
  sent

vars == <<script, called, handle_map, starting, announced, initialized, number,
          input, output, arrived, results, returned, sent>>

Calls         == DOMAIN script
Own(w, h)     == <<w, h>>
Pending       == [value |-> Zero, dtype |-> "none"]
Floats        == {"float64", "float32", "float16"}

\* push_pull compresses its input and decompresses what it returns.
Compresses(call) == call.kind = "push_pull" /\ call.fp16

\* push_pull and push_pull_inplace wait for their own handle.
Waits(call) == call.kind \in {"push_pull", "push_pull_inplace"}

\* FP16Compressor.compress; NoneCompressor leaves the tensor alone.
Compress(call, t) == [t EXCEPT !.dtype = IF Compresses(call) /\ @ \in Floats THEN "float16" ELSE @]

\* decompress(), with the type of the tensor before compression as its context.
Decompress(call, t) == [t EXCEPT !.dtype = IF Compresses(call) /\ call.dtype \in Floats THEN call.dtype ELSE @]

\* The tensor that a call gives the library as its output: the input or a new one.
Overwrites(call) == call.kind \in {"push_pull_async_inplace", "push_pull_inplace"}

Init ==
  /\ script      \in Scripts
  /\ called      = [w \in Worker |-> 0]
  /\ handle_map  = [w \in Worker |-> {}]
  /\ starting    = [w \in Worker |-> {}]
  /\ announced   = [w \in Worker |-> {}]
  /\ initialized = [w \in Worker |-> {}]
  /\ number      = [w \in Worker |-> [h \in Calls |-> 0]]
  /\ input       = [w \in Worker |-> [h \in Calls |-> [value |-> Once(Own(w, h)), dtype |-> script[h].dtype]]]
  /\ output      = [w \in Worker |-> [h \in Calls |-> Pending]]
  /\ arrived     = [w \in Worker |-> {}]
  /\ results     = [w \in Worker |-> {}]
  /\ returned    = [w \in Worker |-> [h \in Calls |-> Pending]]
  /\ sent        = [w \in Worker |-> [n \in Names |-> <<>>]]

-----------------------------------------------------------------------------
\* EnqueueTensor: the tensor goes on its way as the next call under its name.
Enqueue(w, h) ==
  /\ sent'   = Push(sent, w, script[h].name, input[w][h].value)
  /\ number' = [number EXCEPT ![w][h] = LastCall(sent', w, script[h].name)]

\* A call of any kind, up to the handle.
PushPullAsync(w) ==
  LET h == called[w] + 1
  IN  /\ called[w] < Len(script)
      /\ \A g \in handle_map[w] : script[g].name # script[h].name /\ ~Waits(script[g])
      /\ called'     = [called EXCEPT ![w] = h]
      /\ handle_map' = [handle_map EXCEPT ![w] = @ \cup {h}]
      /\ output'     = [output EXCEPT ![w][h].dtype = Compress(script[h], input[w][h]).dtype]
      /\ IF script[h].name \in initialized[w]
           THEN Enqueue(w, h) /\ UNCHANGED starting
           ELSE starting' = [starting EXCEPT ![w] = @ \cup {h}] /\ UNCHANGED <<sent, number>>
      /\ UNCHANGED <<script, announced, initialized, input, arrived, results, returned>>

\* StartTask in its thread: InitTensor pushes to the servers, ...
InitTensor(w, h) ==
  /\ h \in starting[w] /\ script[h].name \notin announced[w]
  /\ announced' = [announced EXCEPT ![w] = @ \cup {script[h].name}]
  /\ UNCHANGED <<script, called, handle_map, starting, initialized, number, input, output,
                 arrived, results, returned, sent>>

\* ... which answer when every worker has, ...
Initialized(w, h) ==
  /\ h \in starting[w] /\ script[h].name \notin initialized[w]
  /\ \A v \in Worker : script[h].name \in announced[v]
  /\ initialized' = [initialized EXCEPT ![w] = @ \cup {script[h].name}]
  /\ UNCHANGED <<script, called, handle_map, starting, announced, number, input, output,
                 arrived, results, returned, sent>>

\* ... and the tensor is enqueued.
StartTask(w, h) ==
  /\ h \in starting[w] /\ script[h].name \in initialized[w]
  /\ starting' = [starting EXCEPT ![w] = @ \ {h}]
  /\ Enqueue(w, h)
  /\ UNCHANGED <<script, called, handle_map, announced, initialized, input, output,
                 arrived, results, returned>>

\* The loops write the sum into the output, which is the input of an in-place call.
Arrive(w, h) ==
  /\ number[w][h] > 0 /\ h \notin arrived[w] /\ Finished(sent, script[h].name, number[w][h])
  /\ arrived' = [arrived EXCEPT ![w] = @ \cup {h}]
  /\ output'  = [output EXCEPT ![w][h].value = Summed(sent, script[h].name, number[w][h])]
  /\ input'   = [input EXCEPT ![w][h].value = IF Overwrites(script[h]) THEN output'[w][h].value ELSE @]
  /\ UNCHANGED <<script, called, handle_map, starting, announced, initialized, number,
                 results, returned, sent>>

\* The callback of the last partition.
Callback(w, h) ==
  /\ h \in arrived[w] \ results[w]
  /\ output'  = [output EXCEPT ![w][h].value = IF script[h].average THEN Divide(@, Size) ELSE @]
  /\ input'   = [input EXCEPT ![w][h].value = IF Overwrites(script[h]) THEN output'[w][h].value ELSE @]
  /\ results' = [results EXCEPT ![w] = @ \cup {h}]
  /\ UNCHANGED <<script, called, handle_map, starting, announced, initialized, number,
                 arrived, returned, sent>>

\* Mutant: a handle counts as done when its sum has arrived.
PollHandleArrived(w, h) == h \in arrived[w]

\* poll(handle): the results of handle_manager.cc.
PollHandle(w, h) == h \in results[w]

\* synchronize() of a handle that _handle_map knows; of another it returns nothing.
Synchronize(w, h) ==
  /\ h \in handle_map[w] /\ PollHandle(w, h)
  /\ handle_map' = [handle_map EXCEPT ![w] = @ \ {h}]
  /\ returned'   = [returned EXCEPT ![w][h] = Decompress(script[h], output[w][h])]
  /\ UNCHANGED <<script, called, starting, announced, initialized, number, input, output,
                 arrived, results, sent>>

-----------------------------------------------------------------------------
Finish(w) == called[w] = Len(script) /\ handle_map[w] = {}

Terminated == (\A w \in Worker : Finish(w)) /\ UNCHANGED vars

\* The script's thread, and the threads behind it.
Main(w)   == PushPullAsync(w) \/ \E h \in Calls : Synchronize(w, h)
Thread(w) == \E h \in Calls : InitTensor(w, h) \/ Initialized(w, h) \/ StartTask(w, h) \/ Arrive(w, h) \/ Callback(w, h)

Process(w) == Main(w) \/ Thread(w)

Next == (\E w \in Worker : Process(w)) \/ Terminated

Spec == Init /\ [][Next]_vars

-----------------------------------------------------------------------------
(* Properties *)

\* What the h-th call of the program is to return everywhere.
ExpectedResult(h) ==
  [value |-> [c \in {Own(v, h) : v \in Worker} |-> IF script[h].average THEN Scale \div Size ELSE Scale],
   dtype |-> script[h].dtype]

\* A handle returns the sum or the average of the tensors of its own call on every
\* process, in the type of its input, in whatever order the handles are waited for and
\* whichever thread enqueued the call (ops.py:69-76, 222-236; ops.cc:54-135).
ReturnsOwnCall == \A w \in Worker, h \in Calls : returned[w][h] # Pending => returned[w][h] = ExpectedResult(h)

\* Out of place, the input is never modified; in place, it is the result once
\* synchronize() has returned ("The input tensor is not modified", ops.py:91; 157-174).
InputModifiedInPlace ==
  \A w \in Worker, h \in Calls :
    /\ script[h].kind \in {"push_pull", "push_pull_async"} => input[w][h].value = Once(Own(w, h))
    /\ script[h].kind \in {"push_pull_inplace", "push_pull_async_inplace"} /\ returned[w][h] # Pending => input[w][h].value = returned[w][h].value
=============================================================================
