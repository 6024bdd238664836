---------------------------- MODULE Compression ----------------------------
(***************************************************************************)
(* Training with a compressor (module Codecs) in the workers and in the    *)
(* server, for one key: the COMPRESS, PUSH, PULL and DECOMPRESS loops of a *)
(* worker's root, the decorators for momentum and error feedback, and the  *)
(* handler and engine of the server, src/byteps/server/server.cc, for a    *)
(* key that has a compressor.                                              *)
(*                                                                         *)
(* The server decompresses into the buffer of its compressor, compresses   *)
(* into it and answers pulls from it.  For compressed keys it does not     *)
(* reduce the replicas; what it compresses at ALL_RECV is the memory at    *)
(* the start of the replicas, and the place of a replica is computed from  *)
(* the compressed length.                                                  *)
(*                                                                         *)
(* The learning rate is in the file lr.s: the trainer of a worker writes   *)
(* it before it starts the push_pulls of a round, and may be one round     *)
(* ahead of the COMPRESS loop, which reads it.  Rates only fall, by whole  *)
(* factors.  A server reads the file of the directory it was started in:   *)
(* that of a worker, or there is none.                                     *)
(***************************************************************************)
EXTENDS Codecs

CONSTANTS
  Worker,   \* the workers' roots
  Length,   \* the elements of the tensor
  Scripts   \* [workers, codec, ef, mu, rates, grads, lr_s]: mu = 0 is no momentum; rates[r] and
            \* grads[w][r] are the learning rate and the gradient of round r; lr_s is the
            \* worker whose directory the server was started in, or "none"

VARIABLES
  script,
  registered, \* the server has made its compressor
  written,   \* written[w]: the round whose learning rate is in the lr.s of w
  read,      \* read[w]: the learning rates that its compressor has read, by round
  pc,        \* pc[w]: where worker w is
  round,     \* round[w]: its round
  mom,       \* mom[w]: its momentum
  error,     \* error[x]: the error of the worker or the server x
  pre_lr,    \* pre_lr[x]: the learning rate that it last read
  task,      \* task[w]: the compressed gradient, and the corrected one that it was made from
  sent,      \* sent[w]: what was sent, times the learning rate, over all rounds
  requests,  \* updates->request.size()
  received,  \* the sum of the tensors received in the round
  queue,     \* the engine's queue
  stored, replica,
  buf,       \* the buffer of the server's compressor: a compressed tensor z or a tensor x
  finished, seen, parked,  \* is_push_finished_, seen_sender_, q_pull_reqmeta_
  expected,  \* expected[r]: what the server should compress in round r
  results,   \* results[w]: the result of the worker's last round
  failed     \* a check of a compressor has failed

vars == <<script, registered, written, read, pc, round, mom, error, pre_lr, task, sent, requests, received, queue, stored, replica, buf,
          finished, seen, parked, expected, results, failed>>

Workers == script.workers
Size    == Cardinality(Workers)
Rounds  == Len(script.rates)
Tensor  == Zeros(Length)

NoTensor == <<>>           \* in results: none yet, or not made from a compressed tensor
NoCode   == [size |-> 0]   \* no compressed tensor
NoTask   == [z |-> NoCode, x |-> NoTensor]

Init ==
  /\ script \in Scripts
  /\ registered = FALSE
  /\ written = [w \in Worker |-> 0]
  /\ read    = [w \in Worker |-> <<>>]
  /\ pc      = [w \in Worker |-> IF w \in Workers THEN "compress" ELSE "done"]
  /\ round   = [w \in Worker |-> 1]
  /\ mom     = [w \in Worker |-> Tensor]
  /\ error   = [x \in Worker \cup {"server"} |-> Tensor]
  /\ pre_lr  = [x \in Worker \cup {"server"} |-> 0]
  /\ task    = [w \in Worker |-> NoTask]
  /\ sent    = [w \in Worker |-> Tensor]
  /\ requests = 0 /\ received = Tensor /\ queue = <<>>
  /\ stored = Tensor /\ replica = Zeros(Size * Length) /\ buf = NoTask
  /\ finished = FALSE /\ seen = {} /\ parked = {} /\ expected = <<>>
  /\ results = [w \in Worker |-> NoTensor] /\ failed = FALSE

-----------------------------------------------------------------------------
(* A worker *)

\* _allreduce_grads of the trainer writes the rate of its next round; the metric of a
\* round, which the training script waits for, keeps it from getting two rounds ahead.
WriteLr(w) ==
  /\ pc[w] # "done" /\ written[w] < Rounds /\ written[w] <= round[w]
  /\ written' = [written EXCEPT ![w] = @ + 1]
  /\ UNCHANGED <<script, registered, read, pc, round, mom, error, pre_lr, task, sent, requests, received, queue, stored,
                 replica, buf, finished, seen, parked, expected, results, failed>>

\* *_mm; an lr.s that nobody has written yet holds 0.
Lr(w) == IF written[w] = 0 THEN 0 ELSE script.rates[written[w]]

\* What the error is scaled with.
Rescaling(x, lr) == pre_lr[x] \div lr

\* UpdateMom and UpdateGradient of NesterovMomentumCompressor.
NextMom(w)   == Plus(script.grads[w][round[w]], Times(script.mu, mom[w]))
WithMom(w)   == Plus(script.grads[w][round[w]], Times(script.mu, NextMom(w)))

\* Mutant: the error is not rescaled to the new learning rate.
CorrectedUnscaled(w, g) == IF script.ef THEN Plus(g, error[w]) ELSE g

\* UpdateGradient of VanillaErrorFeedbackCompressor.
Corrected(w, g) == IF script.ef THEN Plus(g, Times(Rescaling(w, Lr(w)), error[w])) ELSE g

\* The checks on k and on the size of the result.
Refused(z) ==
  \/ script.codec.type \in {"topk", "randomk"} /\ script.codec.k > Length \div 2
  \/ z.size > Length

\* The job of the COMPRESS loop.
Compress(w) ==
  /\ pc[w] = "compress" /\ registered /\ written[w] >= round[w]
  /\ LET x == Corrected(w, WithMom(w))
     IN  \E z \in Compressed(script.codec, x) :
           /\ task'   = [task EXCEPT ![w] = [z |-> z, x |-> x]]
           /\ error'  = [error EXCEPT ![w] = IF script.ef THEN FastUpdateError(script.codec, x, z) ELSE @]
           /\ sent'   = [sent EXCEPT ![w] = Plus(@, Times(Lr(w), Decompressed(script.codec, z, Length)))]
           /\ failed' = (failed \/ Refused(z))
  /\ mom'    = [mom EXCEPT ![w] = NextMom(w)]
  /\ pre_lr' = [pre_lr EXCEPT ![w] = IF script.ef THEN Lr(w) ELSE @]
  /\ read'   = [read EXCEPT ![w] = IF script.ef THEN Append(@, Lr(w)) ELSE @]
  /\ pc'     = [pc EXCEPT ![w] = "push"]
  /\ UNCHANGED <<script, registered, written, round, requests, received, queue, stored, replica, buf, finished, seen, parked, expected, results>>

-----------------------------------------------------------------------------
(* The handler *)

\* The first worker's message with the parameters of the compressor: the constructor of the
\* error feedback opens and reads lr.s, and fails without it.
Register ==
  /\ ~registered /\ ~failed
  /\ IF script.ef /\ script.lr_s = "none"
     THEN failed' = TRUE /\ UNCHANGED <<registered, pre_lr>>
     ELSE /\ registered' = TRUE
          /\ pre_lr' = IF script.ef THEN [pre_lr EXCEPT !["server"] = Lr(script.lr_s)] ELSE pre_lr
          /\ UNCHANGED failed
  /\ UNCHANGED <<script, written, read, pc, round, mom, error, task, sent, requests, received, queue, stored, replica, buf,
                 finished, seen, parked, expected, results>>

Copy(dst, at, t) == [ops |-> "COPY_FIRST", dst |-> dst, at |-> at, src |-> t]
Sum(t)           == [ops |-> "SUM_RECV", dst |-> "stored", at |-> 0, src |-> t]
AllRecv(sum)     == [ops |-> "ALL_RECV", dst |-> "stored", at |-> 0, src |-> [z |-> NoCode, x |-> sum]]

Handle(t) ==
  <<IF requests = 0 THEN Copy("stored", 0, t) ELSE Sum(t), Copy("replica", t.z.size * requests, t)>>

\* ZPush and its handler; the sum of the round goes along with ALL_RECV for the properties.
Push(w) ==
  /\ pc[w] = "push"
  /\ LET t   == Decompressed(script.codec, task[w].z, Length)
         sum == IF requests = 0 THEN t ELSE Plus(received, t)
         all == requests + 1 = Size
     IN  /\ received' = sum
         /\ requests' = IF all THEN 0 ELSE requests + 1
         /\ queue'    = queue \o Handle(task[w]) \o (IF all THEN <<AllRecv(sum)>> ELSE <<>>)
  /\ task' = [task EXCEPT ![w] = NoTask]
  /\ pc'   = [pc EXCEPT ![w] = "pull"]
  /\ UNCHANGED <<script, registered, written, read, round, mom, error, pre_lr, sent, stored, replica, buf, finished, seen, parked, expected, results, failed>>

\* What the worker's DECOMPRESS loop makes of an answer from the buffer b.
Answer(b) == IF b.z = NoCode THEN NoTensor ELSE Decompressed(script.codec, b.z, Length)

\* The flags after the pulls of W were answered.
Answered(W) ==
  /\ seen'     = IF Cardinality(seen \cup W) = Size THEN {} ELSE seen \cup W
  /\ finished' = (Cardinality(seen \cup W) # Size)

Pull(w) ==
  /\ pc[w] = "pull"
  /\ pc' = [pc EXCEPT ![w] = "wait"]
  /\ IF finished /\ w \notin seen
     THEN /\ results' = [results EXCEPT ![w] = Answer(buf)]
          /\ Answered({w})
          /\ UNCHANGED parked
     ELSE /\ parked' = parked \cup {w}
          /\ UNCHANGED <<results, finished, seen>>
  /\ UNCHANGED <<script, registered, written, read, round, mom, error, pre_lr, task, sent, requests, received, queue, stored, replica, buf, expected, failed>>

\* The callback of the pull: on to the next round.
Received(w) ==
  /\ pc[w] = "wait" /\ w \notin parked
  /\ round' = [round EXCEPT ![w] = @ + 1]
  /\ pc'    = [pc EXCEPT ![w] = IF round[w] = Rounds THEN "done" ELSE "compress"]
  /\ UNCHANGED <<script, registered, written, read, mom, error, pre_lr, task, sent, requests, received, queue, stored, replica, buf,
                 finished, seen, parked, expected, results, failed>>

-----------------------------------------------------------------------------
(* The engine *)

Overwritten(at, t) == [i \in DOMAIN replica |-> IF i \in (at + 1)..(at + Length) THEN t[i - at] ELSE replica[i]]

\* COPY_FIRST and SUM_RECV, after decompression into the buffer.
Reduce ==
  /\ queue # <<>> /\ Head(queue).ops # "ALL_RECV"
  /\ LET m == Head(queue)
         t == Decompressed(script.codec, m.src.z, Length)
     IN  /\ buf'     = [z |-> NoCode, x |-> t]
         /\ stored'  = CASE m.dst = "replica"   -> stored
                         [] m.ops = "SUM_RECV"  -> Plus(stored, t)
                         [] OTHER               -> t
         /\ replica' = IF m.dst = "replica" THEN Overwritten(m.at, t) ELSE replica
  /\ queue' = Tail(queue)
  /\ UNCHANGED <<script, registered, written, read, pc, round, mom, error, pre_lr, task, sent, requests, received, finished, seen, parked, expected, results, failed>>

\* What ALL_RECV compresses: msg.src.
Merged == SubSeq(replica, 1, Length)

\* ALL_RECV: compress, and answer the pulls that wait.
Finish ==
  /\ queue # <<>> /\ Head(queue).ops = "ALL_RECV"
  /\ LET e == IF script.ef THEN Times(Rescaling("server", Lr(script.lr_s)), error["server"]) ELSE Tensor
         x == Plus(Merged, e)
     IN  \E z \in Compressed(script.codec, x) :
           /\ replica' = Overwritten(0, x)
           /\ error'   = [error EXCEPT !["server"] = IF script.ef THEN FastUpdateError(script.codec, x, z) ELSE @]
           /\ buf'     = [z |-> z, x |-> NoTensor]
           /\ results' = [w \in Worker |-> IF w \in parked \ seen THEN Answer(buf') ELSE results[w]]
           /\ expected' = Append(expected, Plus(Head(queue).src.x, e))
  /\ Answered(parked \ seen)
  /\ parked'   = parked \cap seen
  /\ pre_lr'   = [pre_lr EXCEPT !["server"] = IF script.ef THEN Lr(script.lr_s) ELSE @]
  /\ queue'    = Tail(queue)
  /\ UNCHANGED <<script, registered, written, read, pc, round, mom, task, sent, requests, received, stored, failed>>

-----------------------------------------------------------------------------
Ended      == \A w \in Worker : pc[w] = "done"
Stopped    == failed /\ ~registered  \* the server
Terminated == (Stopped \/ (Ended /\ queue = <<>>)) /\ UNCHANGED vars

Process(w) == WriteLr(w) \/ Compress(w) \/ Push(w) \/ Pull(w) \/ Received(w)

Engine == Reduce \/ Finish

Next == Register \/ (\E w \in Worker : Process(w)) \/ Engine \/ Terminated

Spec == Init /\ [][Next]_vars

-----------------------------------------------------------------------------
(* Properties *)

\* The reference for momentum: g + mu * (the sum of all gradients so far, each times mu to
\* its age).
Stepped(w, r) ==
  LET m == FoldLeft(LAMBDA s, i : Plus(Times(script.mu, s), script.grads[w][i]), Tensor, [i \in 1..r |-> i])
  IN  Plus(script.grads[w][r], Times(script.mu, m))

\* Every index, or the count of bits of the longest stream, fits into index_t.
Fits ==
  LET c == script.codec
  IN  CASE c.type = "onebit"    -> TRUE
        [] c.type = "dithering" -> Length * Len(Code(Length, 0, Levels(c))) < 2^c.width
        [] OTHER                -> Length <= 2^c.width

\* Error feedback loses nothing: what a worker has sent and what it keeps as its error make
\* up all its gradients with their momentum, each weighted by the learning rate that the
\* compressor read in its round, whatever the compressor drops or rounds and however the
\* rate changes.  The rate read is the round's own, or the next one if the trainer has
\* written it before the COMPRESS loop got to the tensor: then the weights are not those
\* with which the optimizer applies the rounds.  The tensor must not have more elements
\* than index_t can count, 65536 in half precision.  (error_feedback.cc:22-43,
\* vanilla_error_feedback.cc:58-64, FastUpdateError of each; mxnet/__init__.py:325-331.)
GradientConserved ==
  (script.ef /\ Fits) => \A w \in Workers :
    Plus(sent[w], Times(pre_lr[w], error[w])) =
    FoldLeft(LAMBDA s, r : Plus(s, Times(read[w][r], Stepped(w, r))), Tensor, [r \in DOMAIN read[w] |-> r])

Sign(x) == IF x < 0 THEN -1 ELSE 1

\* The levels of dithering that lie around y, of the elements' maximum being scale.
Around(c, y, scale) ==
  LET levels == {0} \cup IF c.natural THEN {2^n : n \in 0..(c.k - 1)} ELSE 1..c.k
      below  == Max({l \in levels : l * scale <= Abs(y) * Levels(c)})
      above  == Min({l \in levels : l * scale >= Abs(y) * Levels(c)})
  IN  {below, above}

\* t is what the documentation of the compressor makes of x.
Approximates(c, x, t) ==
  CASE c.type = "onebit"  -> \A i \in 1..Length : t[i] = Sign(x[i]) * (IF c.scaling THEN Mean(x) ELSE 1)
    [] c.type = "topk"    -> \E K \in kSubset(c.k, 1..Length) :
                               /\ \A i \in K, j \in 1..Length \ K : Abs(x[i]) >= Abs(x[j])
                               /\ \A i \in 1..Length : t[i] = IF i \in K THEN x[i] ELSE 0
    [] c.type = "randomk" -> /\ Cardinality({i \in 1..Length : t[i] # 0}) <= c.k
                             /\ \A i \in 1..Length : t[i] \in {0, x[i]}
    [] OTHER              -> LET scale == Max({Abs(x[i]) : i \in 1..Length})
                             IN  \A i \in 1..Length : \E q \in Around(c, x[i], scale) :
                                   t[i] = Sign(x[i]) * ((q * scale) \div Levels(c))

\* What the server decompresses is, element by element, what the compressor promises to make
\* of the worker's tensor, however the code words lie in the words of the stream, as long as
\* indices and counts of bits fit into index_t.  When indices do not fit, topk and randomk
\* still invent nothing: every element decoded is one of the tensor, but stands where the
\* cut-off index points.
\* (utils.h:113-204, onebit.cc, topk.cc:49-58, randomk.cc:53-58, dithering.cc:107-132.)
PushDecodes ==
  \A i \in DOMAIN queue : queue[i].ops # "ALL_RECV" =>
    LET x == queue[i].src.x
        t == Decompressed(script.codec, queue[i].src.z, Length)
    IN  /\ Fits => Approximates(script.codec, x, t)
        /\ script.codec.type \in {"topk", "randomk"} =>
             \A p \in 1..Length : t[p] # 0 => \E e \in 1..Length : Place(script.codec, e) = p /\ t[p] = x[e]

\* No compressed tensor is larger than the tensor ("Compressor Implementation Error",
\* core_loops.cc:517-520), and no k is too large (topk.cc:48).  Only a server that was
\* started where there is no lr.s fails, and then before any round has begun
\* (vanilla_error_feedback.cc:45-46).
CompressedFits ==
  failed => /\ script.ef /\ script.lr_s = "none"
            /\ \A w \in Workers : pc[w] = "compress" /\ round[w] = 1

\* What a worker pulls is the compressed sum of the tensors that were pushed in the round
\* ("server: majority vote sign(\sum_i c_i)", onebit.h:34-35).
PullsCompressedSum ==
  \A w \in Workers :
    LET r == IF pc[w] = "wait" /\ w \notin parked THEN round[w] ELSE round[w] - 1
    IN  (r > 0 /\ Fits) => results[w] # NoTensor /\ Approximates(script.codec, expected[r], results[w])
=============================================================================
