---------------------------- MODULE MiningProofs ----------------------------
(***************************************************************************)
(* Proofs about Mining, for any evidence, any number of pow goroutines and *)
(* any number of jobs, rounds and changes of the chain.                    *)
(*                                                                         *)
(* A nonce fits the header although the header changes in place, because   *)
(* it does so only outside of the scheduler's select: while the scheduler  *)
(* waits for a job, that job and its workers know no other header than the *)
(* one of the block (Fits). Earlier jobs may know any header: nobody reads *)
(* what they find.                                                         *)
(*                                                                         *)
(* A block is not refused for its evidence because a change of the chain   *)
(* since the round began moves the head away from the block's base         *)
(* (NewToChain).                                                           *)
(***************************************************************************)
EXTENDS Mining, Iteration, SequenceTheorems

\* Where a goroutine is, and the records, over any set V of values. HeaderOf takes a maximum, and the
\* pool a list: that these have the expected types is not needed here.
Phase == {"new", "search", "send", "run", "leave", "done"}

JobType(V) ==
  [round : Nat, header : Nat, stop : Nat, result : Seq(V), powResult : Seq(V),
   powStop : Nat, collector : Phase, finished : Nat, left : Nat,
   worker : [Worker -> Phase], nonce : [Worker -> V]]

BlockType(V) ==
  [round : Nat, base : Nat, evds : SUBSET V, size : Nat, header : Nat]

Types(V) ==
  /\ Nat \subseteq V
  /\ parallel \in Nat /\ head \in Nat
  /\ jobs \in Seq(JobType(V))
  /\ block \in BlockType(V)

\* All that the job or one of its workers can deliver fits the header.
Fits(job) ==
  LET Fitting == {0, block.header}
  IN  /\ job.round = block.round
      /\ \A w \in Worker : job.nonce[w] \in Fitting
      /\ \A i \in DOMAIN job.result : job.result[i] \in Fitting
      /\ \A i \in DOMAIN job.powResult : job.powResult[i] \in Fitting

Awaited == sched = "select" => Cur # 0 /\ Fits(jobs[Cur])

\* The evidence of a block that still builds on the head is not on the chain.
NewToChain ==
  /\ block.base <= head
  /\ sched \in {"gather", "mine", "select"} /\ block.base = head
       => block.evds \cap chainEvds = {}

Inv == (\E V : Types(V)) /\ Awaited /\ NewToChain /\ NonceFitsHeader /\ OwnBlockAccepted

-----------------------------------------------------------------------------
(* Lemmas *)

\* Types over a set are types over a larger one.
LEMMA Wider ==
  ASSUME NEW V, Types(V), NEW W, V \subseteq W
  PROVE  Types(W)
<1>1. JobType(V) \subseteq JobType(W)
  <2>1. Seq(V) \subseteq Seq(W)
    OBVIOUS
  <2>2. [Worker -> V] \subseteq [Worker -> W]
    OBVIOUS
  <2> QED
    BY <2>1, <2>2 DEF JobType
<1>2. BlockType(V) \subseteq BlockType(W)
  BY DEF BlockType
<1>3. jobs \in Seq(JobType(W))
  BY <1>1 DEF Types
<1> QED
  BY <1>2, <1>3 DEF Types

\* What the steps of a job set, one operator each.
WithStop(job, n) == [job EXCEPT !.stop = n]
WithPowStop(job, n) == [job EXCEPT !.powStop = n]
WithFinished(job, n) == [job EXCEPT !.finished = n]
WithCollector(job, c, n) == [job EXCEPT !.collector = c, !.left = n]
WithResult(job, q) == [job EXCEPT !.result = q]
WithPowResult(job, q) == [job EXCEPT !.powResult = q]
WithWorker(job, w, s, n) == [job EXCEPT !.worker[w] = s, !.nonce[w] = n]

\* They keep the types, and a job that fits fits as long as what is set does.
LEMMA SetCount ==
  ASSUME NEW V, NEW job \in JobType(V), NEW n \in Nat
  PROVE  /\ WithStop(job, n) \in JobType(V)
         /\ WithPowStop(job, n) \in JobType(V)
         /\ WithFinished(job, n) \in JobType(V)
         /\ Fits(job) => /\ Fits(WithStop(job, n)) /\ Fits(WithPowStop(job, n))
                         /\ Fits(WithFinished(job, n))
<1> DEFINE F == [Worker -> Phase]
           G == [Worker -> V]
           Q == Seq(V)
<1>1. job \in [round : Nat, header : Nat, stop : Nat, result : Q, powResult : Q,
               powStop : Nat, collector : Phase, finished : Nat, left : Nat,
               worker : F, nonce : G]
  BY DEF JobType
<1> HIDE DEF F, G, Q
<1> USE <1>1 DEF WithStop, WithPowStop, WithFinished
<1>2. WithStop(job, n) \in JobType(V) /\ WithPowStop(job, n) \in JobType(V)
  BY DEF JobType, F, G, Q
<1>3. WithFinished(job, n) \in JobType(V)
  BY DEF JobType, F, G, Q
<1>4. Fits(job) => /\ Fits(WithStop(job, n)) /\ Fits(WithPowStop(job, n))
                   /\ Fits(WithFinished(job, n))
  BY DEF Fits
<1> QED
  BY <1>2, <1>3, <1>4

\* The same of the collector's place.
LEMMA SetCollector ==
  ASSUME NEW V, NEW job \in JobType(V), NEW n \in Nat, NEW c \in Phase
  PROVE  /\ WithCollector(job, c, n) \in JobType(V)
         /\ Fits(job) => Fits(WithCollector(job, c, n))
<1> DEFINE F == [Worker -> Phase]
           G == [Worker -> V]
           Q == Seq(V)
<1>1. job \in [round : Nat, header : Nat, stop : Nat, result : Q, powResult : Q,
               powStop : Nat, collector : Phase, finished : Nat, left : Nat,
               worker : F, nonce : G]
  BY DEF JobType
<1> HIDE DEF F, G, Q
<1>2. WithCollector(job, c, n) \in JobType(V)
  BY <1>1 DEF JobType, F, G, Q, WithCollector
<1>3. Fits(job) => Fits(WithCollector(job, c, n))
  BY <1>1 DEF Fits, WithCollector
<1> QED
  BY <1>2, <1>3

\* The same of the channels with results.
LEMMA SetResults ==
  ASSUME NEW V, NEW job \in JobType(V), NEW q \in Seq(V)
  PROVE  /\ WithResult(job, q) \in JobType(V)
         /\ WithPowResult(job, q) \in JobType(V)
         /\ Fits(job) /\ (\A i \in DOMAIN q : q[i] \in {0, block.header})
              => Fits(WithResult(job, q)) /\ Fits(WithPowResult(job, q))
<1> DEFINE F == [Worker -> Phase]
           G == [Worker -> V]
           Q == Seq(V)
<1>1. job \in [round : Nat, header : Nat, stop : Nat, result : Q, powResult : Q,
               powStop : Nat, collector : Phase, finished : Nat, left : Nat,
               worker : F, nonce : G]
  BY DEF JobType
<1>2. q \in Q
  OBVIOUS
<1> HIDE DEF F, G, Q
<1> USE <1>1, <1>2 DEF WithResult, WithPowResult
<1>3. WithResult(job, q) \in JobType(V) /\ WithPowResult(job, q) \in JobType(V)
  BY DEF JobType, F, G, Q
<1>4. Fits(job) /\ (\A i \in DOMAIN q : q[i] \in {0, block.header})
        => Fits(WithResult(job, q)) /\ Fits(WithPowResult(job, q))
  BY DEF Fits
<1> QED
  BY <1>3, <1>4

\* The same of a worker's place and nonce.
LEMMA SetWorker ==
  ASSUME NEW V, NEW job \in JobType(V), NEW w \in Worker, NEW s \in Phase, NEW n \in V
  PROVE  /\ WithWorker(job, w, s, n) \in JobType(V)
         /\ Fits(job) /\ n \in {0, block.header} => Fits(WithWorker(job, w, s, n))
<1> DEFINE F == [Worker -> Phase]
           G == [Worker -> V]
           Q == Seq(V)
           f == [job.worker EXCEPT ![w] = s]
           g == [job.nonce EXCEPT ![w] = n]
<1>1. job \in [round : Nat, header : Nat, stop : Nat, result : Q, powResult : Q,
               powStop : Nat, collector : Phase, finished : Nat, left : Nat,
               worker : F, nonce : G]
  BY DEF JobType
<1>2. f \in F /\ g \in G
  BY <1>1
<1>3. WithWorker(job, w, s, n) = [job EXCEPT !.worker = f, !.nonce = g]
  BY <1>1 DEF WithWorker
<1>4. \A v \in Worker : g[v] \in {n, job.nonce[v]}
  BY <1>1
<1> HIDE DEF F, G, Q, f, g
<1>5. [job EXCEPT !.worker = f, !.nonce = g]
        \in [round : Nat, header : Nat, stop : Nat, result : Q, powResult : Q,
             powStop : Nat, collector : Phase, finished : Nat, left : Nat,
             worker : F, nonce : G]
  BY <1>1, <1>2
<1>6. WithWorker(job, w, s, n) \in JobType(V)
  BY <1>3, <1>5 DEF JobType, F, G, Q
<1>7. Fits(job) /\ n \in {0, block.header} => Fits(WithWorker(job, w, s, n))
  BY <1>1, <1>3, <1>4 DEF Fits
<1> QED
  BY <1>6, <1>7

\* A step of a goroutine changes one job, and nothing of the scheduler.
LEMMA JobChange ==
  ASSUME Inv, NEW W, Types(W), NEW j \in DOMAIN jobs, NEW job \in JobType(W),
         jobs' = [jobs EXCEPT ![j] = job], UNCHANGED chainVars,
         j = Cur /\ Fits(jobs[j]) => Fits(job)
  PROVE  Inv'
<1> DEFINE J == JobType(W)
<1>1. UNCHANGED <<parallel, head, chainEvds, notify, sched, block, found, refused>>
  BY DEF chainVars
<1>2. jobs \in Seq(J) /\ job \in J
  BY DEF Types
<1> HIDE DEF J
<1>3. /\ jobs' \in Seq(J) /\ Len(jobs') = Len(jobs)
      /\ \A i \in DOMAIN jobs : jobs'[i] = IF i = j THEN job ELSE jobs[i]
      /\ Len(jobs) \in Nat /\ DOMAIN jobs = 1 .. Len(jobs)
  BY <1>2
<1>4. J' = J
  BY <1>1 DEF J, JobType, Worker
<1>5. Types(W)'
  BY <1>1, <1>3, <1>4 DEF Types, J, BlockType
<1>6. Awaited'
  <2> SUFFICES ASSUME sched = "select"
               PROVE  (Cur # 0 /\ Fits(jobs[Cur]))'
    BY <1>1 DEF Awaited
  <2>1. Cur # 0 /\ Fits(jobs[Cur]) /\ Cur' = Cur /\ Cur \in DOMAIN jobs
    BY <1>3 DEF Inv, Awaited, Cur
  <2>2. Fits(jobs'[Cur])
    BY <1>3, <2>1
  <2> QED
    BY <1>1, <2>1, <2>2 DEF Fits, Worker, Cur
<1> QED
  BY <1>1, <1>5, <1>6 DEF Inv, NewToChain, NonceFitsHeader, OwnBlockAccepted

\* The steps of a worker keep what the job can deliver.
LEMMA PowStep ==
  ASSUME Inv, NEW j, NEW w \in Worker, PowWorker(j, w)
  PROVE  Inv'
<1>1. PICK V : Types(V)
  BY DEF Inv
<1>2. j \in DOMAIN jobs /\ UNCHANGED chainVars /\ Chan(j) = j
  BY DEF PowWorker, Chan
<1>3. jobs[j] \in JobType(V) /\ jobs \in Seq(JobType(V)) /\ 0 \in V
  BY <1>1, <1>2 DEF Types
<1>4. /\ jobs[j].nonce[w] \in V
      /\ jobs[j].powResult \in Seq(V) /\ jobs[j].powStop \in Nat
      /\ Fits(jobs[j]) => jobs[j].nonce[w] \in {0, block.header}
  BY <1>3 DEF JobType, Fits
<1>9. {"search", "send", "done"} \subseteq Phase
  BY DEF Phase
<1>5. CASE Start(j, w)
  <2> DEFINE h == HeaderOf(jobs[j].round)
             W == V \cup {h}
             job == WithWorker(jobs[j], w, "search", h)
  <2>1. Types(W)
    BY <1>1, Wider
  <2>2. jobs[j] \in JobType(W) /\ h \in W
    BY <1>2, <2>1 DEF Types
  <2>3. jobs' = [jobs EXCEPT ![j] = job]
    BY <1>5 DEF Start, SetJob, WithWorker
  <2>4. jobs[j].round = block.round => h = block.header
    BY DEF HeaderOf
  <2>5. Fits(jobs[j]) => jobs[j].round = block.round
    BY DEF Fits
  <2> HIDE DEF h, W
  <2>6. job \in JobType(W) /\ (Fits(jobs[j]) => Fits(job))
    BY <1>9, <2>2, <2>4, <2>5, SetWorker
  <2> QED
    BY <1>2, <2>1, <2>3, <2>6, JobChange
<1>6. CASE SeeStop(j, w)
  <2> DEFINE mid == WithPowStop(jobs[j], jobs[j].powStop - 1)
             job == WithWorker(mid, w, "done", 0)
  <2>1. jobs' = [jobs EXCEPT ![j] = job]
    BY <1>2, <1>3, <1>6 DEF SeeStop, JobType, WithWorker, WithPowStop
  <2>2. jobs[j].powStop - 1 \in Nat
    BY <1>2, <1>4, <1>6 DEF SeeStop
  <2>3. mid \in JobType(V) /\ (Fits(jobs[j]) => Fits(mid))
    BY <1>3, <2>2, SetCount
  <2> HIDE DEF mid
  <2>4. job \in JobType(V) /\ (Fits(jobs[j]) => Fits(job))
    BY <1>3, <1>9, <2>3, SetWorker
  <2> QED
    BY <1>1, <1>2, <2>1, <2>4, JobChange
<1>7. CASE Find(j, w)
  <2>1. PICK n \in {0, jobs[j].nonce[w]} :
          jobs' = [jobs EXCEPT ![j] = WithWorker(jobs[j], w, "send", n)]
    BY <1>7 DEF Find, SetJob, WithWorker
  <2> DEFINE job == WithWorker(jobs[j], w, "send", n)
  <2>2. n \in V /\ (Fits(jobs[j]) => n \in {0, block.header})
    BY <1>3, <1>4
  <2>3. job \in JobType(V) /\ (Fits(jobs[j]) => Fits(job))
    BY <1>3, <1>9, <2>2, SetWorker
  <2> QED
    BY <1>1, <1>2, <2>1, <2>3, JobChange
<1>8. CASE Send(j, w)
  <2> DEFINE n == jobs[j].nonce[w]
             q == Append(jobs[j].powResult, n)
             mid == WithPowResult(jobs[j], q)
             job == WithWorker(mid, w, "done", 0)
  <2>1. jobs' = [jobs EXCEPT ![j] = job]
    BY <1>2, <1>3, <1>8 DEF Send, JobType, WithWorker, WithPowResult
  <2>2. /\ q \in Seq(V)
        /\ \A i \in DOMAIN q : \/ q[i] = n
                               \/ /\ i \in DOMAIN jobs[j].powResult
                                  /\ q[i] = jobs[j].powResult[i]
    BY <1>4
  <2> HIDE DEF q
  <2>3. Fits(jobs[j]) => \A i \in DOMAIN q : q[i] \in {0, block.header}
    BY <1>4, <2>2 DEF Fits
  <2>4. mid \in JobType(V) /\ (Fits(jobs[j]) => Fits(mid))
    BY <1>3, <2>2, <2>3, SetResults
  <2> HIDE DEF mid
  <2>5. job \in JobType(V) /\ (Fits(jobs[j]) => Fits(job))
    BY <1>3, <1>9, <2>4, SetWorker
  <2> QED
    BY <1>1, <1>2, <2>1, <2>5, JobChange
<1> QED
  BY <1>5, <1>6, <1>7, <1>8 DEF PowWorker, Pow

\* The collector passes on what it was sent, or 0.
LEMMA CollectorStep ==
  ASSUME Inv, NEW j, Collector(j)
  PROVE  Inv'
<1>1. PICK V : Types(V)
  BY DEF Inv
<1>2. j \in DOMAIN jobs /\ UNCHANGED chainVars /\ Chan(j) = j
  BY DEF Collector, Chan
<1>3. /\ jobs[j] \in JobType(V) /\ jobs \in Seq(JobType(V)) /\ 0 \in V
      /\ parallel \in Nat
  BY <1>1, <1>2 DEF Types
<1>4. /\ jobs[j].powResult \in Seq(V) /\ jobs[j].powStop \in Nat
      /\ jobs[j].stop \in Nat /\ jobs[j].finished \in Nat /\ jobs[j].left \in Nat
  BY <1>3 DEF JobType
<1>5. "leave" \in Phase /\ "done" \in Phase
  BY DEF Phase
<1> DEFINE Keeps(job) == job \in JobType(V) /\ (Fits(jobs[j]) => Fits(job))
<1>6. ASSUME NEW job, Keeps(job)
      PROVE  Keeps(WithCollector(job, "leave", parallel))
  BY <1>3, <1>5, <1>6, SetCollector
<1>7. ASSUME NEW job, Keeps(job), NEW v \in V, Fits(jobs[j]) => v \in {0, block.header}
      PROVE  Keeps(WithCollector(WithResult(job, <<v>>), "leave", parallel))
  <2>1. <<v>> \in Seq(V) /\ \A i \in DOMAIN <<v>> : <<v>>[i] = v
    OBVIOUS
  <2>2. Keeps(WithResult(job, <<v>>))
    BY <1>7, <2>1, SetResults
  <2> QED
    BY <2>2, <1>6
<1>8. ASSUME NEW job, Keeps(job), jobs' = [jobs EXCEPT ![j] = job]
      PROVE  Inv'
  BY <1>1, <1>2, <1>8, JobChange
<1>9. Keeps(jobs[j])
  BY <1>3
<1> HIDE DEF Keeps
<1>10. CASE /\ jobs[j].stop > 0
            /\ SetJob(j, Leave([jobs[j] EXCEPT !.stop = @ - 1]))
  <2> DEFINE mid == WithStop(jobs[j], jobs[j].stop - 1)
  <2>3. jobs[j].stop - 1 \in Nat
    BY <1>4, <1>10
  <2>1. Keeps(mid)
    BY <1>3, <2>3, SetCount DEF Keeps
  <2>2. jobs' = [jobs EXCEPT ![j] = WithCollector(mid, "leave", parallel)]
    BY <1>10 DEF SetJob, Leave, WithCollector, WithStop
  <2> HIDE DEF mid
  <2> QED
    BY <2>1, <2>2, <1>6, <1>8
<1>11. CASE SetJob(j, Leave([jobs[j] EXCEPT !.result = <<0>>]))
  <2>1. jobs' = [jobs EXCEPT ![j] =
                   WithCollector(WithResult(jobs[j], <<0>>), "leave", parallel)]
    BY <1>11 DEF SetJob, Leave, WithCollector, WithResult
  <2>2. Keeps(WithCollector(WithResult(jobs[j], <<0>>), "leave", parallel))
    BY <1>3, <1>7, <1>9
  <2> QED
    BY <2>1, <2>2, <1>8
<1> DEFINE results == jobs[Chan(j)].powResult
           nonce == Head(results)
           rest == [jobs EXCEPT ![Chan(j)].powResult = Tail(jobs[Chan(j)].powResult)]
<1>12. CASE /\ results # <<>>
            /\ jobs' = [rest EXCEPT ![j] =
                 IF nonce # 0 THEN Leave([rest[j] EXCEPT !.result = <<nonce>>])
                 ELSE IF rest[j].finished + 1 = parallel
                 THEN Leave([rest[j] EXCEPT !.result = <<0>>])
                 ELSE [rest[j] EXCEPT !.finished = rest[j].finished + 1]]
  <2> DEFINE mid == WithPowResult(jobs[j], Tail(results))
  <2>9. results = jobs[j].powResult
    BY <1>2
  <2>1. /\ Tail(results) \in Seq(V) /\ nonce \in V
        /\ \A i \in DOMAIN Tail(results) :
             i + 1 \in DOMAIN results /\ Tail(results)[i] = results[i + 1]
        /\ 1 \in DOMAIN results /\ nonce = results[1]
    BY <1>4, <1>12, <2>9
  <2>2. Fits(jobs[j]) => /\ \A i \in DOMAIN Tail(results) : Tail(results)[i] \in {0, block.header}
                         /\ nonce \in {0, block.header}
    BY <2>1, <2>9 DEF Fits
  <2>3. Keeps(mid)
    BY <2>1, <2>2, <1>3, SetResults DEF Keeps
  <2>4. rest[j] = mid /\ rest = [jobs EXCEPT ![j] = mid]
    BY <1>2, <1>3, <2>9 DEF WithPowResult
  <2> HIDE DEF mid, rest, results
  <2>5. \A job : [rest EXCEPT ![j] = job] = [jobs EXCEPT ![j] = job]
    BY <1>2, <1>3, <2>4
  <2>6. CASE nonce # 0
    <3>1. jobs' = [jobs EXCEPT ![j] =
                     WithCollector(WithResult(mid, <<nonce>>), "leave", parallel)]
      BY <1>12, <2>4, <2>5, <2>6 DEF Leave, WithCollector, WithResult
    <3>2. Keeps(WithCollector(WithResult(mid, <<nonce>>), "leave", parallel))
      BY <1>7, <2>1, <2>2, <2>3
    <3> QED
      BY <3>1, <3>2, <1>8
  <2>7. CASE nonce = 0 /\ mid.finished + 1 = parallel
    <3>1. jobs' = [jobs EXCEPT ![j] =
                     WithCollector(WithResult(mid, <<0>>), "leave", parallel)]
      BY <1>12, <2>4, <2>5, <2>7 DEF Leave, WithCollector, WithResult
    <3>2. Keeps(WithCollector(WithResult(mid, <<0>>), "leave", parallel))
      BY <1>3, <1>7, <2>3
    <3> QED
      BY <3>1, <3>2, <1>8
  <2>8. CASE nonce = 0 /\ mid.finished + 1 # parallel
    <3>1. jobs' = [jobs EXCEPT ![j] = WithFinished(mid, mid.finished + 1)]
      BY <1>12, <2>4, <2>5, <2>8 DEF WithFinished
    <3>2. mid.finished + 1 \in Nat
      BY <2>3 DEF Keeps, JobType
    <3>3. Keeps(WithFinished(mid, mid.finished + 1))
      BY <2>3, <3>2, SetCount DEF Keeps
    <3> QED
      BY <3>1, <3>3, <1>8
  <2> QED
    BY <2>6, <2>7, <2>8
<1>13. CASE StopWorker(j)
  <2>1. CASE jobs[j].left = 0
    <3>1. jobs' = [jobs EXCEPT ![j] = WithCollector(jobs[j], "done", 0)]
      BY <1>2, <1>3, <1>13, <2>1 DEF StopWorker, SetJob, WithCollector, JobType
    <3>2. Keeps(WithCollector(jobs[j], "done", 0))
      BY <1>3, <1>5, SetCollector DEF Keeps
    <3> QED
      BY <3>1, <3>2, <1>8
  <2>2. CASE jobs[j].left # 0
    <3> DEFINE mid == WithCollector(jobs[j], jobs[j].collector, jobs[j].left - 1)
    <3>1. jobs' = [jobs EXCEPT ![j] = WithPowStop(mid, jobs[j].powStop + 1)]
      BY <1>2, <1>3, <1>13, <2>2 DEF StopWorker, SetJob, WithCollector, WithPowStop, JobType
    <3>2. jobs[j].left - 1 \in Nat /\ jobs[j].collector \in Phase /\ jobs[j].powStop + 1 \in Nat
      <4>1. jobs[j].collector \in Phase
        BY <1>3 DEF JobType
      <4> QED
        BY <4>1, <1>4, <2>2
    <3>3. Keeps(mid)
      BY <1>3, <3>2, SetCollector DEF Keeps
    <3> HIDE DEF mid
    <3>4. Keeps(WithPowStop(mid, jobs[j].powStop + 1))
      BY <3>2, <3>3, SetCount DEF Keeps
    <3> QED
      BY <3>1, <3>4, <1>8
  <2> QED
    BY <2>1, <2>2
<1> QED
  BY <1>2, <1>10, <1>11, <1>12, <1>13 DEF Collector, Collect

\* BeginRound: the new block has no evidence yet.
LEMMA BeginRoundStep ==
  ASSUME Inv, BeginRound
  PROVE  Inv'
<1>1. PICK V : Types(V)
  BY DEF Inv
<1>2. /\ block' = [round |-> block.round + 1, base |-> head, evds |-> {}, size |-> 0,
                   header |-> block.header + 1]
      /\ sched' = "gather"
      /\ UNCHANGED <<parallel, head, chainEvds, jobs, found, refused>>
  BY DEF BeginRound
<1>3. block' \in BlockType(V)
  BY <1>1, <1>2 DEF Types, BlockType
<1>4. Types(V)'
  BY <1>1, <1>2, <1>3 DEF Types, BlockType, JobType, Worker
<1>5. Awaited' /\ NewToChain'
  BY <1>1, <1>2 DEF Awaited, NewToChain, Types
<1> QED
  BY <1>2, <1>4, <1>5 DEF Inv, NonceFitsHeader, OwnBlockAccepted

\* getEvidence: an evidence enters the block when it is not on the chain.
LEMMA GetEvidenceStep ==
  ASSUME Inv, getEvidence
  PROVE  Inv'
<1>1. PICK V : Types(V)
  BY DEF Inv
<1>2. UNCHANGED <<parallel, head, chainEvds, jobs, found, refused>> /\ sched = "gather"
  BY DEF getEvidence, TakeEvidence, EndGather
<1>3. CASE EndGather
  <2>1. block' = block /\ sched' = "mine"
    BY <1>3 DEF EndGather
  <2>2. Types(V)'
    BY <1>1, <1>2, <2>1 DEF Types, BlockType, JobType, Worker
  <2>3. Awaited' /\ NewToChain'
    BY <1>2, <2>1 DEF Inv, Awaited, NewToChain
  <2> QED
    BY <1>2, <2>2, <2>3 DEF Inv, NonceFitsHeader, OwnBlockAccepted
<1>4. CASE TakeEvidence
  <2>1. PICK ev : /\ sched' = sched
                  /\ block' = IF ev \notin chainEvds
                              THEN [block EXCEPT !.evds = @ \cup {ev}, !.size = @ + 1]
                              ELSE block
    BY <1>4 DEF TakeEvidence, VerifyEvidence
  <2>3. PICK W : V \subseteq W /\ ev \in W
    <3>1. V \subseteq V \cup {ev} /\ ev \in V \cup {ev}
      OBVIOUS
    <3> QED
      BY <3>1
  <2>2. Types(W)
    BY <1>1, <2>3, Wider
  <2>4. /\ block' \in BlockType(W)
        /\ block'.base = block.base
        /\ \A e \in block'.evds : e \in block.evds \/ e \notin chainEvds
    <3>1. block \in BlockType(W)
      BY <2>2 DEF Types
    <3>2. CASE ev \in chainEvds
      BY <2>1, <3>1, <3>2
    <3>3. CASE ev \notin chainEvds
      <4> DEFINE S == block.evds \cup {ev}
                 n == block.size + 1
      <4>1. S \in SUBSET W /\ n \in Nat
        BY <2>3, <3>1 DEF BlockType
      <4>2. block' = [block EXCEPT !.evds = S, !.size = n]
        BY <2>1, <3>3
      <4>3. \A e \in S : e \in block.evds \/ e \notin chainEvds
        BY <3>3
      <4> HIDE DEF S, n
      <4>4. block' \in BlockType(W) /\ block'.base = block.base /\ block'.evds = S
        BY <3>1, <4>1, <4>2 DEF BlockType
      <4> QED
        BY <4>3, <4>4
    <3> QED
      BY <3>2, <3>3
  <2>5. Types(W)'
    BY <1>2, <2>2, <2>4 DEF Types, BlockType, JobType, Worker
  <2>6. Awaited' /\ NewToChain'
    BY <1>2, <2>1, <2>4 DEF Inv, Awaited, NewToChain
  <2> QED
    BY <1>2, <2>5, <2>6 DEF Inv, NonceFitsHeader, OwnBlockAccepted
<1> QED
  BY <1>3, <1>4 DEF getEvidence

\* mine: the new job knows no nonce, and its header is the block's.
LEMMA MineStep ==
  ASSUME Inv, mine
  PROVE  Inv'
<1> DEFINE job == [round |-> block.round, header |-> block.header + 1, stop |-> 0,
                   result |-> <<>>, powResult |-> <<>>, powStop |-> 0,
                   collector |-> "run", finished |-> 0, left |-> 0,
                   worker |-> [w \in Worker |-> "new"], nonce |-> [w \in Worker |-> 0]]
<1>1. PICK V : Types(V)
  BY DEF Inv
<1>2. /\ sched = "mine" /\ sched' = "select"
      /\ block' = [block EXCEPT !.header = @ + 1]
      /\ jobs' = Append(jobs, job)
      /\ UNCHANGED <<parallel, head, chainEvds, found, refused>>
  BY DEF mine
<1>3. /\ block' \in BlockType(V) /\ block'.round = block.round
      /\ block'.base = block.base /\ block'.evds = block.evds
      /\ block'.header = block.header + 1
  <2>1. block \in BlockType(V) /\ block' = [block EXCEPT !.header = @ + 1]
    BY <1>1, <1>2 DEF Types
  <2> QED
    BY <2>1 DEF BlockType
<1>4. job \in JobType(V)
  <2>1. "run" \in Phase /\ "new" \in Phase /\ 0 \in V /\ <<>> \in Seq(V)
    BY <1>1 DEF Phase, Types
  <2>2. [w \in Worker |-> "new"] \in [Worker -> Phase] /\ [w \in Worker |-> 0] \in [Worker -> V]
    BY <2>1
  <2>3. block.round \in Nat /\ block.header + 1 \in Nat
    BY <1>1 DEF Types, BlockType
  <2> QED
    BY <2>1, <2>2, <2>3 DEF JobType
<1>5. job.round = block.round /\ job.result = <<>> /\ job.powResult = <<>>
        /\ \A w \in Worker : job.nonce[w] = 0
  OBVIOUS
<1> HIDE DEF job
<1>6. /\ jobs' \in Seq(JobType(V)) /\ Cur' = Cur + 1 /\ Cur \in Nat
      /\ jobs'[Cur'] = job
  <2> DEFINE J == JobType(V)
  <2>1. jobs \in Seq(J) /\ job \in J
    BY <1>1, <1>4 DEF Types
  <2> HIDE DEF J
  <2>2. jobs' \in Seq(J) /\ Len(jobs') = Len(jobs) + 1 /\ Len(jobs) \in Nat
        /\ jobs'[Len(jobs) + 1] = job
    BY <1>2, <2>1
  <2> QED
    BY <2>2 DEF J, Cur
<1>7. Types(V)'
  <2>1. JobType(V)' = JobType(V)
    BY <1>2 DEF JobType, Worker
  <2> QED
    BY <1>1, <1>2, <1>3, <1>6, <2>1 DEF Types, BlockType
<1>8. Fits(jobs[Cur])'
  BY <1>2, <1>3, <1>5, <1>6 DEF Fits, Worker
<1>9. Awaited'
  BY <1>6, <1>8 DEF Awaited
<1>10. NewToChain'
  BY <1>2, <1>3 DEF Inv, NewToChain
<1> QED
  BY <1>2, <1>7, <1>9, <1>10 DEF Inv, NonceFitsHeader, OwnBlockAccepted

\* Outside of the select the scheduler may do with the jobs what it likes.
LEMMA EndsSelect ==
  ASSUME Inv, NEW V, Types(V)', sched' \notin {"gather", "mine", "select"},
         UNCHANGED <<head, chainEvds, block, found, refused>>
  PROVE  Inv'
<1>1. Awaited' /\ NewToChain'
  BY DEF Inv, Awaited, NewToChain
<1> QED
  BY <1>1 DEF Inv, NonceFitsHeader, OwnBlockAccepted

\* job.terminate()
LEMMA TerminateStep ==
  ASSUME Inv, terminate
  PROVE  Inv'
<1> DEFINE job == WithStop(jobs[Cur], jobs[Cur].stop + 1)
<1>1. PICK V : Types(V)
  BY DEF Inv
<1>2. /\ sched' \in {"stopped", "begin"}
      /\ jobs' = [jobs EXCEPT ![Cur] = job]
      /\ UNCHANGED <<parallel, head, chainEvds, block, found, refused>>
  BY DEF terminate, SetJob, WithStop
<1>3. jobs' \in Seq(JobType(V))
  <2> DEFINE J == JobType(V)
  <2>1. jobs \in Seq(J)
    BY <1>1 DEF Types
  <2>2. CASE Cur \in DOMAIN jobs
    <3>1. jobs[Cur] \in JobType(V)
      BY <2>1, <2>2
    <3>2. jobs[Cur].stop + 1 \in Nat
      BY <3>1 DEF JobType
    <3>3. job \in J
      BY <3>1, <3>2, SetCount
    <3> HIDE DEF job, J
    <3> QED
      BY <1>2, <2>1, <2>2, <3>3 DEF J
  <2>3. CASE Cur \notin DOMAIN jobs
    <3> HIDE DEF job
    <3>1. jobs' = jobs
      BY <1>2, <2>1, <2>3
    <3> QED
      BY <2>1, <3>1
  <2> QED
    BY <2>2, <2>3
<1>4. Types(V)'
  <2>1. JobType(V)' = JobType(V)
    BY <1>2 DEF JobType, Worker
  <2> QED
    BY <1>1, <1>2, <1>3, <2>1 DEF Types, BlockType
<1> QED
  BY <1>2, <1>4, EndsSelect

\* A result: what the job delivers fits, and the block, if it builds on the
\* head, is new to the chain.
LEMMA ResultStep ==
  ASSUME Inv, Result
  PROVE  Inv'
<1> DEFINE nonce == Head(jobs[Cur].result)
           job == WithResult(jobs[Cur], Tail(jobs[Cur].result))
<1>1. PICK V : Types(V)
  BY DEF Inv
<1>2. /\ sched = "select" /\ jobs[Cur].result # <<>>
      /\ jobs' = [jobs EXCEPT ![Cur] = job]
      /\ UNCHANGED parallel
  BY DEF Result, SetJob, WithResult
<1>3. Cur \in DOMAIN jobs /\ jobs \in Seq(JobType(V)) /\ Fits(jobs[Cur])
  BY <1>1, <1>2 DEF Types, Inv, Awaited, Cur
<1>4. jobs[Cur] \in JobType(V)
  BY <1>3
<1>5. jobs[Cur].result \in Seq(V)
  BY <1>4 DEF JobType
<1>6. nonce \in {0, block.header} /\ Tail(jobs[Cur].result) \in Seq(V)
  <2>1. 1 \in DOMAIN jobs[Cur].result /\ nonce = jobs[Cur].result[1]
    BY <1>2, <1>5
  <2>2. Tail(jobs[Cur].result) \in Seq(V)
    BY <1>2, <1>5
  <2> QED
    BY <1>3, <2>1, <2>2 DEF Fits
<1>7. job \in JobType(V)
  BY <1>4, <1>6, SetResults
<1> HIDE DEF job
<1>8. jobs' \in Seq(JobType(V))
  <2> DEFINE J == JobType(V)
  <2> HIDE DEF J
  <2>1. jobs \in Seq(J) /\ job \in J
    BY <1>3, <1>7 DEF J
  <2> QED
    BY <1>2, <1>3, <2>1 DEF J
<1>9. JobType(V)' = JobType(V)
  BY <1>2 DEF JobType, Worker
<1>10. CASE nonce # 0
  <2>1. /\ found' = <<nonce, block.header>>
        /\ refused' = (/\ block.base = head
                       /\ \E ev \in block.evds : ~VerifyEvidence(ev))
        /\ AddOwn(block) /\ sched' = "begin" /\ UNCHANGED block
    BY <1>10 DEF Result
  <2>2. NonceFitsHeader'
    BY <1>6, <1>10, <2>1 DEF NonceFitsHeader
  <2>3. OwnBlockAccepted'
    BY <1>2, <2>1 DEF Inv, NewToChain, OwnBlockAccepted, VerifyEvidence
  <2>4. head' \in Nat /\ head <= head'
    BY <1>1, <2>1 DEF AddOwn, Types
  <2>5. Types(V)'
    BY <1>1, <1>2, <1>8, <1>9, <2>1, <2>4 DEF Types, BlockType
  <2>6. block.base \in Nat /\ head \in Nat /\ block.base <= head
    BY <1>1 DEF Types, BlockType, Inv, NewToChain
  <2>7. Awaited' /\ NewToChain'
    BY <2>1, <2>4, <2>6 DEF Awaited, NewToChain
  <2> QED
    BY <2>2, <2>3, <2>5, <2>7 DEF Inv
<1>11. CASE nonce = 0
  <2>1. /\ block' = [block EXCEPT !.header = @ + 1]
        /\ sched' = "mine"
        /\ UNCHANGED <<head, chainEvds, found, refused>>
    BY <1>11 DEF Result
  <2>2. /\ block' \in BlockType(V)
        /\ block'.base = block.base /\ block'.evds = block.evds
    BY <1>1, <2>1 DEF Types, BlockType
  <2>3. Types(V)'
    BY <1>1, <1>2, <1>8, <1>9, <2>1, <2>2 DEF Types, BlockType
  <2>4. Awaited' /\ NewToChain'
    BY <1>2, <2>1, <2>2 DEF Inv, Awaited, NewToChain
  <2> QED
    BY <2>1, <2>3, <2>4 DEF Inv, NonceFitsHeader, OwnBlockAccepted
<1> QED
  BY <1>10, <1>11

\* A change of the longest branch by peers moves the head past every base.
LEMMA PassiveChangeStep ==
  ASSUME Inv, PassiveChange
  PROVE  Inv'
<1>1. PICK V : Types(V)
  BY DEF Inv
<1>2. head' = head + 1 /\ UNCHANGED <<parallel, sched, block, jobs, found, refused>>
  BY DEF PassiveChange
<1>3. head \in Nat /\ block.base \in Nat /\ block.base <= head
  BY <1>1 DEF Types, BlockType, Inv, NewToChain
<1>4. Types(V)'
  BY <1>1, <1>2 DEF Types, BlockType, JobType, Worker
<1>5. NewToChain'
  BY <1>2, <1>3 DEF NewToChain
<1>6. Awaited'
  BY <1>2 DEF Inv, Awaited, Cur, Fits, Worker
<1> QED
  BY <1>2, <1>4, <1>5, <1>6 DEF Inv, NonceFitsHeader, OwnBlockAccepted

\* What leaves the scheduler, its block, the jobs and the chain alone.
LEMMA Elsewhere ==
  ASSUME Inv, UNCHANGED mineVars
  PROVE  Inv'
<1>1. PICK V : Types(V)
  BY DEF Inv
<1>2. UNCHANGED <<parallel, head, chainEvds, sched, block, jobs, found, refused>>
  BY DEF mineVars
<1>3. Types(V)'
  BY <1>1, <1>2 DEF Types, BlockType, JobType, Worker
<1>4. Awaited' /\ NewToChain'
  BY <1>2 DEF Inv, Awaited, NewToChain, Cur, Fits, Worker
<1> QED
  BY <1>2, <1>3, <1>4 DEF Inv, NonceFitsHeader, OwnBlockAccepted

-----------------------------------------------------------------------------
(* The theorems *)

\* At first there is neither a block nor a job.
LEMMA InitInv == MiningInit => Inv
<1> SUFFICES ASSUME MiningInit PROVE Inv
  OBVIOUS
<1>1. Types(Nat)
  <2>1. block \in BlockType(Nat) /\ jobs \in Seq(JobType(Nat))
    BY DEF MiningInit, BlockType
  <2> QED
    BY <2>1, MiningAssumption DEF MiningInit, Types
<1>2. Awaited /\ NewToChain /\ NonceFitsHeader /\ OwnBlockAccepted
  BY DEF MiningInit, Awaited, NewToChain, NonceFitsHeader, OwnBlockAccepted
<1> QED
  BY <1>1, <1>2 DEF Inv

\* Every step of the scheduler, the jobs, the pool and the peers keeps it.
LEMMA NextInv == Inv /\ [MiningNext]_allVars => Inv'
<1> SUFFICES ASSUME Inv, [MiningNext]_allVars PROVE Inv'
  OBVIOUS
<1>1. CASE PassiveChange
  BY <1>1, PassiveChangeStep
<1>2. CASE PoolStep
  BY <1>2, Elsewhere DEF PoolStep
<1>3. CASE Schedule
  <2>1. CASE Interrupted
    <3>1. PICK V : Types(V)
      BY DEF Inv
    <3>2. /\ sched' = "terminate"
          /\ UNCHANGED <<parallel, head, chainEvds, block, jobs, found, refused>>
      BY <2>1 DEF Interrupted
    <3>3. Types(V)'
      BY <3>1, <3>2 DEF Types, BlockType, JobType, Worker
    <3> QED
      BY <3>2, <3>3, EndsSelect
  <2> QED
    BY <1>3, <2>1, BeginRoundStep, GetEvidenceStep, MineStep, TerminateStep, ResultStep
    DEF Schedule
<1>4. CASE Stopped
  <2>1. PICK V : Types(V)
    BY DEF Inv
  <2>2. /\ sched' = "exit"
        /\ UNCHANGED <<parallel, head, chainEvds, block, jobs, found, refused>>
    BY <1>4 DEF Stopped
  <2>3. Types(V)'
    BY <2>1, <2>2 DEF Types, BlockType, JobType, Worker
  <2> QED
    BY <2>2, <2>3, EndsSelect
<1>5. CASE JobStep
  BY <1>5, CollectorStep, PowStep DEF JobStep
<1>6. CASE UNCHANGED allVars
  BY <1>6, Elsewhere DEF allVars
<1> QED
  BY <1>1, <1>2, <1>3, <1>4, <1>5, <1>6 DEF MiningNext

\* So it always holds.
LEMMA Invariance == MiningSpec => []Inv
  BY InitInv, NextInv, PTL DEF MiningSpec

\* The nonce of every block that is broadcast was found for the header that is
\* broadcast, for any number of jobs that outlive their rounds.
THEOREM NonceFits == MiningSpec => []NonceFitsHeader
<1>1. Inv => NonceFitsHeader
  BY DEF Inv
<1> QED
  BY <1>1, Invariance, PTL

\* A block mined on the head is never refused for its evidence, although the
\* scheduler reads the head and checks the evidence at different times.
THEOREM OwnAccepted == MiningSpec => []OwnBlockAccepted
<1>1. Inv => OwnBlockAccepted
  BY DEF Inv
<1> QED
  BY <1>1, Invariance, PTL

-----------------------------------------------------------------------------
(***************************************************************************)
(* The evidence pool, for every set of evidence, all weights and sizes.    *)
(*                                                                         *)
(* The binary search is a loop over a range begin .. end. Its invariant is *)
(* Around: what lies before the range is lighter than w, what lies behind  *)
(* it is not. Every turn keeps it and shortens the range, so that after as *)
(* many turns as the list is long one place is left (PlaceFound).          *)
(***************************************************************************)

Sorted(list) ==
  \A i, j \in 1 .. Len(list) : i <= j => Weight[list[i]] <= Weight[list[j]]

Ranges(n) == {r \in (0 .. n) \X (0 .. n) : r[1] <= r[2]}

\* The elements before r are lighter than w, the ones behind it are not.
Around(list, w, r) ==
  /\ \A i \in 1 .. r[1] : Weight[list[i]] < w
  /\ \A i \in r[2] + 1 .. Len(list) : Weight[list[i]] >= w

\* The range r has one place, or each of k turns has shortened it.
Shortened(r, k, n) == r[1] = r[2] \/ r[2] - r[1] + k <= n

\* A turn of the loop keeps the range around the place and shortens it.
LEMMA NarrowStep ==
  ASSUME NEW list \in Seq(Evidence), Sorted(list), NEW w \in Nat,
         NEW r \in Ranges(Len(list)), NEW s, s = Narrow(list, w, r)
  PROVE  /\ s \in Ranges(Len(list))
         /\ Around(list, w, r) => Around(list, w, s)
         /\ \A k \in Nat : Shortened(r, k, Len(list)) => Shortened(s, k + 1, Len(list))
<1>1. PICK n \in Nat : n = Len(list)
  BY LenProperties, Zenon
<1>2. PICK b \in 0 .. n, e \in 0 .. n : r = <<b, e>> /\ b <= e
  BY <1>1 DEF Ranges
<1>3. CASE b = e
  <2>1. s = r
    BY <1>2, <1>3 DEF Narrow
  <2> QED
    BY <1>2, <1>3, <2>1 DEF Shortened
<1>4. CASE b # e
  <2>1. PICK m \in Nat : m = (b + e) \div 2
    OBVIOUS
  <2>2. b <= m /\ m < e /\ m + 1 \in 1 .. n
    BY <1>2, <1>4, <2>1
  <2>3. \A i \in 1 .. n : list[i] \in Evidence /\ Weight[list[i]] \in Nat
    BY <1>1, PoolAssumption
  <2>4. CASE Weight[list[m + 1]] >= w
    <3>1. s = <<b, m>>
      BY <1>2, <1>4, <2>1, <2>4 DEF Narrow
    <3>2. s \in Ranges(n) /\ m - b < e - b
      BY <1>2, <2>1, <2>2, <3>1 DEF Ranges
    <3>3. ASSUME NEW i \in m + 1 .. n PROVE Weight[list[i]] >= w
      <4>1. i \in 1 .. n /\ m + 1 <= i
        BY <2>1
      <4>2. Weight[list[m + 1]] <= Weight[list[i]]
        BY <1>1, <2>2, <4>1 DEF Sorted
      <4> QED
        BY <2>2, <2>3, <2>4, <4>1, <4>2
    <3>4. Around(list, w, r) => Around(list, w, s)
      BY <1>1, <1>2, <3>1, <3>3 DEF Around
    <3>5. \A k \in Nat : Shortened(r, k, n) => Shortened(s, k + 1, n)
      BY <1>2, <1>4, <2>1, <2>2, <3>1 DEF Shortened
    <3> QED
      BY <1>1, <3>2, <3>4, <3>5
  <2>5. CASE ~(Weight[list[m + 1]] >= w)
    <3>1. s = <<m + 1, e>>
      BY <1>2, <1>4, <2>1, <2>5 DEF Narrow
    <3>2. s \in Ranges(n) /\ e - (m + 1) < e - b
      BY <1>2, <2>1, <2>2, <3>1 DEF Ranges
    <3>3. ASSUME NEW i \in 1 .. m + 1 PROVE Weight[list[i]] < w
      <4>1. i \in 1 .. n /\ i <= m + 1
        BY <2>1, <2>2
      <4>2. Weight[list[i]] <= Weight[list[m + 1]]
        BY <1>1, <2>2, <4>1 DEF Sorted
      <4> QED
        BY <2>2, <2>3, <2>5, <4>1, <4>2
    <3>4. Around(list, w, r) => Around(list, w, s)
      BY <1>1, <1>2, <3>1, <3>3 DEF Around
    <3>5. \A k \in Nat : Shortened(r, k, n) => Shortened(s, k + 1, n)
      BY <1>2, <1>4, <2>1, <2>2, <3>1 DEF Shortened
    <3> QED
      BY <1>1, <3>2, <3>4, <3>5
  <2> QED
    BY <2>4, <2>5
<1> QED
  BY <1>3, <1>4

\* The loop ends between the lighter elements and the others.
LEMMA PlaceFound ==
  ASSUME NEW list \in Seq(Evidence), Sorted(list), NEW w \in Nat
  PROVE  /\ Place(list, w) \in 0 .. Len(list)
         /\ \A i \in 1 .. Place(list, w) : Weight[list[i]] < w
         /\ \A i \in Place(list, w) + 1 .. Len(list) : Weight[list[i]] >= w
<1>1. PICK n \in Nat : n = Len(list)
  BY LenProperties, Zenon
<1> DEFINE S == Ranges(n)
           F == [r \in S |-> Narrow(list, w, r)]
           IsRange(f) == f = [k \in Nat |-> IF k = 0 THEN <<0, Len(list)>>
                                            ELSE Narrow(list, w, f[k - 1])]
           range == CHOOSE f : IsRange(f)
           T == {k \in Nat : /\ range[k] \in S /\ Around(list, w, range[k])
                             /\ Shortened(range[k], k, n)}
<1>2. \A r \in S : LET s == Narrow(list, w, r)
                   IN  /\ s \in S /\ (Around(list, w, r) => Around(list, w, s))
                       /\ \A k \in Nat : Shortened(r, k, n) => Shortened(s, k + 1, n)
  BY <1>1, NarrowStep
<1>3. <<0, n>> \in S
  BY DEF Ranges
<1>4. F \in [S -> S]
  BY <1>2
<1>5. IsRange(range)
  <2>1. PICK f \in [Nat -> S] : f[0] = <<0, n>> /\ \A k \in Nat : f[k + 1] = F[f[k]]
    <3>1. PICK a \in S : a = <<0, n>>
      BY <1>3, Zenon
    <3> HIDE DEF S, F
    <3>2. \E f : IsIterate(f, S, F, a)
      BY <1>4, Iterates
    <3> QED
      BY <3>1, <3>2 DEF IsIterate
  <2>2. ASSUME NEW k \in Nat
        PROVE  f[k] = IF k = 0 THEN <<0, Len(list)>> ELSE Narrow(list, w, f[k - 1])
    <3>1. CASE k = 0
      BY <1>1, <2>1, <3>1
    <3>2. CASE k # 0
      <4>1. PICK j \in Nat : j = k - 1
        BY <3>2
      <4>2. k = j + 1
        BY <4>1
      <4>3. f[k] = F[f[j]] /\ f[j] \in S
        <5> HIDE DEF S, F
        <5> QED
          BY <2>1, <4>2
      <4>4. F[f[j]] = Narrow(list, w, f[j])
        <5> HIDE DEF S
        <5> QED
          BY <4>3
      <4> QED
        BY <3>2, <4>1, <4>3, <4>4
    <3> QED
      BY <3>1, <3>2
  <2>3. IsRange(f)
    BY <2>2
  <2> HIDE DEF IsRange
  <2> QED
    BY <2>3
<1>6. range[0] = <<0, n>> /\ \A k \in Nat : range[k + 1] = Narrow(list, w, range[k])
  <2> HIDE DEF range
  <2>1. \A k \in Nat : range[k] = IF k = 0 THEN <<0, Len(list)>>
                                  ELSE Narrow(list, w, range[k - 1])
    BY <1>5
  <2>2. ASSUME NEW k \in Nat PROVE range[k + 1] = Narrow(list, w, range[k])
    <3>1. PICK j \in Nat : j = k + 1
      OBVIOUS
    <3>2. j # 0 /\ j - 1 = k
      BY <3>1
    <3>3. range[j] = Narrow(list, w, range[j - 1])
      BY <2>1, <3>2
    <3> QED
      BY <3>1, <3>2, <3>3
  <2> QED
    BY <1>1, <2>1, <2>2
<1>7. Place(list, w) = range[n][1]
  BY <1>1 DEF Place
<1> HIDE DEF range
<1>8. 0 \in T
  <2>1. Around(list, w, <<0, n>>)
    BY <1>1 DEF Around
  <2>2. Shortened(<<0, n>>, 0, n)
    BY DEF Shortened
  <2> QED
    BY <1>3, <1>6, <2>1, <2>2
<1>9. ASSUME NEW k \in Nat, k \in T PROVE k + 1 \in T
  <2> HIDE DEF S
  <2>1. range[k] \in S /\ Around(list, w, range[k]) /\ Shortened(range[k], k, n)
    BY <1>9
  <2>2. PICK s : s = Narrow(list, w, range[k])
    OBVIOUS
  <2>3. s \in S /\ Around(list, w, s) /\ Shortened(s, k + 1, n)
    BY <1>2, <2>1, <2>2
  <2>4. range[k + 1] = s
    BY <1>6, <2>2
  <2> QED
    BY <2>3, <2>4
<1>10. n \in T
  <2> HIDE DEF T
  <2> QED
    BY <1>8, <1>9, SetInduction
<1>11. PICK b \in 0 .. n, e \in 0 .. n : range[n] = <<b, e>> /\ b <= e
  BY <1>10 DEF Ranges
<1>12. b = e /\ Around(list, w, range[n])
  BY <1>10, <1>11 DEF Shortened
<1> QED
  BY <1>1, <1>7, <1>11, <1>12 DEF Around

\* The index of the search is a place where w fits.
LEMMA IndexFits ==
  ASSUME NEW list \in Seq(Evidence), Sorted(list), NEW w \in Nat,
         NEW i, i = binarySearchInsertIndex(list, w), NEW n \in Nat, n = Len(list)
  PROVE  \/ i = -1 /\ \A k \in 1 .. n : Weight[list[k]] <= w
         \/ /\ i \in 0 .. n
            /\ \A k \in 1 .. i : Weight[list[k]] <= w
            /\ \A k \in i + 1 .. n : w <= Weight[list[k]]
<1> DEFINE at == Place(list, w)
<1>1. /\ at \in 0 .. n
      /\ \A k \in 1 .. at : Weight[list[k]] < w
      /\ \A k \in at + 1 .. n : Weight[list[k]] >= w
  BY PlaceFound
<1>2. i = IF at = 0 THEN 0 ELSE IF at = n THEN -1
          ELSE IF Weight[list[at+1]] > w THEN at ELSE at + 1
  BY DEF binarySearchInsertIndex
<1>3. \A k \in 1 .. n : Weight[list[k]] \in Nat
  BY PoolAssumption
<1> HIDE DEF at
<1>4. CASE at = 0 \/ at = n
  BY <1>1, <1>2, <1>3, <1>4
<1>5. CASE at # 0 /\ at # n /\ Weight[list[at+1]] > w
  BY <1>1, <1>2, <1>3, <1>5
<1>6. CASE at # 0 /\ at # n /\ ~(Weight[list[at+1]] > w)
  <2>1. i = at + 1 /\ at + 1 \in 1 .. n
    BY <1>1, <1>2, <1>6
  <2>2. Weight[list[at+1]] <= w
    BY <1>3, <1>6, <2>1
  <2>3. \A k \in 1 .. i : Weight[list[k]] <= w
    <3> TAKE k \in 1 .. i
    <3>1. k \in 1 .. at \/ k = at + 1
      BY <1>1, <2>1
    <3>2. k \in 1 .. n
      BY <1>1, <2>1
    <3> QED
      BY <1>1, <1>3, <2>2, <3>1, <3>2
  <2>4. \A k \in i + 1 .. n : w <= Weight[list[k]]
    BY <1>1, <1>3, <2>1
  <2> QED
    BY <2>1, <2>3, <2>4
<1> QED
  BY <1>4, <1>5, <1>6

\* The elements of two lists put together.
IsJoined(u, S, s, t) ==
  /\ u \in Seq(S) /\ Len(s) \in Nat /\ Len(t) \in Nat /\ Len(u) = Len(s) + Len(t)
  /\ \A k \in 1 .. Len(s) : u[k] = s[k]
  /\ \A k \in 1 .. Len(t) : u[Len(s) + k] = t[k]

\* Joining two lists yields such a list.
LEMMA Joined ==
  ASSUME NEW S, NEW s \in Seq(S), NEW t \in Seq(S)
  PROVE  IsJoined(s \o t, S, s, t)
BY DEF IsJoined

\* An element between two lists.
IsBetween(l, S, a, b, c) ==
  /\ l \in Seq(S) /\ Len(l) = Len(a) + 1 + Len(c)
  /\ \A k \in 1 .. Len(a) : l[k] = a[k]
  /\ l[Len(a) + 1] = b[1]
  /\ \A k \in 1 .. Len(c) : l[Len(a) + 1 + k] = c[k]

\* Joining three lists, the middle one of length one, yields such a list.
LEMMA Between ==
  ASSUME NEW S, NEW a \in Seq(S), NEW b \in Seq(S), NEW c \in Seq(S), Len(b) = 1
  PROVE  IsBetween((a \o b) \o c, S, a, b, c)
<1>1. PICK ab : ab = a \o b
  OBVIOUS
<1>2. PICK l : l = ab \o c
  OBVIOUS
<1>3. IsJoined(ab, S, a, b)
  BY <1>1, Joined
<1>4. IsJoined(l, S, ab, c)
  <2>1. ab \in Seq(S)
    BY <1>3 DEF IsJoined
  <2> QED
    BY <1>2, <2>1, Joined
<1>5. Len(ab) = Len(a) + 1 /\ ab[Len(a) + 1] = b[1] /\ Len(a) \in Nat
  BY <1>3 DEF IsJoined
<1>6. PICK i \in Nat, p \in Nat : i = Len(a) /\ p = i + 1
  BY <1>5
<1>7. /\ p \in 1 .. p /\ \A k \in 1 .. i : k \in 1 .. p
  BY <1>6
<1>8. l \in Seq(S) /\ Len(l) = Len(a) + 1 + Len(c)
  BY <1>4, <1>5 DEF IsJoined
<1>9. \A k \in 1 .. Len(a) : l[k] = a[k]
  BY <1>3, <1>4, <1>5, <1>6, <1>7 DEF IsJoined
<1>10. l[Len(a) + 1] = b[1]
  BY <1>4, <1>5, <1>6, <1>7 DEF IsJoined
<1>11. \A k \in 1 .. Len(c) : l[Len(a) + 1 + k] = c[k]
  BY <1>4, <1>5 DEF IsJoined
<1> QED
  BY <1>1, <1>2, <1>8, <1>9, <1>10, <1>11 DEF IsBetween

\* l is the list with ev behind its first i elements.
IsLonger(l, list, ev, n, i) ==
  /\ l \in Seq(Evidence) /\ Len(l) = n + 1
  /\ \A k \in 1 .. i : l[k] = list[k]
  /\ l[i + 1] = ev
  /\ \A k \in i + 1 .. n : l[k + 1] = list[k]

\* What the insertion in the middle makes, element by element.
LEMMA Longer ==
  ASSUME NEW list \in Seq(Evidence), NEW ev \in Evidence,
         NEW n \in Nat, n = Len(list), NEW i \in 0 .. n
  PROVE  IsLonger(SubSeq(list, 1, i) \o <<ev>> \o SubSeq(list, i + 1, n), list, ev, n, i)
<1> DEFINE a == SubSeq(list, 1, i)
           b == <<ev>>
           c == SubSeq(list, i + 1, n)
<1>0. PICK l : l = SubSeq(list, 1, i) \o <<ev>> \o SubSeq(list, i + 1, n)
  OBVIOUS
<1>1. a \in Seq(Evidence) /\ Len(a) = i /\ \A k \in 1 .. i : a[k] = list[k]
  OBVIOUS
<1>2. /\ c \in Seq(Evidence) /\ Len(c) = n - i
      /\ \A k \in 1 .. n - i : c[k] = list[i + k]
  OBVIOUS
<1>3. b \in Seq(Evidence) /\ Len(b) = 1 /\ b[1] = ev
  OBVIOUS
<1>4. l = (a \o b) \o c
  BY <1>0
<1> HIDE DEF a, b, c
<1>5. IsBetween(l, Evidence, a, b, c)
  BY <1>1, <1>2, <1>3, <1>4, Between
<1>6. l \in Seq(Evidence) /\ Len(l) = n + 1
  <2>1. l \in Seq(Evidence) /\ Len(l) = i + 1 + (n - i)
    BY <1>1, <1>2, <1>5, Zenon DEF IsBetween
  <2>2. i + 1 + (n - i) = n + 1
    OBVIOUS
  <2> QED
    BY <2>1, <2>2
<1>7. (\A k \in 1 .. i : l[k] = list[k]) /\ l[i + 1] = ev
  BY <1>1, <1>3, <1>5 DEF IsBetween
<1>8. ASSUME NEW k \in i + 1 .. n PROVE l[k + 1] = list[k]
  <2>0. k - i \in Nat
    OBVIOUS
  <2>1. PICK j \in Nat : j = k - i
    BY <2>0, Zenon
  <2>2. i + 1 + j = k + 1 /\ i + j = k /\ j \in 1 .. n - i
    BY <2>1
  <2>3. l[i + 1 + j] = c[j] /\ c[j] = list[i + j]
    BY <1>1, <1>2, <1>5, <2>2 DEF IsBetween
  <2> QED
    BY <2>2, <2>3
<1> QED
  BY <1>0, <1>6, <1>7, <1>8 DEF IsLonger

\* A list with w in its place is sorted.
LEMMA PutSorted ==
  ASSUME NEW list \in Seq(Evidence), Sorted(list), NEW ev \in Evidence,
         NEW n \in Nat, n = Len(list), NEW i \in 0 .. n,
         \A k \in 1 .. i : Weight[list[k]] <= Weight[ev],
         \A k \in i + 1 .. n : Weight[ev] <= Weight[list[k]],
         NEW l \in Seq(Evidence), Len(l) = n + 1,
         \A k \in 1 .. i : l[k] = list[k], l[i + 1] = ev,
         \A k \in i + 1 .. n : l[k + 1] = list[k]
  PROVE  Sorted(l)
<1> SUFFICES ASSUME NEW j \in 1 .. n + 1, NEW k \in 1 .. n + 1, j < k
             PROVE  Weight[l[j]] <= Weight[l[k]]
  BY PoolAssumption DEF Sorted
<1>1. \A x \in 1 .. n : list[x] \in Evidence /\ Weight[list[x]] \in Nat
  BY PoolAssumption
<1>2. Weight[ev] \in Nat
  BY PoolAssumption
<1>3. ASSUME NEW x \in 1 .. n + 1
      PROVE  \/ x \in 1 .. i /\ l[x] = list[x]
             \/ x = i + 1 /\ l[x] = ev
             \/ x - 1 \in i + 1 .. n /\ l[x] = list[x - 1]
  <2>1. CASE x \in 1 .. i
    BY <2>1
  <2>2. CASE x = i + 1
    BY <2>2
  <2>3. CASE x > i + 1
    <3>0. x - 1 \in Nat
      OBVIOUS
    <3>1. PICK y \in Nat : y = x - 1
      BY <3>0, Zenon
    <3>2. y \in i + 1 .. n /\ y + 1 = x
      BY <2>3, <3>1
    <3>3. l[y + 1] = list[y]
      BY <3>2
    <3> QED
      BY <3>1, <3>2, <3>3
  <2> QED
    BY <2>1, <2>2, <2>3
<1>4. PICK x \in {j, j - 1}, y \in {k, k - 1} :
        /\ \/ x \in 1 .. i /\ x = j /\ l[j] = list[x]
           \/ j = i + 1 /\ l[j] = ev
           \/ x \in i + 1 .. n /\ x = j - 1 /\ l[j] = list[x]
        /\ \/ y \in 1 .. i /\ y = k /\ l[k] = list[y]
           \/ k = i + 1 /\ l[k] = ev
           \/ y \in i + 1 .. n /\ y = k - 1 /\ l[k] = list[y]
  BY <1>3
<1>5. CASE j = i + 1
  <2>1. k # i + 1 /\ k \notin 1 .. i
    BY <1>5
  <2> QED
    BY <1>4, <1>5, <2>1
<1>6. CASE k = i + 1
  <2>1. j \in 1 .. i
    BY <1>6
  <2> QED
    BY <1>6, <1>3, <2>1
<1>7. CASE j # i + 1 /\ k # i + 1
  <2>1. x \in 1 .. n /\ y \in 1 .. n /\ x <= y /\ l[j] = list[x] /\ l[k] = list[y]
    BY <1>4, <1>7
  <2> QED
    BY <2>1 DEF Sorted
<1> QED
  BY <1>5, <1>6, <1>7

\* The first elements of a sorted list are sorted.
LEMMA CutSorted ==
  ASSUME NEW list \in Seq(Evidence), Sorted(list), NEW m \in 0 .. Len(list),
         NEW l, l = SubSeq(list, 1, m)
  PROVE  l \in Seq(Evidence) /\ Sorted(l)
<1>1. PICK n \in Nat : n = Len(list)
  BY LenProperties, Zenon
<1>2. l \in Seq(Evidence) /\ Len(l) = m /\ \A k \in 1 .. m : l[k] = list[k]
  BY <1>1
<1>3. \A k \in 1 .. m : k \in 1 .. n
  BY <1>1
<1> QED
  BY <1>1, <1>2, <1>3 DEF Sorted

\* The insertion keeps the order, also where it cuts the list.
LEMMA InsertSorted ==
  ASSUME NEW list \in Seq(Evidence), Sorted(list), NEW ev \in Evidence
  PROVE  insert(list, ev) \in Seq(Evidence) /\ Sorted(insert(list, ev))
<1>1. PICK n \in Nat : n = Len(list)
  BY LenProperties, Zenon
<1>2. PICK w \in Nat : w = Weight[ev]
  BY PoolAssumption
<1>3. PICK i : i = binarySearchInsertIndex(list, w)
  OBVIOUS
<1>4. \/ i = -1 /\ \A k \in 1 .. n : Weight[list[k]] <= w
      \/ /\ i \in 0 .. n
         /\ \A k \in 1 .. i : Weight[list[k]] <= w
         /\ \A k \in i + 1 .. n : w <= Weight[list[k]]
  BY <1>1, <1>3, IndexFits
<1>5. CASE i = -1 /\ \A k \in 1 .. n : Weight[list[k]] <= w
  <2>1. insert(list, ev) = Append(list, ev)
    BY <1>2, <1>3, <1>5 DEF insert
  <2>2. PICK l : l = Append(list, ev)
    OBVIOUS
  <2>3. /\ l \in Seq(Evidence) /\ Len(l) = n + 1 /\ l[n + 1] = ev
        /\ \A k \in 1 .. n : l[k] = list[k]
    BY <1>1, <2>2, AppendProperties
  <2>4. /\ n \in 0 .. n
        /\ \A k \in n + 1 .. n : Weight[ev] <= Weight[list[k]]
        /\ \A k \in n + 1 .. n : l[k + 1] = list[k]
    OBVIOUS
  <2>5. Sorted(l)
    <3>1. \A k \in 1 .. n : Weight[list[k]] <= Weight[ev]
      BY <1>2, <1>5
    <3> QED
      BY <1>1, <2>3, <2>4, <3>1, PutSorted, Zenon
  <2> QED
    BY <2>1, <2>2, <2>3, <2>5
<1>6. CASE /\ i \in 0 .. n
           /\ \A k \in 1 .. i : Weight[list[k]] <= w
           /\ \A k \in i + 1 .. n : w <= Weight[list[k]]
  <2>1. PICK p \in 0 .. n : p = i
    BY <1>6, Zenon
  <2>2. PICK l : l = SubSeq(list, 1, i) \o <<ev>> \o SubSeq(list, i + 1, n)
    OBVIOUS
  <2>3. IsLonger(SubSeq(list, 1, p) \o <<ev>> \o SubSeq(list, p + 1, n), list, ev, n, p)
    BY <1>1, Longer
  <2>4. IsLonger(l, list, ev, n, i)
    BY <2>1, <2>2, <2>3
  <2>5. /\ l \in Seq(Evidence) /\ Len(l) = n + 1
        /\ \A k \in 1 .. i : l[k] = list[k]
        /\ l[i + 1] = ev
        /\ \A k \in i + 1 .. n : l[k + 1] = list[k]
    BY <2>4 DEF IsLonger
  <2>6. Sorted(l)
    BY <1>1, <1>2, <1>6, <2>5, PutSorted
  <2>7. PICK m : m = IF Len(l) > CacheSize THEN CacheSize ELSE Len(l)
    OBVIOUS
  <2>8. m \in 0 .. Len(l)
    BY <2>5, <2>7, PoolAssumption
  <2>9. insert(list, ev) = SubSeq(l, 1, m)
    <3>1. i # -1
      BY <2>1
    <3>2. binarySearchInsertIndex(list, Weight[ev]) = i
      BY <1>2, <1>3
    <3>3. l = SubSeq(list, 1, i) \o <<ev>> \o SubSeq(list, i + 1, Len(list))
      BY <1>1, <2>2
    <3> QED
      BY <2>7, <3>1, <3>2, <3>3, Zenon DEF insert
  <2> QED
    BY <2>5, <2>6, <2>8, <2>9, CutSorted
<1> QED
  BY <1>4, <1>5, <1>6

-----------------------------------------------------------------------------
(* The invariant *)

PoolInv ==
  /\ raws \in Seq(Evidence) /\ evds \in Seq(Evidence) /\ uploaders \subseteq Evidence
  /\ Sorted(evds)

\* Every step of the pool keeps the invariant.
LEMMA PoolInvStep == PoolInv /\ [PoolNext]_poolVars => PoolInv'
<1> SUFFICES ASSUME PoolInv, [PoolNext]_poolVars PROVE PoolInv'
  OBVIOUS
<1>0. /\ raws \in Seq(Evidence) /\ evds \in Seq(Evidence) /\ uploaders \subseteq Evidence
      /\ Sorted(evds)
  BY DEF PoolInv
<1>1. ASSUME NEW ev \in Evidence, addRawEvidence(ev) PROVE PoolInv'
  <2>1. raws' \in Seq(Evidence)
    BY <1>0, <1>1, AppendProperties DEF addRawEvidence
  <2> QED
    BY <1>0, <1>1, <2>1 DEF addRawEvidence, PoolInv
<1>2. ASSUME NEW ev \in Evidence, addEvidence(ev) \/ handleEvidenceBroadcast(ev)
      PROVE  PoolInv'
  <2>1. /\ evds' = insert(evds, ev) /\ raws' = raws
        /\ uploaders' \subseteq uploaders \cup {ev}
    BY <1>2 DEF addEvidence, handleEvidenceBroadcast
  <2>2. evds' \in Seq(Evidence) /\ Sorted(evds')
    BY <1>0, <2>1, InsertSorted
  <2> QED
    BY <1>0, <2>1, <2>2 DEF PoolInv
<1>3. ASSUME NEW ev \in Evidence, UploadReturns(ev) PROVE PoolInv'
  BY <1>0, <1>3 DEF UploadReturns, PoolInv
<1>4. CASE calculateRaw
  <2>1. /\ raws # <<>> /\ raws' = Tail(raws) /\ evds' = insert(evds, Head(raws))
        /\ uploaders' = uploaders
    BY <1>4 DEF calculateRaw
  <2>2. Head(raws) \in Evidence /\ Tail(raws) \in Seq(Evidence)
    BY <1>0, <2>1, HeadTailProperties
  <2>3. evds' \in Seq(Evidence) /\ Sorted(evds')
    BY <1>0, <2>1, <2>2, InsertSorted
  <2> QED
    BY <1>0, <2>1, <2>2, <2>3 DEF PoolInv
<1>5. CASE nextEvidence
  <2>1. /\ evds' = IF evds = <<>> THEN evds ELSE Tail(evds)
        /\ raws' = raws /\ uploaders' = uploaders
    BY <1>5 DEF nextEvidence
  <2>2. evds' \in Seq(Evidence) /\ Sorted(evds')
    <3>1. CASE evds = <<>>
      BY <1>0, <2>1, <3>1
    <3>2. CASE evds # <<>>
      <4>1. PICK n \in Nat : n = Len(evds)
        BY <1>0, LenProperties, Zenon
      <4>2. /\ evds' \in Seq(Evidence) /\ Len(evds') = n - 1
            /\ \A k \in 1 .. n - 1 : evds'[k] = evds[k + 1]
        BY <1>0, <2>1, <3>2, <4>1, HeadTailProperties
      <4>3. \A k \in 1 .. n - 1 : k + 1 \in 1 .. n
        BY <4>1
      <4> QED
        BY <1>0, <4>1, <4>2, <4>3 DEF Sorted
    <3> QED
      BY <3>1, <3>2
  <2> QED
    BY <1>0, <2>1, <2>2 DEF PoolInv
<1>6. CASE broadcastEvidence
  BY <1>0, <1>6 DEF broadcastEvidence, PoolInv
<1>7. CASE UNCHANGED poolVars
  BY <1>0, <1>7 DEF poolVars, PoolInv
<1> QED
  BY <1>1, <1>2, <1>3, <1>4, <1>5, <1>6, <1>7 DEF PoolNext

\* The miner takes the evidence with the lowest weight first, in every
\* interleaving of clients, network, pool and miner: binary search, insertion
\* and cut (ev_pool.go insert, binarySearchInsertIndex) keep the list sorted.
THEOREM StaysSorted == PoolSpec => []PoolSorted
<1>1. PoolInit => PoolInv
  BY DEF PoolInit, PoolInv, Sorted
<1>2. PoolInv /\ [PoolNext]_poolVars => PoolInv'
  BY PoolInvStep
<1>3. PoolInv => PoolSorted
  <2> SUFFICES ASSUME PoolInv PROVE PoolSorted
    OBVIOUS
  <2>1. DOMAIN evds = 1 .. Len(evds)
    BY LenProperties DEF PoolInv
  <2> QED
    BY <2>1 DEF PoolInv, Sorted, PoolSorted
<1> QED
  BY <1>1, <1>2, <1>3, PTL DEF PoolSpec
=============================================================================
