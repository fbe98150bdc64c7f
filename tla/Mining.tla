------------------------------- MODULE Mining -------------------------------
(***************************************************************************)
(* One node that mines: the scheduler (core/scheduler.go), its pow workers *)
(* (core/parallel_mine.go) and the evidence pool of module EvPool. The     *)
(* block chain is seen through the calls the scheduler makes: the longest  *)
(* branch is a number that grows (its head), the evidence on it, and the   *)
(* one-place channel PassiveChangeNotify.                                  *)
(*                                                                         *)
(* A job of parallelMine is a collecting goroutine and parallel workers.   *)
(* Jobs outlive the round they were started for: several of them exist at  *)
(* once, and the header they search is an object that the scheduler changes*)
(* in place. A nonce is represented by the contents of the header it was   *)
(* found for.                                                              *)
(***************************************************************************)
EXTENDS EvPool, FiniteSetsExt

CONSTANTS
  Cores,          \* possible numbers of pow goroutines per job
  BlockEvds,      \* params.BlockSize, counted in pieces of evidence
  MaxWorkers,     \* bound: pow goroutines started
  MaxHead         \* bound: longest branch that peers build

ASSUME MiningAssumption ==
  /\ Cores \subseteq Nat \ {0} /\ BlockEvds \in Nat \ {0}
  /\ MaxWorkers \in Nat /\ MaxHead \in Nat \ {0}

VARIABLES
  parallel,       \* pow goroutines per job
  head,           \* the longest branch of the chain
  chainEvds,      \* the evidence on it
  notify,         \* PassiveChangeNotify
  sched,          \* where the scheduler is
  block,          \* the block of the round and the contents of its header
  jobs,           \* the jobs so far, the last one is the scheduler's
  found,          \* the last block mined: nonce and header
  refused         \* whether it was refused although built on the head

mineVars == <<parallel, head, chainEvds, notify, sched, block, jobs, found, refused>>

Cur == Len(jobs)
Worker == 1 .. parallel

\* Bound: one more job is within MaxWorkers.
MoreJobs == (Cur + 1) * parallel <= MaxWorkers

\* Capacities of the channels of mine().
ResultCap_one == 1
ResultCap == parallel
StopCap_none == 0
StopCap == 1

\* Two jobs share the channels for the results of their workers.
Chan_shared(j) == 1

\* The channels powResult and powStop that belong to job j.
Chan(j) == j

SetJob(j, job) == jobs' = [jobs EXCEPT ![j] = job]

-----------------------------------------------------------------------------
(* The chain, as the scheduler sees it: core/blockchain/chain.go *)

\* Blocks of peers make the longest branch longer, or another branch the
\* longest one, with other evidence on it.
PassiveChange ==
  /\ head < MaxHead
  /\ head' = head + 1
  /\ chainEvds' \in SUBSET Evidence
  /\ notify' = TRUE
  /\ UNCHANGED <<parallel, sched, block, jobs, found, refused, poolVars>>

VerifyEvidence(ev) == ev \notin chainEvds

\* AddBlocks of an own block: on the head it extends the longest branch, on
\* another block it becomes or extends a lower branch. It notifies nobody.
AddOwn(b) ==
  IF b.base = head /\ \A ev \in b.evds : VerifyEvidence(ev)
  THEN head' = head + 1 /\ chainEvds' = chainEvds \cup b.evds
  ELSE UNCHANGED <<head, chainEvds>>

-----------------------------------------------------------------------------
(* The scheduler: schedule() *)

\* LatestBlockHash, at the beginning of a round.
BeginRound ==
  /\ sched = "begin"
  /\ MoreJobs
  /\ block' = [round |-> block.round + 1, base |-> head, evds |-> {}, size |-> 0,
               header |-> block.header + 1]
  /\ sched' = "gather"
  /\ UNCHANGED <<parallel, head, chainEvds, notify, jobs, found, refused, poolVars>>

\* Use the head of the chain after the evidence was chosen.
EndGather_late ==
  /\ evds = <<>> \/ block.size >= BlockEvds
  /\ block' = [block EXCEPT !.base = head]
  /\ sched' = "mine"
  /\ UNCHANGED <<poolVars, parallel, head, chainEvds, notify, jobs, found, refused>>

\* getEvidence ends, genBlock makes the header.
EndGather ==
  /\ evds = <<>> \/ block.size >= BlockEvds
  /\ sched' = "mine"
  /\ UNCHANGED <<poolVars, parallel, head, chainEvds, notify, block, jobs, found, refused>>

\* One turn of the loop of getEvidence.
TakeEvidence ==
  /\ evds # <<>> /\ block.size < BlockEvds
  /\ nextEvidence
  /\ LET ev == Head(evds)
     IN  block' = IF VerifyEvidence(ev)
                  THEN [block EXCEPT !.evds = @ \cup {ev}, !.size = @ + 1]
                  ELSE block
  /\ UNCHANGED <<parallel, head, chainEvds, notify, sched, jobs, found, refused>>

getEvidence == sched = "gather" /\ (TakeEvidence \/ EndGather)

\* SetTarget and pm.mine: a collector and its workers are started.
mine ==
  /\ sched = "mine"
  /\ MoreJobs
  /\ block' = [block EXCEPT !.header = @ + 1]
  /\ jobs' = Append(jobs,
       [round |-> block.round, header |-> block.header + 1, stop |-> 0,
        result |-> <<>>, powResult |-> <<>>, powStop |-> 0,
        collector |-> "run", finished |-> 0, left |-> 0,
        worker |-> [w \in Worker |-> "new"], nonce |-> [w \in Worker |-> 0]])
  /\ sched' = "select"
  /\ UNCHANGED <<parallel, head, chainEvds, notify, found, refused, poolVars>>

\* The notification wins the select.
Interrupted ==
  /\ sched = "select" /\ notify
  /\ notify' = FALSE
  /\ sched' = "terminate"
  /\ UNCHANGED <<parallel, head, chainEvds, block, jobs, found, refused, poolVars>>

\* The process stops: the same, and no further round.
Stopped ==
  /\ sched = "select"
  /\ sched' = "exit"
  /\ UNCHANGED <<parallel, head, chainEvds, notify, block, jobs, found, refused, poolVars>>

\* job.terminate() waits until there is room in the channel stop.
terminate ==
  /\ sched \in {"terminate", "exit"}
  /\ jobs[Cur].stop < StopCap
  /\ SetJob(Cur, [jobs[Cur] EXCEPT !.stop = @ + 1])
  /\ sched' = IF sched = "exit" THEN "stopped" ELSE "begin"
  /\ UNCHANGED <<parallel, head, chainEvds, notify, block, found, refused, poolVars>>

\* A result wins the select.
Result ==
  /\ sched = "select" /\ jobs[Cur].result # <<>>
  /\ SetJob(Cur, [jobs[Cur] EXCEPT !.result = Tail(@)])
  /\ LET nonce == Head(jobs[Cur].result)
     IN  \/ /\ nonce # 0                   \* SetNonce, broadcast, AddBlocks
            /\ found' = <<nonce, block.header>>
            /\ refused' = /\ block.base = head
                          /\ \E ev \in block.evds : ~VerifyEvidence(ev)
            /\ AddOwn(block)
            /\ sched' = "begin"
            /\ UNCHANGED block
         \/ /\ nonce = 0                   \* UpdateTime, try again
            /\ block' = [block EXCEPT !.header = @ + 1]
            /\ sched' = "mine"
            /\ UNCHANGED <<head, chainEvds, found, refused>>
  /\ UNCHANGED <<parallel, notify, poolVars>>

-----------------------------------------------------------------------------
(* The goroutines of a job: mine() and pow() *)

\* What the header of round r says now. UpdateTime and SetTarget change the one
\* of the running round; the one of an earlier round is as its last job got it.
HeaderOf(r) ==
  IF r = block.round THEN block.header
  ELSE Max({jobs[k].header : k \in {k \in DOMAIN jobs : jobs[k].round = r}})

\* A worker copies the header when it is first scheduled.
Start(j, w) ==
  /\ jobs[j].worker[w] = "new"
  /\ SetJob(j, [jobs[j] EXCEPT !.worker[w] = "search",
                               !.nonce[w] = HeaderOf(jobs[j].round)])

\* It looks for a stop before each nonce.
SeeStop(j, w) ==
  /\ jobs[j].worker[w] = "search"
  /\ jobs[Chan(j)].powStop > 0
  /\ jobs' = [jobs EXCEPT ![Chan(j)].powStop = @ - 1,
                          ![j].worker[w] = "done", ![j].nonce[w] = 0]

\* It has found a nonce, or tried every nonce of its part (nonce 0): a stop
\* that comes now finds it waiting for room in powResult.
Find(j, w) ==
  /\ jobs[j].worker[w] = "search"
  /\ \E nonce \in {0, jobs[j].nonce[w]} :
       SetJob(j, [jobs[j] EXCEPT !.worker[w] = "send", !.nonce[w] = nonce])

Send(j, w) ==
  /\ jobs[j].worker[w] = "send"
  /\ Len(jobs[Chan(j)].powResult) < ResultCap
  /\ jobs' = [jobs EXCEPT ![Chan(j)].powResult = Append(@, jobs[j].nonce[w]),
                          ![j].worker[w] = "done", ![j].nonce[w] = 0]

\* The collector ends: it has to stop every worker.
Leave(job) == [job EXCEPT !.collector = "leave", !.left = parallel]

Collect(j) ==
  LET job == jobs[j]
      results == jobs[Chan(j)].powResult
  IN  /\ job.collector = "run"
      /\ \/ /\ job.stop > 0                                   \* job.stop
            /\ SetJob(j, Leave([job EXCEPT !.stop = @ - 1]))
         \/ SetJob(j, Leave([job EXCEPT !.result = <<0>>]))   \* timeout
         \/ /\ results # <<>>                                 \* powResult
            /\ LET nonce == Head(results)
                   rest == [jobs EXCEPT ![Chan(j)].powResult = Tail(@)]
                   this == rest[j]
               IN  jobs' = [rest EXCEPT ![j] =
                     IF nonce # 0 THEN Leave([this EXCEPT !.result = <<nonce>>])
                     ELSE IF this.finished + 1 = parallel
                     THEN Leave([this EXCEPT !.result = <<0>>])
                     ELSE [this EXCEPT !.finished = this.finished + 1]]

\* The deferred loop fills powStop, one place per worker.
StopWorker(j) ==
  /\ jobs[j].collector = "leave"
  /\ IF jobs[j].left = 0
     THEN SetJob(j, [jobs[j] EXCEPT !.collector = "done"])
     ELSE /\ jobs[Chan(j)].powStop < parallel
          /\ jobs' = [jobs EXCEPT ![j].left = @ - 1, ![Chan(j)].powStop = @ + 1]

Pow(j, w) == Start(j, w) \/ SeeStop(j, w) \/ Find(j, w) \/ Send(j, w)

chainVars == <<parallel, head, chainEvds, notify, sched, block, found, refused, poolVars>>

Collector(j) == /\ j \in DOMAIN jobs
                /\ Collect(j) \/ StopWorker(j)
                /\ UNCHANGED chainVars

PowWorker(j, w) == j \in DOMAIN jobs /\ Pow(j, w) /\ UNCHANGED chainVars

JobStep == \E j \in 1 .. MaxWorkers :
             Collector(j) \/ \E w \in Worker : PowWorker(j, w)

-----------------------------------------------------------------------------

\* The pool works on; Core.UploadEvidence verifies before it adds.
PoolStep ==
  /\ \/ \E ev \in Evidence :
          \/ VerifyEvidence(ev) /\ addEvidence(ev)
          \/ addRawEvidence(ev) \/ UploadReturns(ev)
          \/ handleEvidenceBroadcast(ev)
     \/ calculateRaw \/ broadcastEvidence
  /\ UNCHANGED mineVars

MiningInit ==
  /\ PoolInit
  /\ parallel \in Cores
  /\ head = 1 /\ chainEvds = {} /\ notify = FALSE
  /\ sched = "begin"
  /\ block = [round |-> 0, base |-> 0, evds |-> {}, size |-> 0, header |-> 1]
  /\ jobs = <<>>
  /\ found = <<0, 0>>
  /\ refused = FALSE

Schedule == \/ BeginRound \/ getEvidence \/ mine \/ Interrupted \/ terminate
            \/ Result

MiningNext == PassiveChange \/ PoolStep \/ Schedule \/ Stopped \/ JobStep

allVars == <<mineVars, poolVars>>

MiningSpec == MiningInit /\ [][MiningNext]_allVars

\* The goroutines of the jobs run on, and nonces and time run out: while some
\* of them can go on, one does. So does the scheduler.
MiningFairSpec == MiningSpec /\ WF_allVars(Schedule) /\ WF_allVars(JobStep)

-----------------------------------------------------------------------------
(* Properties *)

\* The nonce set on a block that is broadcast was found for the very header
\* that is broadcast, although earlier jobs still search, the header changes
\* in place and workers copy it late (scheduler.go:93).
NonceFitsHeader == found[1] = found[2]

\* A block that this node mined on the head of its longest branch is not
\* refused for its evidence: head and evidence are read at different times,
\* and a change in between moves the head (scheduler.go:68-70).
OwnBlockAccepted == ~refused

\* Once a job is over its goroutines end: no channel keeps one of them
\* waiting (parallel_mine.go:44-66).
JobsEnd ==
  []<>(\A j \in DOMAIN jobs : jobs[j].collector # "run" =>
         /\ jobs[j].collector = "done"
         /\ \A w \in Worker : jobs[j].worker[w] = "done")

\* The scheduler always comes back from its select: a job ends by itself, and
\* terminate does not wait for a collector that has gone (scheduler.go:80-103).
SchedulerGoesOn == []<>(sched \notin {"select", "terminate", "exit"})
=============================================================================
