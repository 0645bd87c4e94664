-------------------------- MODULE DeferredProcessor --------------------------
(***************************************************************************)
(* deferred-processor.js: jobs that wait for a promise, and the re-entrant *)
(* loop that runs them.  A job may itself add jobs, dispose of the         *)
(* processor, throw.  While the loop runs, no other callback does, so the  *)
(* outside world acts only when it is not flushing.                        *)
(***************************************************************************)
EXTENDS Naturals, Sequences

CONSTANT Jobs

VARIABLES
  awaited,      \* the awaited promise: "pending", "resolved" or "rejected"
  settled,      \* isSettled_
  flushing,     \* isCurrentlyFlushingJobs_
  disposed,     \* isDisposed()
  queue,        \* jobsQueue_
  running,      \* the job whose function is being called, if any: a set
  promises,     \* the promise that addJob returned, for each job
  added,        \* history: the jobs in the order they were added
  started       \* history: the jobs in the order they were run

vars == <<awaited, settled, flushing, disposed, queue, running, promises,
          added, started>>

Init ==
  /\ awaited = "pending"
  /\ settled = FALSE /\ flushing = FALSE /\ disposed = FALSE
  /\ queue = <<>> /\ running = {}
  /\ promises = [j \in Jobs |-> "none"]
  /\ added = <<>> /\ started = <<>>

\* Code other than the loop runs: a callback of the page, or a job.
Running == flushing => running # {}

-----------------------------------------------------------------------------
\* Mutant: a new job goes first.
AddJobFirst(j) ==
  /\ Running /\ promises[j] = "none"
  /\ promises' = [promises EXCEPT ![j] = "pending"]
  /\ queue' = <<j>> \o queue
  /\ added' = Append(added, j)
  /\ flushing' = (flushing \/ settled)
  /\ UNCHANGED <<awaited, settled, disposed, running, started>>

\* addJob: if the promise has settled, the loop starts, unless it is the loop
\* that called the job that adds this one.
AddJob(j) ==
  /\ Running /\ promises[j] = "none"
  /\ promises' = [promises EXCEPT ![j] = "pending"]
  /\ queue' = Append(queue, j)
  /\ added' = Append(added, j)
  /\ flushing' = (flushing \/ settled)
  /\ UNCHANGED <<awaited, settled, disposed, running, started>>

\* Mutant: disposed of without flushing the queue.
DisposeSilently ==
  /\ Running /\ ~disposed
  /\ disposed' = TRUE /\ settled' = TRUE
  /\ UNCHANGED <<awaited, flushing, queue, running, promises, added, started>>

\* dispose: what is queued is rejected by the same loop.
Dispose ==
  /\ Running /\ ~disposed
  /\ disposed' = TRUE /\ settled' = TRUE /\ flushing' = TRUE
  /\ UNCHANGED <<awaited, queue, running, promises, added, started>>

\* promiseResolvedListener_
PromiseResolved ==
  /\ ~flushing /\ awaited = "pending"
  /\ awaited' = "resolved"
  /\ settled' = TRUE /\ flushing' = (flushing \/ ~settled)
  /\ UNCHANGED <<disposed, queue, running, promises, added, started>>

\* promiseRejectedListener_
PromiseRejected ==
  /\ ~flushing /\ awaited = "pending"
  /\ awaited' = "rejected"
  /\ disposed' = TRUE /\ settled' = TRUE /\ flushing' = (flushing \/ ~disposed)
  /\ UNCHANGED <<queue, running, promises, added, started>>

-----------------------------------------------------------------------------
\* The loop of flushEnqueuedJobs_: the next job's function is called, ...
RunNext ==
  /\ flushing /\ running = {} /\ queue # <<>> /\ ~disposed
  /\ running' = {Head(queue)}
  /\ queue' = Tail(queue)
  /\ started' = Append(started, Head(queue))
  /\ UNCHANGED <<awaited, settled, flushing, disposed, promises, added>>

\* ... or the job is skipped, as the processor has been disposed of.
SkipNext ==
  /\ flushing /\ running = {} /\ queue # <<>> /\ disposed
  /\ promises' = [promises EXCEPT ![Head(queue)] = "rejected"]
  /\ queue' = Tail(queue)
  /\ UNCHANGED <<awaited, settled, flushing, disposed, running, added, started>>

\* The job's function returns, or throws.
JobEnds(outcome) ==
  /\ running # {}
  /\ promises' = [j \in Jobs |-> IF j \in running THEN outcome ELSE promises[j]]
  /\ running' = {}
  /\ UNCHANGED <<awaited, settled, flushing, disposed, queue, added, started>>

FlushEnds ==
  /\ flushing /\ running = {} /\ queue = <<>>
  /\ flushing' = FALSE
  /\ UNCHANGED <<awaited, settled, disposed, queue, running, promises, added, started>>

Next ==
  \/ \E j \in Jobs : AddJob(j)
  \/ Dispose \/ PromiseResolved \/ PromiseRejected
  \/ RunNext \/ SkipNext \/ FlushEnds
  \/ \E outcome \in {"resolved", "rejected"} : JobEnds(outcome)

Spec == Init /\ [][Next]_vars

-----------------------------------------------------------------------------
TypeOK ==
  /\ awaited \in {"pending", "resolved", "rejected"}
  /\ {settled, flushing, disposed} \subseteq BOOLEAN
  /\ running \in {{}} \cup {{j} : j \in Jobs}
  /\ promises \in [Jobs -> {"none", "pending", "resolved", "rejected"}]
  /\ {queue, added, started} \subseteq Seq(Jobs)

\* Jobs are run one after another in the order they were added, none twice,
\* whatever the jobs themselves add while the queue is being flushed.
JobsInOrder ==
  /\ Len(started) <= Len(added)
  /\ \A i \in 1 .. Len(started) : started[i] = added[i]

\* No job is stranded: once the awaited promise has settled, or the processor
\* has been disposed of, a job that waits waits for the running loop, and when
\* the loop is over every promise that addJob returned has been settled.
NoJobStranded ==
  settled /\ ~flushing =>
    queue = <<>> /\ \A j \in Jobs : promises[j] # "pending"
=============================================================================
