------------------------ MODULE ClientRequests_proofs -------------------------
(***************************************************************************)
(* What lies between a client's call and the executable module.            *)
(*                                                                         *)
(* The deferred jobs, for any set of jobs, which add one another and       *)
(* dispose of the processor in any order (Spec, of DeferredProcessor).     *)
(*                                                                         *)
(* The road of a client's calls implements RemoteCalls.  The invariant     *)
(* says where a call can be: at one place of the road, which it passes     *)
(* once.  Each function of the page that moves calls (PostToServer,        *)
(* FlushPosting, FlushAdmitted, HandleRequest, DisposeHandler) gets a      *)
(* lemma that it only passes them on, and each action then one that it     *)
(* keeps the invariant and is a step of RemoteCalls.                       *)
(***************************************************************************)
EXTENDS MCChannels, TLAPS

-----------------------------------------------------------------------------
\* The deferred jobs.
\* What the module's TypeOK says, one variable at a time.
Types ==
  /\ awaited \in {"pending", "resolved", "rejected"}
  /\ settled \in BOOLEAN
  /\ flushing \in BOOLEAN
  /\ disposed \in BOOLEAN
  /\ running \in {{}} \cup {{j} : j \in Jobs}
  /\ promises \in [Jobs -> {"none", "pending", "resolved", "rejected"}]
  /\ queue \in Seq(Jobs)
  /\ added \in Seq(Jobs)
  /\ started \in Seq(Jobs)

\* Until the processor is disposed of, the jobs that were added are the ones
\* that were started followed by the ones that wait.  Afterwards the queue is
\* thrown away and nothing is started, so JobsInOrder is all that is left.
QueueFollows ==
  ~disposed =>
    /\ Len(added) = Len(started) + Len(queue)
    /\ \A i \in 1 .. Len(queue) : queue[i] = added[Len(started) + i]

\* A promise that is pending belongs to the job that runs or to one that waits.
PendingIsHeld ==
  \A j \in Jobs : promises[j] = "pending" =>
    j \in running \/ \E i \in 1 .. Len(queue) : queue[i] = j

\* The loop is running while a job does, and until the queue is empty.
LoopRuns ==
  /\ running # {} => flushing
  /\ disposed => settled
  /\ settled /\ ~flushing => queue = <<>>

IInv == Types /\ JobsInOrder /\ QueueFollows /\ PendingIsHeld /\ LoopRuns

-----------------------------------------------------------------------------
\* The type invariant of the module, which groups variables in sets, is Types.
LEMMA TypesAreTypeOK == Types <=> TypeOK
  BY DEF Types, TypeOK

\* The queue of a sequence's end: what Append, Head and Tail do to it.
LEMMA AppendFacts ==
  ASSUME NEW s \in Seq(Jobs), NEW j \in Jobs
  PROVE  /\ Append(s, j) \in Seq(Jobs)
         /\ Len(Append(s, j)) = Len(s) + 1
         /\ \A i \in 1 .. Len(s) : Append(s, j)[i] = s[i]
         /\ Append(s, j)[Len(s) + 1] = j
  OBVIOUS

LEMMA TailFacts ==
  ASSUME NEW s \in Seq(Jobs), s # <<>>
  PROVE  /\ Head(s) \in Jobs /\ Head(s) = s[1]
         /\ Tail(s) \in Seq(Jobs)
         /\ Len(s) \in Nat /\ Len(s) > 0
         /\ Len(Tail(s)) = Len(s) - 1
         /\ \A i \in 1 .. Len(Tail(s)) : Tail(s)[i] = s[i + 1]
  OBVIOUS

LEMMA InitIInv == Init => IInv
  <1> SUFFICES ASSUME Init PROVE IInv
    OBVIOUS
  <1>1. Types
    <2>1. queue \in Seq(Jobs) /\ added \in Seq(Jobs) /\ started \in Seq(Jobs)
      BY DEF Init
    <2>2. promises \in [Jobs -> {"none", "pending", "resolved", "rejected"}]
      BY DEF Init
    <2>3. settled \in BOOLEAN /\ flushing \in BOOLEAN /\ disposed \in BOOLEAN
      BY DEF Init
    <2> QED
      BY <2>1, <2>2, <2>3 DEF Init, Types
  <1>2. JobsInOrder /\ QueueFollows
    BY DEF Init, JobsInOrder, QueueFollows
  <1>3. PendingIsHeld /\ LoopRuns
    BY DEF Init, PendingIsHeld, LoopRuns
  <1> QED
    BY <1>1, <1>2, <1>3 DEF IInv

-----------------------------------------------------------------------------
LEMMA AddJobKeeps ==
  ASSUME IInv, NEW j \in Jobs, AddJob(j)
  PROVE  IInv'
  <1> USE DEF IInv
  <1>1. /\ queue' \in Seq(Jobs) /\ Len(queue') = Len(queue) + 1
        /\ \A i \in 1 .. Len(queue) : queue'[i] = queue[i]
        /\ queue'[Len(queue) + 1] = j
    BY AppendFacts DEF AddJob, Types
  <1>2. /\ added' \in Seq(Jobs) /\ Len(added') = Len(added) + 1
        /\ \A i \in 1 .. Len(added) : added'[i] = added[i]
        /\ added'[Len(added) + 1] = j
    BY AppendFacts DEF AddJob, Types
  <1>3. Types'
    <2>1. flushing' \in BOOLEAN
      BY DEF AddJob, Types
    <2>2. promises' \in [Jobs -> {"none", "pending", "resolved", "rejected"}]
      BY DEF AddJob, Types
    <2> QED
      BY <1>1, <1>2, <2>1, <2>2 DEF AddJob, Types
  <1>4. /\ started' = started /\ disposed' = disposed /\ running' = running
        /\ settled' = settled /\ promises' = [promises EXCEPT ![j] = "pending"]
    BY DEF AddJob
  <1>5. Len(started) \in Nat /\ Len(queue) \in Nat /\ Len(added) \in Nat
    BY DEF Types
  <1>6. JobsInOrder'
    BY <1>2, <1>4, <1>5 DEF JobsInOrder
  <1>7. QueueFollows'
    <2> SUFFICES ASSUME ~disposed
                 PROVE  /\ Len(added') = Len(started) + Len(queue')
                        /\ \A i \in 1 .. Len(queue') :
                             queue'[i] = added'[Len(started) + i]
      BY <1>4 DEF QueueFollows
    <2>1. /\ Len(added) = Len(started) + Len(queue)
          /\ \A i \in 1 .. Len(queue) : queue[i] = added[Len(started) + i]
      BY DEF QueueFollows
    <2>2. Len(added') = Len(started) + Len(queue')
      BY <1>1, <1>2, <2>1
    <2>3. ASSUME NEW i \in 1 .. Len(queue')
          PROVE  queue'[i] = added'[Len(started) + i]
      <3>1. CASE i = Len(queue) + 1
        BY <1>1, <1>2, <1>5, <2>1, <3>1
      <3>2. CASE i # Len(queue) + 1
        <4>1. i \in 1 .. Len(queue) /\ Len(started) + i \in 1 .. Len(added)
          BY <1>1, <1>5, <2>1, <3>2
        <4> QED
          BY <1>1, <1>2, <2>1, <4>1
      <3> QED
        BY <3>1, <3>2
    <2> QED
      BY <2>2, <2>3
  <1>8. PendingIsHeld'
    <2> SUFFICES ASSUME NEW k \in Jobs, promises'[k] = "pending"
                 PROVE  k \in running' \/ \E i \in 1 .. Len(queue') : queue'[i] = k
      BY DEF PendingIsHeld
    <2>1. CASE k = j
      BY <1>1, <1>5, <2>1
    <2>2. CASE k # j
      <3>1. promises[k] = "pending"
        BY <1>4, <2>2 DEF Types
      <3>2. k \in running \/ \E i \in 1 .. Len(queue) : queue[i] = k
        BY <3>1 DEF PendingIsHeld
      <3> QED
        BY <1>1, <1>4, <1>5, <3>2
    <2> QED
      BY <2>1, <2>2
  <1>9. LoopRuns'
    BY <1>4 DEF AddJob, LoopRuns, Types
  <1> QED
    BY <1>3, <1>6, <1>7, <1>8, <1>9

\* Nothing that settles or disposes moves a job.
LEMMA SettlingKeeps ==
  ASSUME IInv, Dispose \/ PromiseResolved \/ PromiseRejected
  PROVE  IInv'
  <1> USE DEF IInv
  <1>1. UNCHANGED <<queue, running, promises, added, started>>
    BY DEF Dispose, PromiseResolved, PromiseRejected
  <1>2. /\ settled' = TRUE /\ disposed' \in BOOLEAN /\ flushing' \in BOOLEAN
        /\ disposed => disposed'
        /\ flushing => flushing'
        /\ awaited' \in {"pending", "resolved", "rejected"}
    BY DEF Dispose, PromiseResolved, PromiseRejected, Types
  <1>3. ~flushing' => settled
    <2>1. CASE Dispose
      BY <2>1 DEF Dispose
    <2>2. CASE PromiseResolved
      BY <2>2 DEF PromiseResolved
    <2>3. CASE PromiseRejected
      BY <2>3 DEF PromiseRejected, LoopRuns
    <2> QED
      BY <2>1, <2>2, <2>3
  <1>4. Types'
    BY <1>1, <1>2 DEF Types
  <1>5. JobsInOrder' /\ QueueFollows' /\ PendingIsHeld'
    BY <1>1, <1>2 DEF JobsInOrder, QueueFollows, PendingIsHeld
  <1>6. LoopRuns'
    BY <1>1, <1>2, <1>3 DEF LoopRuns
  <1> QED
    BY <1>4, <1>5, <1>6

LEMMA RunNextKeeps ==
  ASSUME IInv, RunNext
  PROVE  IInv'
  <1> USE DEF IInv
  <1>1. /\ queue \in Seq(Jobs) /\ queue # <<>> /\ flushing /\ ~disposed
        /\ started \in Seq(Jobs) /\ added \in Seq(Jobs)
    BY DEF RunNext, Types
  <1>2. /\ Head(queue) \in Jobs /\ Head(queue) = queue[1]
        /\ queue' \in Seq(Jobs) /\ Len(queue) > 0 /\ Len(queue') = Len(queue) - 1
        /\ \A i \in 1 .. Len(queue') : queue'[i] = queue[i + 1]
    BY <1>1, TailFacts DEF RunNext
  <1>3. /\ started' \in Seq(Jobs) /\ Len(started') = Len(started) + 1
        /\ \A i \in 1 .. Len(started) : started'[i] = started[i]
        /\ started'[Len(started) + 1] = queue[1]
    BY <1>1, <1>2, AppendFacts DEF RunNext
  <1>4. /\ added' = added /\ promises' = promises /\ running' = {queue[1]}
        /\ UNCHANGED <<awaited, settled, flushing, disposed>>
    BY <1>2 DEF RunNext
  <1>5. Len(started) \in Nat /\ Len(queue) \in Nat /\ Len(added) \in Nat
    BY <1>1
  <1>6. /\ Len(added) = Len(started) + Len(queue)
        /\ \A i \in 1 .. Len(queue) : queue[i] = added[Len(started) + i]
    BY <1>1 DEF QueueFollows
  <1>7. Types'
    BY <1>2, <1>3, <1>4 DEF Types
  <1>8. JobsInOrder'
    <2>1. started'[Len(started) + 1] = added[Len(started) + 1]
      BY <1>2, <1>3, <1>5, <1>6
    <2> QED
      BY <1>2, <1>3, <1>4, <1>5, <1>6, <2>1 DEF JobsInOrder
  <1>9. QueueFollows'
    <2>1. Len(added') = Len(started') + Len(queue')
      BY <1>2, <1>3, <1>4, <1>5, <1>6
    <2>2. ASSUME NEW i \in 1 .. Len(queue')
          PROVE  queue'[i] = added'[Len(started') + i]
      <3>1. i + 1 \in 1 .. Len(queue)
        BY <1>2, <1>5
      <3>2. queue[i + 1] = added[Len(started) + (i + 1)]
        BY <1>6, <3>1
      <3> QED
        BY <1>2, <1>3, <1>4, <1>5, <3>2
    <2> QED
      BY <2>1, <2>2 DEF QueueFollows
  <1>10. PendingIsHeld'
    <2> SUFFICES ASSUME NEW k \in Jobs, promises[k] = "pending", k # queue[1]
                 PROVE  \E i \in 1 .. Len(queue') : queue'[i] = k
      BY <1>4 DEF PendingIsHeld
    <2>1. k \notin running
      BY DEF RunNext
    <2>2. PICK i \in 1 .. Len(queue) : queue[i] = k
      BY <2>1 DEF PendingIsHeld
    <2>3. i - 1 \in 1 .. Len(queue')
      BY <1>2, <1>5, <2>2
    <2>4. queue'[i - 1] = k
      BY <1>2, <1>5, <2>2, <2>3
    <2> QED
      BY <2>3, <2>4
  <1>11. LoopRuns'
    BY <1>1, <1>4 DEF LoopRuns
  <1> QED
    BY <1>7, <1>8, <1>9, <1>10, <1>11

LEMMA SkipNextKeeps ==
  ASSUME IInv, SkipNext
  PROVE  IInv'
  <1> USE DEF IInv
  <1>1. queue \in Seq(Jobs) /\ queue # <<>> /\ flushing /\ disposed
    BY DEF SkipNext, Types
  <1>2. /\ Head(queue) \in Jobs /\ Head(queue) = queue[1]
        /\ queue' \in Seq(Jobs) /\ Len(queue') = Len(queue) - 1 /\ Len(queue) > 0
        /\ \A i \in 1 .. Len(queue') : queue'[i] = queue[i + 1]
    BY <1>1, TailFacts DEF SkipNext
  <1>3. /\ UNCHANGED <<awaited, settled, flushing, disposed, running, added, started>>
        /\ promises' = [promises EXCEPT ![queue[1]] = "rejected"]
    BY <1>2 DEF SkipNext
  <1>4. Len(queue) \in Nat
    BY <1>1
  <1>5. Types'
    <2>1. promises' \in [Jobs -> {"none", "pending", "resolved", "rejected"}]
      BY <1>2, <1>3 DEF Types
    <2> QED
      BY <1>2, <1>3, <2>1 DEF Types
  <1>6. JobsInOrder' /\ QueueFollows' /\ LoopRuns'
    BY <1>1, <1>3 DEF JobsInOrder, QueueFollows, LoopRuns
  <1>7. PendingIsHeld'
    <2> SUFFICES ASSUME NEW k \in Jobs, promises'[k] = "pending", k \notin running
                 PROVE  \E i \in 1 .. Len(queue') : queue'[i] = k
      BY <1>3 DEF PendingIsHeld
    <2>1. k # queue[1] /\ promises[k] = "pending"
      BY <1>2, <1>3 DEF Types
    <2>2. PICK i \in 1 .. Len(queue) : queue[i] = k
      BY <2>1 DEF PendingIsHeld
    <2>3. i - 1 \in 1 .. Len(queue')
      BY <1>2, <1>4, <2>1, <2>2
    <2>4. queue'[i - 1] = k
      BY <1>2, <1>4, <2>2, <2>3
    <2> QED
      BY <2>3, <2>4
  <1> QED
    BY <1>5, <1>6, <1>7

LEMMA JobEndsKeeps ==
  ASSUME IInv, NEW outcome \in {"resolved", "rejected"}, JobEnds(outcome)
  PROVE  IInv'
  <1> USE DEF IInv
  <1>1. /\ running' = {}
        /\ promises' = [j \in Jobs |-> IF j \in running THEN outcome ELSE promises[j]]
        /\ UNCHANGED <<awaited, settled, flushing, disposed, queue, added, started>>
    BY DEF JobEnds, Types
  <1>2. promises' \in [Jobs -> {"none", "pending", "resolved", "rejected"}]
    BY <1>1 DEF Types
  <1>3. Types'
    BY <1>1, <1>2 DEF Types
  <1>4. JobsInOrder' /\ QueueFollows' /\ LoopRuns'
    BY <1>1 DEF JobsInOrder, QueueFollows, LoopRuns
  <1>5. PendingIsHeld'
    <2> SUFFICES ASSUME NEW k \in Jobs, promises'[k] = "pending"
                 PROVE  \E i \in 1 .. Len(queue) : queue[i] = k
      BY <1>1 DEF PendingIsHeld
    <2>1. k \notin running /\ promises[k] = "pending"
      BY <1>1 DEF Types
    <2> QED
      BY <2>1 DEF PendingIsHeld
  <1> QED
    BY <1>3, <1>4, <1>5

\* The loop ends only when nothing waits, and no job adds any more.
LEMMA FlushEndsKeeps ==
  ASSUME IInv, FlushEnds
  PROVE  IInv'
  <1> USE DEF IInv
  <1>1. Types'
    BY DEF FlushEnds, Types
  <1>2. JobsInOrder' /\ QueueFollows' /\ PendingIsHeld'
    BY DEF FlushEnds, JobsInOrder, QueueFollows, PendingIsHeld
  <1>3. LoopRuns'
    BY DEF FlushEnds, LoopRuns
  <1> QED
    BY <1>1, <1>2, <1>3

LEMMA NextKeeps == IInv /\ [Next]_vars => IInv'
  <1> SUFFICES ASSUME IInv, [Next]_vars PROVE IInv'
    OBVIOUS
  <1>1. CASE \E j \in Jobs : AddJob(j)
    BY <1>1, AddJobKeeps
  <1>2. CASE Dispose \/ PromiseResolved \/ PromiseRejected
    BY <1>2, SettlingKeeps
  <1>3. CASE RunNext
    BY <1>3, RunNextKeeps
  <1>4. CASE SkipNext
    BY <1>4, SkipNextKeeps
  <1>5. CASE FlushEnds
    BY <1>5, FlushEndsKeeps
  <1>6. CASE \E outcome \in {"resolved", "rejected"} : JobEnds(outcome)
    BY <1>6, JobEndsKeeps
  <1>7. CASE UNCHANGED vars
    BY <1>7 DEF vars, IInv, Types, JobsInOrder, QueueFollows, PendingIsHeld, LoopRuns
  <1> QED
    BY <1>1, <1>2, <1>3, <1>4, <1>5, <1>6, <1>7 DEF Next

THEOREM Invariance == Spec => []IInv
  BY InitIInv, NextKeeps, PTL DEF Spec

-----------------------------------------------------------------------------
\* Every variable of the processor keeps its type.
THEOREM TypeCorrect == Spec => []TypeOK
  <1>1. IInv => TypeOK
    BY TypesAreTypeOK DEF IInv
  <1> QED
    BY <1>1, Invariance, PTL

\* flushEnqueuedJobs_ calls the jobs one after another in the order in which
\* addJob got them, however often the loop is entered again from a job.
THEOREM RunInOrder == Spec => []JobsInOrder
  <1>1. IInv => JobsInOrder
    BY DEF IInv
  <1> QED
    BY <1>1, Invariance, PTL

\* When the awaited promise has settled, or dispose was called, and the loop is
\* over, no promise of addJob is left pending: nobody waits for ever.
THEOREM NothingStranded == Spec => []NoJobStranded
  <1>1. ASSUME IInv PROVE NoJobStranded
    <2> SUFFICES ASSUME settled, ~flushing, NEW j \in Jobs
                 PROVE  queue = <<>> /\ promises[j] # "pending"
      BY <1>1 DEF IInv, LoopRuns, NoJobStranded
    <2>1. queue = <<>> /\ running = {}
      BY <1>1 DEF IInv, LoopRuns
    <2> QED
      BY <1>1, <2>1 DEF IInv, PendingIsHeld
  <1> QED
    BY <1>1, Invariance, PTL

-----------------------------------------------------------------------------
\* The calls.
Message == Calls \cup {Bye, Junk, Create, Delete}
Answers == [call : Calls, ok : BOOLEAN]

\* The calls in a queue, and that each is there once.
In(s) == {s[i] : i \in DOMAIN s} \cap Calls
Once(s) == \A i, j \in DOMAIN s : s[i] = s[j] /\ s[i] \in Calls => i = j

LEMMA SequenceOf ==
  ASSUME NEW S, NEW T, S \subseteq T, NEW s \in Seq(S) PROVE s \in Seq(T)
OBVIOUS

LEMMA InEmpty == In(<<>>) = {} /\ Once(<<>>)
BY DEF In, Once

LEMMA InOne == ASSUME NEW m PROVE In(<<m>>) = {m} \cap Calls /\ Once(<<m>>)
BY DEF In, Once

LEMMA InAppend ==
  ASSUME NEW T, NEW s \in Seq(T), NEW m \in T, Once(s), m \notin In(s)
  PROVE  /\ Append(s, m) \in Seq(T)
         /\ In(Append(s, m)) = In(s) \cup ({m} \cap Calls)
         /\ Once(Append(s, m))
BY DEF In, Once

LEMMA InTail ==
  ASSUME NEW T, NEW s \in Seq(T), s # <<>>, Once(s)
  PROVE  /\ Head(s) \in T /\ Tail(s) \in Seq(T)
         /\ In(Tail(s)) = In(s) \ {Head(s)}
         /\ Head(s) \in Calls => Head(s) \in In(s)
         /\ Once(Tail(s))
<1>1. /\ Head(s) \in T /\ Tail(s) \in Seq(T) /\ 1 \in DOMAIN s /\ Head(s) = s[1]
      /\ \A i \in DOMAIN Tail(s) : i \in Nat /\ i + 1 # 1 /\ i + 1 \in DOMAIN s /\ Tail(s)[i] = s[i + 1]
      /\ \A i \in DOMAIN s : i # 1 => i - 1 \in DOMAIN Tail(s) /\ s[i] = Tail(s)[i - 1]
  OBVIOUS
<1> DEFINE t == Tail(s)  m == Head(s)
<1> HIDE DEF t, m
<1>2. /\ 1 \in DOMAIN s /\ m = s[1]
      /\ \A i \in DOMAIN t : i \in Nat /\ i + 1 # 1 /\ i + 1 \in DOMAIN s /\ t[i] = s[i + 1]
      /\ \A i \in DOMAIN s : i # 1 => i - 1 \in DOMAIN t /\ s[i] = t[i - 1]
  BY <1>1 DEF t, m
<1>3. Once(t)
  <2> SUFFICES ASSUME NEW i \in DOMAIN t, NEW j \in DOMAIN t, t[i] = t[j], t[i] \in Calls
               PROVE  i = j
    BY DEF Once
  <2>1. i + 1 = j + 1
    BY <1>2 DEF Once
  <2> QED BY <1>2, <2>1
<1>4. m \in Calls => m \in In(s)
  BY <1>2 DEF In
<1>5. In(t) = In(s) \ {m}
  <2>1. In(t) \subseteq In(s) \ {m}
    <3> SUFFICES ASSUME NEW i \in DOMAIN t, t[i] \in Calls
                 PROVE  t[i] \in In(s) /\ t[i] # m
      BY DEF In
    <3>1. t[i] = s[i + 1] /\ i + 1 \in DOMAIN s /\ i + 1 # 1
      BY <1>2
    <3> QED BY <1>2, <3>1 DEF In, Once
  <2>2. In(s) \ {m} \subseteq In(t)
    <3> SUFFICES ASSUME NEW i \in DOMAIN s, s[i] \in Calls, s[i] # m
                 PROVE  s[i] \in In(t)
      BY DEF In
    <3> QED BY <1>2 DEF In
  <2> QED BY <2>1, <2>2
<1> QED BY <1>1, <1>3, <1>4, <1>5 DEF t, m

LEMMA InConcat ==
  ASSUME NEW T, NEW s \in Seq(T), NEW t \in Seq(T), Once(s), Once(t), In(s) \cap In(t) = {}
  PROVE  /\ s \o t \in Seq(T)
         /\ In(s \o t) = In(s) \cup In(t)
         /\ Once(s \o t)
<1> DEFINE st == s \o t
<1>1. /\ st \in Seq(T) /\ Len(s) \in Nat /\ Len(t) \in Nat
      /\ DOMAIN st = 1 .. Len(s) + Len(t)
      /\ DOMAIN s = 1 .. Len(s) /\ DOMAIN t = 1 .. Len(t)
      /\ \A i \in 1 .. Len(s) + Len(t) :
           st[i] = IF i <= Len(s) THEN s[i] ELSE t[i - Len(s)]
  OBVIOUS
<1> HIDE DEF st
<1>2. \A i \in 1 .. Len(t) : Len(s) + i \in DOMAIN st /\ st[Len(s) + i] = t[i]
  <2> TAKE i \in 1 .. Len(t)
  <2>1. /\ Len(s) + i \in 1 .. Len(s) + Len(t) /\ ~(Len(s) + i <= Len(s))
        /\ (Len(s) + i) - Len(s) = i
    BY <1>1
  <2> QED BY <1>1, <2>1
<1>3. \A i \in 1 .. Len(s) : i \in DOMAIN st /\ st[i] = s[i]
  BY <1>1
<1>4. \A i \in DOMAIN st : \/ i \in 1 .. Len(s) /\ st[i] = s[i]
                           \/ i - Len(s) \in 1 .. Len(t) /\ st[i] = t[i - Len(s)]
  BY <1>1
<1>5. In(st) = In(s) \cup In(t)
  BY <1>1, <1>2, <1>3, <1>4 DEF In
<1>6. Once(st)
  <2> SUFFICES ASSUME NEW i \in DOMAIN st, NEW j \in DOMAIN st, st[i] = st[j], st[i] \in Calls
               PROVE  i = j
    BY DEF Once
  <2>1. CASE i \in 1 .. Len(s) /\ j \in 1 .. Len(s)
    BY <1>1, <1>3, <2>1 DEF Once
  <2>2. CASE i \notin 1 .. Len(s) /\ j \notin 1 .. Len(s)
    <3>1. i - Len(s) = j - Len(s)
      BY <1>1, <1>4, <2>2 DEF Once
    <3> QED BY <1>1, <3>1
  <2>3. CASE i \in 1 .. Len(s) /\ j \notin 1 .. Len(s)
    BY <1>1, <1>3, <1>4, <2>3 DEF In
  <2>4. CASE j \in 1 .. Len(s) /\ i \notin 1 .. Len(s)
    BY <1>1, <1>3, <1>4, <2>4 DEF In
  <2> QED BY <2>1, <2>2, <2>3, <2>4
<1> QED BY <1>1, <1>5, <1>6 DEF st

LEMMA InConcatNone ==
  ASSUME NEW T, NEW first \in Seq(T), NEW js \in Seq(T), Once(first), Once(js), In(first) = {}
  PROVE  first \o js \in Seq(T) /\ Once(first \o js) /\ In(first \o js) = In(js)
<1>1. In(first) \cap In(js) = {} /\ In(first) \cup In(js) = In(js)
  OBVIOUS
<1>2. /\ first \o js \in Seq(T)
      /\ In(first \o js) = In(first) \cup In(js)
      /\ Once(first \o js)
  BY <1>1, InConcat, Zenon
<1> QED BY <1>1, <1>2

LEMMA InFirst ==
  ASSUME NEW T, NEW m \in T, m \notin Calls, NEW js \in Seq(T), Once(js)
  PROVE  <<m>> \o js \in Seq(T) /\ Once(<<m>> \o js) /\ In(<<m>> \o js) = In(js)
<1>2. ASSUME NEW first, first = <<m>>
      PROVE  first \o js \in Seq(T) /\ Once(first \o js) /\ In(first \o js) = In(js)
  <2>1. first \in Seq(T)
        BY <1>2
  <2>2. In(first) = {} /\ Once(first)
        BY <1>2, InOne
  <2> QED BY <2>1, <2>2, InConcatNone
<1> QED BY <1>2

-----------------------------------------------------------------------------
(* What the page's functions do with the calls it keeps                    *)

Processor == [settled : BOOLEAN, disposed : BOOLEAN, queue : Seq(Calls)]
Delayed == [disposed : BOOLEAN, linked : BOOLEAN, ready : BOOLEAN,
            pending : Seq(Message), passed : Seq(Message)]
Page == [live : BOOLEAN, admitted : Processor, posting : Processor,
         requester : {"none", "live", "gone"}, pending : SUBSET Calls,
         answers : SUBSET Answers, delayed : Delayed, failed : BOOLEAN]

\* The calls that wait on the page, that its Requester or its RequestReceiver still
\* owe an answer, and that are on their way to the module.
Queued(pg) == In(pg.admitted.queue) \cup In(pg.posting.queue)
Answered(A) == {a.call : a \in A}
Awaited(pg) == pg.pending \cup Answered(pg.answers)
Sent(d) == In(d.pending) \cup In(d.passed)

DelayedOnce(d) ==
  /\ d \in Delayed
  /\ Once(d.pending) /\ Once(d.passed) /\ In(d.pending) \cap In(d.passed) = {}

\* The page has each call at one place; what was sent may be awaited.
PageOnce(pg) ==
  /\ pg \in Page
  /\ Once(pg.admitted.queue) /\ Once(pg.posting.queue)
  /\ In(pg.admitted.queue) \cap In(pg.posting.queue) = {}
  /\ pg.pending \cap Answered(pg.answers) = {}
  /\ \A a, b \in pg.answers : a.call = b.call => a = b
  /\ Queued(pg) \cap (Awaited(pg) \cup Sent(pg.delayed)) = {}
  /\ DelayedOnce(pg.delayed)

\* The page pg has become qg: no call has come but those of C, and no result.
Passes(pg, qg, C) ==
  /\ PageOnce(qg)
  /\ Queued(qg) \cup Awaited(qg) \subseteq Queued(pg) \cup Awaited(pg) \cup C
  /\ Queued(qg) \cup Sent(qg.delayed) \subseteq Queued(pg) \cup Sent(pg.delayed) \cup C
  /\ \A a \in qg.answers : a.ok => a \in pg.answers

LEMMA PassesOn ==
  ASSUME NEW pg, NEW qg, NEW rg, NEW C, Passes(pg, qg, C), Passes(qg, rg, {})
  PROVE  Passes(pg, rg, C)
BY DEF Passes

LEMMA SendOnce ==
  ASSUME NEW d, DelayedOnce(d), NEW js \in Seq(Message), Once(js), In(js) \cap Sent(d) = {}
  PROVE  /\ DelayedOnce(Calling!DelayedSend(d, js))
         /\ Sent(Calling!DelayedSend(d, js)) \subseteq Sent(d) \cup In(js)
<1> DEFINE e == Calling!DelayedSend(d, js)
<1>1. CASE e = d
  BY <1>1
<1>2. CASE e = [d EXCEPT !.pending = @ \o js]
  <2>1. /\ e.passed = d.passed /\ e.pending = d.pending \o js
        /\ e.disposed = d.disposed /\ e.linked = d.linked /\ e.ready = d.ready
        /\ e = [disposed |-> e.disposed, linked |-> e.linked, ready |-> e.ready,
                pending |-> e.pending, passed |-> e.passed]
    BY <1>2 DEF DelayedOnce, Delayed
  <2> HIDE DEF e
  <2>2. d.pending \in Seq(Message) /\ d.passed \in Seq(Message)
    BY DEF DelayedOnce, Delayed
  <2>3. /\ e.pending \in Seq(Message) /\ Once(e.pending)
        /\ In(e.pending) = In(d.pending) \cup In(js)
    BY <2>1, <2>2, InConcat DEF DelayedOnce, Sent
  <2>4. e \in Delayed
    BY <2>1, <2>2, <2>3 DEF DelayedOnce, Delayed
  <2> QED BY <2>1, <2>3, <2>4 DEF DelayedOnce, Sent, e
<1>3. CASE e = [d EXCEPT !.passed = @ \o js]
  <2>1. /\ e.pending = d.pending /\ e.passed = d.passed \o js
        /\ e.disposed = d.disposed /\ e.linked = d.linked /\ e.ready = d.ready
        /\ e = [disposed |-> e.disposed, linked |-> e.linked, ready |-> e.ready,
                pending |-> e.pending, passed |-> e.passed]
    BY <1>3 DEF DelayedOnce, Delayed
  <2> HIDE DEF e
  <2>2. d.pending \in Seq(Message) /\ d.passed \in Seq(Message)
    BY DEF DelayedOnce, Delayed
  <2>3. /\ e.passed \in Seq(Message) /\ Once(e.passed)
        /\ In(e.passed) = In(d.passed) \cup In(js)
    BY <2>1, <2>2, InConcat DEF DelayedOnce, Sent
  <2>4. e \in Delayed
    BY <2>1, <2>2, <2>3 DEF DelayedOnce, Delayed
  <2> QED BY <2>1, <2>3, <2>4 DEF DelayedOnce, Sent, e
<1>4. e = d \/ e = [d EXCEPT !.pending = @ \o js] \/ e = [d EXCEPT !.passed = @ \o js]
  BY DEF Calling!DelayedSend
<1> QED BY <1>1, <1>2, <1>3, <1>4

LEMMA RejectedCalls ==
  ASSUME NEW js \in Seq(Calls), Once(js)
  PROVE  /\ Calling!Rejected(js) \subseteq Answers
         /\ Answered(Calling!Rejected(js)) = In(js)
         /\ \A a, b \in Calling!Rejected(js) : a.call = b.call => a = b
         /\ \A a \in Calling!Rejected(js) : ~a.ok
<1>1. Calling!Rejected(js) = {[call |-> js[i], ok |-> FALSE] : i \in DOMAIN js}
  BY DEF Calling!Rejected, Calling!Answer
<1>2. \A i \in DOMAIN js : js[i] \in Calls
  OBVIOUS
<1>3. In(js) = {js[i] : i \in DOMAIN js}
  BY <1>2 DEF In
<1>4. \A a : a \in Calling!Rejected(js) <=> \E i \in DOMAIN js : a = [call |-> js[i], ok |-> FALSE]
  BY <1>1, Zenon
<1>5. \A a \in Calling!Rejected(js) :
        a \in Answers /\ ~a.ok /\ a.call \in In(js) /\ a = [call |-> a.call, ok |-> FALSE]
  <2> SUFFICES ASSUME NEW i \in DOMAIN js, NEW a, a = [call |-> js[i], ok |-> FALSE]
               PROVE  a \in Answers /\ ~a.ok /\ a.call \in In(js) /\ a = [call |-> a.call, ok |-> FALSE]
    BY <1>4
  <2> QED BY <1>2, <1>3 DEF Answers
<1>6. \A c \in In(js) : [call |-> c, ok |-> FALSE] \in Calling!Rejected(js)
  BY <1>3, <1>4
<1>7. Answered(Calling!Rejected(js)) = In(js)
  <2>1. \A c \in In(js) : \E a \in Calling!Rejected(js) : a.call = c
    BY <1>6
  <2> QED BY <1>5, <2>1 DEF Answered
<1> QED BY <1>5, <1>7

\* One of the page's queues is replaced.
LEMMA QueuesSet ==
  ASSUME NEW pg \in Page, NEW q \in Seq(Calls)
  PROVE  /\ LET qg == [pg EXCEPT !.posting.queue = q]
            IN  /\ qg \in Page /\ qg.posting.queue = q /\ qg.live = pg.live
                /\ qg.admitted = pg.admitted /\ qg.requester = pg.requester
                /\ qg.pending = pg.pending /\ qg.answers = pg.answers
                /\ qg.delayed = pg.delayed
         /\ LET qg == [pg EXCEPT !.admitted.queue = q]
            IN  /\ qg \in Page /\ qg.admitted.queue = q /\ qg.live = pg.live
                /\ qg.posting = pg.posting /\ qg.requester = pg.requester
                /\ qg.pending = pg.pending /\ qg.answers = pg.answers
                /\ qg.delayed = pg.delayed
<1>1. ASSUME NEW p \in Processor
      PROVE  [p EXCEPT !.queue = q] \in Processor /\ [p EXCEPT !.queue = q].queue = q
  BY DEF Processor
<1>2. pg.posting \in Processor /\ pg.admitted \in Processor
  BY DEF Page
<1> HIDE DEF Processor
<1>3. ASSUME NEW p \in Processor
      PROVE  LET qg == [pg EXCEPT !.posting = p]
             IN  /\ qg \in Page /\ qg.posting = p /\ qg.live = pg.live
                 /\ qg.admitted = pg.admitted /\ qg.requester = pg.requester
                 /\ qg.pending = pg.pending /\ qg.answers = pg.answers
                 /\ qg.delayed = pg.delayed
  BY DEF Page
<1>4. ASSUME NEW p \in Processor
      PROVE  LET qg == [pg EXCEPT !.admitted = p]
             IN  /\ qg \in Page /\ qg.admitted = p /\ qg.live = pg.live
                 /\ qg.posting = pg.posting /\ qg.requester = pg.requester
                 /\ qg.pending = pg.pending /\ qg.answers = pg.answers
                 /\ qg.delayed = pg.delayed
  BY DEF Page
<1>5. [pg EXCEPT !.posting.queue = q] = [pg EXCEPT !.posting = [pg.posting EXCEPT !.queue = q]]
  BY <1>2 DEF Page
<1>6. [pg EXCEPT !.admitted.queue = q] = [pg EXCEPT !.admitted = [pg.admitted EXCEPT !.queue = q]]
  BY <1>2 DEF Page
<1> DEFINE p1 == [pg.posting EXCEPT !.queue = q]  p2 == [pg.admitted EXCEPT !.queue = q]
<1>7. p1 \in Processor /\ p1.queue = q /\ p2 \in Processor /\ p2.queue = q
  BY <1>1, <1>2
<1> HIDE DEF p1, p2
<1>8. LET qg == [pg EXCEPT !.posting = p1]
      IN  /\ qg \in Page /\ qg.posting.queue = q /\ qg.live = pg.live
          /\ qg.admitted = pg.admitted /\ qg.requester = pg.requester
          /\ qg.pending = pg.pending /\ qg.answers = pg.answers
          /\ qg.delayed = pg.delayed
  BY <1>3, <1>7
<1>9. LET qg == [pg EXCEPT !.admitted = p2]
      IN  /\ qg \in Page /\ qg.admitted.queue = q /\ qg.live = pg.live
          /\ qg.posting = pg.posting /\ qg.requester = pg.requester
          /\ qg.pending = pg.pending /\ qg.answers = pg.answers
          /\ qg.delayed = pg.delayed
  BY <1>4, <1>7
<1> QED BY <1>5, <1>6, <1>8, <1>9 DEF p1, p2

\* The answers A are added, perhaps of calls the Requester no longer awaits then.
LEMMA AnswersAdded ==
  ASSUME NEW pg, PageOnce(pg), NEW qg \in Page,
         qg.admitted = pg.admitted, qg.posting = pg.posting, qg.delayed = pg.delayed,
         qg.pending \subseteq pg.pending,
         NEW A \in SUBSET Answers, qg.answers = pg.answers \cup A,
         \A a, b \in A : a.call = b.call => a = b,
         Answered(A) \cap (Queued(pg) \cup qg.pending \cup Answered(pg.answers)) = {}
  PROVE  PageOnce(qg) /\ Awaited(qg) \subseteq Awaited(pg) \cup Answered(A)
<1>1. Answered(qg.answers) = Answered(pg.answers) \cup Answered(A)
  BY DEF Answered
<1>2. \A a, b \in qg.answers : a.call = b.call => a = b
  <2>1. \A a \in pg.answers, b \in A : a.call # b.call
    BY DEF Answered
  <2> QED BY <2>1 DEF PageOnce
<1>3. Queued(qg) = Queued(pg)
  BY DEF Queued
<1> QED BY <1>1, <1>2, <1>3 DEF PageOnce, Awaited

\* The jobs js are rejected, by either queue.
LEMMA RejectOnce ==
  ASSUME NEW pg, PageOnce(pg), NEW js \in Seq(Calls), Once(js),
         In(js) \cap (Queued(pg) \cup Awaited(pg) \cup Sent(pg.delayed)) = {}
  PROVE  Passes(pg, [pg EXCEPT !.answers = @ \cup Calling!Rejected(js)], In(js))
<1> DEFINE A == Calling!Rejected(js)  qg == [pg EXCEPT !.answers = @ \cup A]
<1>1. /\ A \in SUBSET Answers /\ Answered(A) = In(js) /\ \A a \in A : ~a.ok
      /\ \A a, b \in A : a.call = b.call => a = b
  BY RejectedCalls
<1> HIDE DEF A
<1>2. /\ qg \in Page
      /\ qg.admitted = pg.admitted /\ qg.posting = pg.posting /\ qg.pending = pg.pending
      /\ qg.answers = pg.answers \cup A /\ qg.delayed = pg.delayed
  BY <1>1 DEF PageOnce, Page
<1> HIDE DEF qg
<1>3. PageOnce(qg) /\ Awaited(qg) \subseteq Awaited(pg) \cup In(js)
  <2>1. Answered(A) \cap (Queued(pg) \cup qg.pending \cup Answered(pg.answers)) = {}
    BY <1>1, <1>2 DEF Awaited
  <2> QED BY <1>1, <1>2, <2>1, AnswersAdded
<1>4. Passes(pg, qg, In(js))
  BY <1>1, <1>2, <1>3 DEF Passes, Queued
<1> QED BY <1>4 DEF qg, A

LEMMA PostToServerOnce ==
  ASSUME NEW pg, PageOnce(pg), NEW js \in Seq(Calls), Once(js), {Create} \cap Calls = {},
         In(js) \cap (Queued(pg) \cup Awaited(pg) \cup Sent(pg.delayed)) = {}
  PROVE  Passes(pg, Calling!PostToServer(pg, js), In(js))
<1> DEFINE qg == Calling!PostToServer(pg, js)
           msgs == IF pg.requester = "none" THEN <<Create>> \o js ELSE js
           delayed == Calling!DelayedSend(pg.delayed, msgs)
<1>1. CASE js = <<>>
  BY <1>1 DEF Calling!PostToServer, Passes
<1>2. CASE js # <<>> /\ ~pg.live
  <2>1. qg = [pg EXCEPT !.failed = TRUE]
    BY <1>2 DEF Calling!PostToServer
  <2> HIDE DEF qg
  <2>2. /\ qg \in Page
        /\ qg.admitted = pg.admitted /\ qg.posting = pg.posting /\ qg.pending = pg.pending
        /\ qg.answers = pg.answers /\ qg.delayed = pg.delayed
    BY <2>1 DEF PageOnce, Page
  <2> QED BY <2>2 DEF Passes, PageOnce, Queued, Awaited, qg
<1>3. CASE js # <<>> /\ pg.live
  <2>1. qg = [pg EXCEPT !.requester = "live",
                        !.pending = @ \cup {js[i] : i \in DOMAIN js},
                        !.delayed = delayed]
    BY <1>3 DEF Calling!PostToServer
  <2>2. msgs \in Seq(Message) /\ Once(msgs) /\ In(msgs) = In(js)
    <3>1. Create \in Message /\ js \in Seq(Message) /\ Create \notin Calls
      BY SequenceOf DEF Message
    <3>2. /\ <<Create>> \o js \in Seq(Message) /\ Once(<<Create>> \o js)
          /\ In(<<Create>> \o js) = In(js)
      BY <3>1, InFirst, Zenon
    <3>3. msgs = <<Create>> \o js \/ msgs = js
      OBVIOUS
    <3> HIDE DEF msgs
    <3> QED BY <3>1, <3>2, <3>3, Zenon
  <2>3. DelayedOnce(delayed) /\ Sent(delayed) \subseteq Sent(pg.delayed) \cup In(js)
    <3>1. DelayedOnce(pg.delayed) /\ In(msgs) \cap Sent(pg.delayed) = {}
      BY <2>2 DEF PageOnce
    <3> HIDE DEF msgs
    <3> QED BY <2>2, <3>1, SendOnce
  <2>4. {js[i] : i \in DOMAIN js} = In(js)
    BY DEF In
  <2> HIDE DEF qg, delayed
  <2>5. /\ qg \in Page
        /\ qg.admitted = pg.admitted /\ qg.posting = pg.posting
        /\ qg.pending = pg.pending \cup In(js)
        /\ qg.answers = pg.answers /\ qg.delayed = delayed
    BY <2>1, <2>3, <2>4 DEF PageOnce, Page, DelayedOnce, In
  <2> QED BY <2>3, <2>5 DEF Passes, PageOnce, Queued, Awaited, qg
<1> QED BY <1>1, <1>2, <1>3

LEMMA FlushPostingOnce ==
  ASSUME NEW pg, PageOnce(pg), {Create} \cap Calls = {}
  PROVE  Passes(pg, Calling!FlushPosting(pg), {})
<1> DEFINE js == pg.posting.queue  qg == [pg EXCEPT !.posting.queue = <<>>]
<1>1. /\ qg \in Page /\ js \in Seq(Calls)
      /\ qg.admitted = pg.admitted /\ qg.posting.queue = <<>> /\ qg.pending = pg.pending
      /\ qg.answers = pg.answers /\ qg.delayed = pg.delayed
  <2>1. pg \in Page /\ js \in Seq(Calls) /\ <<>> \in Seq(Calls)
    BY DEF PageOnce, Page, Processor
  <2> QED BY <2>1, QueuesSet
<1> HIDE DEF qg
<1>2. /\ PageOnce(qg) /\ Queued(pg) = Queued(qg) \cup In(js) /\ Awaited(qg) = Awaited(pg)
      /\ Once(js) /\ In(js) \cap (Queued(qg) \cup Awaited(qg) \cup Sent(qg.delayed)) = {}
  BY <1>1, InEmpty DEF PageOnce, Queued, Awaited
<1>3. ASSUME NEW rg, Passes(qg, rg, In(js)) PROVE Passes(pg, rg, {})
  BY <1>1, <1>2, <1>3 DEF Passes
<1>4. Passes(pg, pg, {})
  BY DEF Passes
<1>5. /\ Passes(qg, [qg EXCEPT !.answers = @ \cup Calling!Rejected(js)], In(js))
      /\ Passes(qg, Calling!PostToServer(qg, js), In(js))
  BY <1>1, <1>2, RejectOnce, PostToServerOnce
<1>6. Calling!FlushPosting(pg) \in {pg, [qg EXCEPT !.answers = @ \cup Calling!Rejected(js)],
                                    Calling!PostToServer(qg, js)}
  BY DEF Calling!FlushPosting, qg
<1> QED BY <1>3, <1>4, <1>5, <1>6

LEMMA FlushAdmittedOnce ==
  ASSUME NEW pg, PageOnce(pg), {Create} \cap Calls = {}
  PROVE  Passes(pg, Calling!FlushAdmitted(pg), {})
<1> DEFINE js == pg.admitted.queue  qg == [pg EXCEPT !.admitted.queue = <<>>]
           rg == [qg EXCEPT !.posting.queue = @ \o js]
<1>1. /\ qg \in Page /\ js \in Seq(Calls)
      /\ qg.admitted.queue = <<>> /\ qg.posting = pg.posting /\ qg.pending = pg.pending
      /\ qg.answers = pg.answers /\ qg.delayed = pg.delayed
  <2>1. pg \in Page /\ js \in Seq(Calls) /\ <<>> \in Seq(Calls)
    BY DEF PageOnce, Page, Processor
  <2> QED BY <2>1, QueuesSet
<1> HIDE DEF qg
<1>2. /\ PageOnce(qg) /\ Queued(pg) = Queued(qg) \cup In(js) /\ Awaited(qg) = Awaited(pg)
      /\ Once(js) /\ In(js) \cap (Queued(qg) \cup Awaited(qg) \cup Sent(qg.delayed)) = {}
  BY <1>1, InEmpty DEF PageOnce, Queued, Awaited
<1>3. Passes(pg, pg, {})
  BY DEF Passes
<1>4. Passes(pg, [qg EXCEPT !.answers = @ \cup Calling!Rejected(js)], {})
  <2>1. Passes(qg, [qg EXCEPT !.answers = @ \cup Calling!Rejected(js)], In(js))
    BY <1>1, <1>2, RejectOnce
  <2> QED BY <1>1, <1>2, <2>1 DEF Passes
<1>5. Passes(pg, rg, {})
  <2>1. /\ qg.posting.queue \in Seq(Calls) /\ Once(qg.posting.queue)
        /\ In(qg.posting.queue) \cap In(js) = {}
    BY <1>1, <1>2 DEF PageOnce, Page, Processor, Queued
  <2>2. /\ qg.posting.queue \o js \in Seq(Calls) /\ Once(qg.posting.queue \o js)
        /\ In(qg.posting.queue \o js) = In(qg.posting.queue) \cup In(js)
    BY <1>1, <1>2, <2>1, InConcat
  <2>3. /\ rg \in Page
        /\ rg.admitted = qg.admitted /\ rg.posting.queue = qg.posting.queue \o js
        /\ rg.pending = qg.pending /\ rg.answers = qg.answers /\ rg.delayed = qg.delayed
    BY <1>1, <2>2 DEF Page, Processor
  <2> HIDE DEF rg
  <2>4. Queued(rg) = Queued(pg) /\ Awaited(rg) = Awaited(pg) /\ rg.delayed = pg.delayed
    BY <1>1, <1>2, <2>2, <2>3, InEmpty DEF Queued, Awaited
  <2>5. PageOnce(rg)
    BY <1>1, <1>2, <2>2, <2>3, <2>4, InEmpty DEF PageOnce
  <2> QED BY <1>1, <2>3, <2>4, <2>5 DEF Passes
<1>6. Passes(pg, Calling!FlushPosting(rg), {})
  <2>1. Passes(rg, Calling!FlushPosting(rg), {})
    BY <1>5, FlushPostingOnce DEF Passes
  <2> QED BY <1>5, <2>1, PassesOn
<1>7. Calling!FlushAdmitted(pg) \in {pg, [qg EXCEPT !.answers = @ \cup Calling!Rejected(js)],
                                     Calling!FlushPosting(rg)}
  BY DEF Calling!FlushAdmitted, qg
<1> QED BY <1>3, <1>4, <1>6, <1>7

LEMMA AddJobOnce ==
  ASSUME NEW pg, PageOnce(pg), {Create} \cap Calls = {}, NEW c \in Calls,
         c \notin Queued(pg) \cup Awaited(pg) \cup Sent(pg.delayed), NEW payload
  PROVE  Passes(pg, Calling!HandleRequest(pg, c, payload), {c})
<1> DEFINE js == pg.admitted.queue
           qg == [pg EXCEPT !.admitted.queue = Append(@, c)]
           rejection == Calling!Answer(c, FALSE)
           rg == [pg EXCEPT !.answers = @ \cup {rejection}]
<1>1. js \in Seq(Calls) /\ Once(js) /\ c \notin In(js) /\ {c} \cap Calls = {c}
  BY DEF PageOnce, Page, Processor, Queued
<1>2. /\ Append(js, c) \in Seq(Calls) /\ Once(Append(js, c))
      /\ In(Append(js, c)) = In(js) \cup {c}
  BY <1>1, InAppend
<1>3. Passes(pg, qg, {c})
  <2>1. /\ qg \in Page
        /\ qg.admitted.queue = Append(js, c) /\ qg.posting = pg.posting
        /\ qg.pending = pg.pending /\ qg.answers = pg.answers /\ qg.delayed = pg.delayed
    <3>1. pg \in Page
      BY DEF PageOnce
    <3> QED BY <1>2, <3>1, QueuesSet
  <2> HIDE DEF qg
  <2>2. Queued(qg) = Queued(pg) \cup {c} /\ Awaited(qg) = Awaited(pg)
    BY <1>2, <2>1 DEF Queued, Awaited
  <2>3. PageOnce(qg)
    BY <1>2, <2>1, <2>2 DEF PageOnce, Queued
  <2> QED BY <2>1, <2>2, <2>3 DEF Passes
<1>4. Passes(pg, Calling!FlushAdmitted(qg), {c})
  <2>1. Passes(qg, Calling!FlushAdmitted(qg), {})
    BY <1>3, FlushAdmittedOnce DEF Passes
  <2> QED BY <1>3, <2>1, PassesOn
<1>5. Passes(pg, rg, {c})
  <2>1. rejection \in Answers /\ rejection.call = c /\ ~rejection.ok
    BY DEF Answers, Calling!Answer
  <2> HIDE DEF rejection
  <2>2. /\ rg \in Page
        /\ rg.admitted = pg.admitted /\ rg.posting = pg.posting /\ rg.pending = pg.pending
        /\ rg.answers = pg.answers \cup {rejection} /\ rg.delayed = pg.delayed
    BY <2>1 DEF PageOnce, Page
  <2> HIDE DEF rg
  <2> DEFINE A == {rejection}
  <2>3. /\ A \in SUBSET Answers /\ \A a, b \in A : a.call = b.call => a = b
        /\ Answered(A) = {c} /\ rg.answers = pg.answers \cup A
    BY <2>1, <2>2 DEF Answered
  <2> HIDE DEF A
  <2>4. PageOnce(rg) /\ Awaited(rg) \subseteq Awaited(pg) \cup {c}
    <3>1. Answered(A) \cap (Queued(pg) \cup rg.pending \cup Answered(pg.answers)) = {}
      BY <2>2, <2>3 DEF Awaited
    <3> QED BY <2>2, <2>3, <3>1, AnswersAdded
  <2> QED BY <2>1, <2>2, <2>4 DEF Passes, Queued
<1> QED BY <1>4, <1>5 DEF Calling!HandleRequest, Calling!AddJob

LEMMA SendOther ==
  ASSUME NEW d, DelayedOnce(d), NEW m \in Message, m \notin Calls
  PROVE  /\ DelayedOnce(Calling!DelayedSend(d, <<m>>))
         /\ Sent(Calling!DelayedSend(d, <<m>>)) \subseteq Sent(d)
<1>1. ASSUME NEW js, js = <<m>>
      PROVE  /\ DelayedOnce(Calling!DelayedSend(d, js))
             /\ Sent(Calling!DelayedSend(d, js)) \subseteq Sent(d)
  <2>1. js \in Seq(Message)
    BY <1>1
  <2>2. In(js) = {} /\ Once(js)
    BY <1>1, InOne
  <2>3. In(js) \cap Sent(d) = {}
    BY <2>2
  <2>4. /\ DelayedOnce(Calling!DelayedSend(d, js))
        /\ Sent(Calling!DelayedSend(d, js)) \subseteq Sent(d) \cup In(js)
    BY <2>1, <2>2, <2>3, SendOnce
  <2> QED BY <2>2, <2>4
<1> QED BY <1>1

LEMMA DisposeOnce ==
  ASSUME NEW pg, PageOnce(pg), {Delete} \cap Calls = {}
  PROVE  Passes(pg, Calling!DisposeHandler(pg), {})
<1> DEFINE qg == Calling!DisposeHandler(pg)
           delayed == Calling!DelayedSend(pg.delayed, <<Delete>>)
<1>1. DelayedOnce(delayed) /\ Sent(delayed) \subseteq Sent(pg.delayed)
  <2>1. Delete \in Message /\ Delete \notin Calls /\ DelayedOnce(pg.delayed)
    BY DEF Message, PageOnce
  <2> QED BY <2>1, SendOther
<1> HIDE DEF delayed
<1>2. /\ qg.admitted = [settled |-> TRUE, disposed |-> TRUE, queue |-> <<>>]
      /\ qg.live = FALSE /\ qg.posting = pg.posting /\ qg.requester = "gone"
      /\ qg.pending = {} /\ qg.answers = {} /\ qg.failed = pg.failed
      /\ qg.delayed \in {pg.delayed, delayed}
      /\ qg = [live |-> qg.live, admitted |-> qg.admitted, posting |-> qg.posting,
               requester |-> qg.requester, pending |-> qg.pending, answers |-> qg.answers,
               delayed |-> qg.delayed, failed |-> qg.failed]
  <2> DEFINE next == IF pg.requester = "live" THEN delayed ELSE pg.delayed
             done == [settled |-> TRUE, disposed |-> TRUE, queue |-> <<>>]
  <2>1. qg = [pg EXCEPT !.live = FALSE, !.admitted = done, !.requester = "gone",
                        !.pending = {}, !.answers = {}, !.delayed = next]
    BY DEF Calling!DisposeHandler, delayed
  <2>2. next \in {pg.delayed, delayed} /\ pg \in Page
    BY DEF PageOnce
  <2> HIDE DEF qg, next, done
  <2>3. /\ qg.admitted = done /\ qg.delayed = next
        /\ qg.live = FALSE /\ qg.posting = pg.posting /\ qg.requester = "gone"
        /\ qg.pending = {} /\ qg.answers = {} /\ qg.failed = pg.failed
        /\ qg = [live |-> qg.live, admitted |-> qg.admitted, posting |-> qg.posting,
                 requester |-> qg.requester, pending |-> qg.pending, answers |-> qg.answers,
                 delayed |-> qg.delayed, failed |-> qg.failed]
    BY <2>1, <2>2 DEF Page
  <2> QED BY <2>2, <2>3 DEF done
<1> HIDE DEF qg
<1>3. /\ DelayedOnce(qg.delayed) /\ Sent(qg.delayed) \subseteq Sent(pg.delayed)
      /\ qg.delayed \in Delayed
  BY <1>1, <1>2 DEF PageOnce, DelayedOnce
<1>4. qg.admitted \in Processor /\ qg.admitted.queue = <<>>
  BY <1>2 DEF Processor
<1>5. qg \in Page
  <2>1. pg.posting \in Processor /\ pg.failed \in BOOLEAN
    BY DEF PageOnce, Page
  <2> QED BY <1>2, <1>3, <1>4, <2>1 DEF Page
<1>6. Queued(qg) \subseteq Queued(pg) /\ Awaited(qg) = {}
  BY <1>2, <1>4, InEmpty DEF Queued, Awaited, Answered
<1>7. PageOnce(qg)
  BY <1>2, <1>3, <1>4, <1>5, <1>6, InEmpty DEF PageOnce
<1> QED BY <1>2, <1>3, <1>6, <1>7 DEF Passes, qg

LEMMA DelayedOnceKept ==
  ASSUME NEW d, DelayedOnce(d)
  PROVE  LET e == Calling!SetReady(Calling!SetUnderlyingChannel(d))
             f == Calling!DisposeDelayed(d)
         IN  /\ DelayedOnce(e) /\ Sent(e) \subseteq Sent(d)
             /\ DelayedOnce(f) /\ Sent(f) \subseteq Sent(d)
<1> DEFINE e == Calling!SetReady(Calling!SetUnderlyingChannel(d))
           f == Calling!DisposeDelayed(d)
<1>0. d \in Delayed /\ d.pending \in Seq(Message) /\ d.passed \in Seq(Message)
  BY DEF DelayedOnce, Delayed
<1>1. DelayedOnce(e) /\ Sent(e) \subseteq Sent(d)
  <2>1. CASE d.disposed
    BY <2>1 DEF Calling!SetReady, Calling!SetUnderlyingChannel
  <2>2. CASE ~d.disposed
    <3>0. e = [[d EXCEPT !.linked = TRUE] EXCEPT !.ready = TRUE,
                 !.passed = @ \o [d EXCEPT !.linked = TRUE].pending, !.pending = <<>>]
      BY <1>0, <2>2 DEF Delayed, Calling!SetReady, Calling!SetUnderlyingChannel
    <3>1. /\ e.passed = d.passed \o d.pending /\ e.pending = <<>>
          /\ e.disposed = d.disposed /\ e.linked = TRUE /\ e.ready = TRUE
          /\ e = [disposed |-> e.disposed, linked |-> e.linked, ready |-> e.ready,
                  pending |-> e.pending, passed |-> e.passed]
      BY <1>0, <3>0 DEF Delayed
    <3> HIDE DEF e
    <3>2. In(d.passed) \cap In(d.pending) = {} /\ Once(d.passed) /\ Once(d.pending)
      BY DEF DelayedOnce
    <3>3. /\ e.passed \in Seq(Message) /\ Once(e.passed)
          /\ In(e.passed) = In(d.passed) \cup In(d.pending)
      <4>1. ASSUME NEW s \in Seq(Message), NEW t \in Seq(Message), s = d.passed, t = d.pending
            PROVE  s \o t \in Seq(Message) /\ Once(s \o t) /\ In(s \o t) = In(s) \cup In(t)
        <5>1. Once(s) /\ Once(t) /\ In(s) \cap In(t) = {}
          BY <3>2, <4>1
        <5> QED BY <5>1, InConcat
      <4> QED BY <1>0, <3>1, <4>1
    <3>4. e \in Delayed
      <4>1. e.pending \in Seq(Message)
        BY <3>1
      <4> QED BY <1>0, <3>1, <3>3, <4>1 DEF Delayed
    <3>5. In(e.pending) = {} /\ Once(e.pending)
      BY <3>1, InEmpty
    <3> QED BY <3>3, <3>4, <3>5 DEF DelayedOnce, Sent
  <2> QED BY <2>1, <2>2
<1>2. DelayedOnce(f) /\ Sent(f) \subseteq Sent(d)
  <2>1. f \in Delayed /\ f.passed = d.passed /\ f.pending = <<>>
    <3>1. <<>> \in Seq(Message)
      OBVIOUS
    <3> QED BY <1>0, <3>1 DEF Delayed, Calling!DisposeDelayed
  <2> HIDE DEF f
  <2>2. In(f.pending) = {} /\ Once(f.pending)
    BY <2>1, InEmpty
  <2> QED BY <2>1, <2>2 DEF DelayedOnce, Sent
<1> QED BY <1>1, <1>2

\* The delayed channel is replaced by one that has no call more.
LEMMA DelayedSet ==
  ASSUME NEW pg, PageOnce(pg), NEW d, DelayedOnce(d), Sent(d) \subseteq Sent(pg.delayed)
  PROVE  Passes(pg, [pg EXCEPT !.delayed = d], {})
<1> DEFINE qg == [pg EXCEPT !.delayed = d]
<1>1. /\ qg \in Page
      /\ qg.admitted = pg.admitted /\ qg.posting = pg.posting /\ qg.pending = pg.pending
      /\ qg.answers = pg.answers /\ qg.delayed = d
  BY DEF PageOnce, Page, DelayedOnce
<1> HIDE DEF qg
<1> QED BY <1>1 DEF Passes, PageOnce, Queued, Awaited, qg

-----------------------------------------------------------------------------
(* The inductive invariant of a call's road                                *)

\* The calls whose answers are in a queue, and that each is there once.
Told(s) == {c \in Calls : \E i \in DOMAIN s : s[i] \in Answers /\ s[i].call = c}
ToldOnce(s) ==
  \A i, j \in DOMAIN s :
    s[i] \in Answers /\ s[j] \in Answers /\ s[i].call = s[j].call => i = j

Settlement == {"none", "pending", "resolved", "rejected"}

\* The calls the module has executed.
Ran == {c \in Calls : executed[c] # 0}

CallsTypes ==
  /\ promise \in [Calls -> Settlement] /\ clientOpen \in BOOLEAN
  /\ toPage \in Seq(Message) /\ fromPage \in Seq(Answers \cup {Bye})
  /\ PageOnce(page)
  /\ executed \in [Calls -> {0, 1}] /\ working \subseteq Ran
  /\ fromModule \in Seq(Answers)

\* A call is at one place of the road, executed or not: what the module has executed
\* does not come again, and what was answered is not answered again.
CallsApart ==
  /\ Once(toPage) /\ ToldOnce(fromPage)
  /\ In(toPage) \cap (Queued(page) \cup Awaited(page) \cup Sent(page.delayed)) = {}
  /\ In(toPage) \cap (Told(fromPage) \cup Ran) = {}
  /\ Told(fromPage) \cap (Queued(page) \cup Awaited(page)) = {}
  /\ Ran \cap (Queued(page) \cup Sent(page.delayed)) = {}

\* Every call on the road is a posted one; while the client is there, it still waits
\* for those that can be answered.
CallsPosted ==
  /\ \A c \in In(toPage) \cup Queued(page) \cup Sent(page.delayed) \cup Ran :
       promise[c] # "none"
  /\ clientOpen =>
       \A c \in In(toPage) \cup Queued(page) \cup Awaited(page) \cup Told(fromPage) :
         promise[c] = "pending"

\* A result comes from the module, which executed the call.
ResultsOwn ==
  /\ \A a \in page.answers : a.ok => a.call \in Ran
  /\ \A i \in DOMAIN fromPage :
       fromPage[i] \in Answers /\ fromPage[i].ok => fromPage[i].call \in Ran
  /\ \A i \in DOMAIN fromModule : fromModule[i].ok => fromModule[i].call \in Ran

CallsInv == CallsTypes /\ CallsApart /\ CallsPosted /\ ResultsOwn

-----------------------------------------------------------------------------
\* A processor's promise settles; its queue waits for the flush that follows.
LEMMA SettledSet ==
  ASSUME NEW pg, PageOnce(pg), NEW b \in BOOLEAN
  PROVE  /\ Passes(pg, [pg EXCEPT !.admitted.settled = TRUE, !.admitted.disposed = b], {})
         /\ Passes(pg, [pg EXCEPT !.posting.settled = TRUE, !.posting.disposed = b], {})
<1>0. pg \in Page /\ pg.admitted \in Processor /\ pg.posting \in Processor
  BY DEF PageOnce, Page
<1>1. ASSUME NEW p \in Processor, NEW q, q = [p EXCEPT !.settled = TRUE, !.disposed = b]
      PROVE  q \in Processor /\ q.queue = p.queue
  BY <1>1 DEF Processor
<1>2. ASSUME NEW p \in Processor, p.queue = pg.admitted.queue,
             NEW qg, qg = [pg EXCEPT !.admitted = p]
      PROVE  Passes(pg, qg, {})
  <2>1. /\ qg \in Page
        /\ qg.admitted = p /\ qg.posting = pg.posting /\ qg.pending = pg.pending
        /\ qg.answers = pg.answers /\ qg.delayed = pg.delayed
    BY <1>0, <1>2 DEF Page
  <2> QED BY <1>2, <2>1 DEF Passes, PageOnce, Queued, Awaited
<1>3. ASSUME NEW p \in Processor, p.queue = pg.posting.queue,
             NEW qg, qg = [pg EXCEPT !.posting = p]
      PROVE  Passes(pg, qg, {})
  <2>1. /\ qg \in Page
        /\ qg.admitted = pg.admitted /\ qg.posting = p /\ qg.pending = pg.pending
        /\ qg.answers = pg.answers /\ qg.delayed = pg.delayed
    BY <1>0, <1>3 DEF Page
  <2> QED BY <1>3, <2>1 DEF Passes, PageOnce, Queued, Awaited
<1>4. [pg EXCEPT !.admitted.settled = TRUE, !.admitted.disposed = b]
        = [pg EXCEPT !.admitted = [pg.admitted EXCEPT !.settled = TRUE, !.disposed = b]]
  BY <1>0 DEF Page, Processor
<1>5. [pg EXCEPT !.posting.settled = TRUE, !.posting.disposed = b]
        = [pg EXCEPT !.posting = [pg.posting EXCEPT !.settled = TRUE, !.disposed = b]]
  BY <1>0 DEF Page, Processor
<1> QED BY <1>0, <1>1, <1>2, <1>3, <1>4, <1>5

LEMMA ToldAppend ==
  ASSUME NEW s \in Seq(Answers \cup {Bye}), ToldOnce(s), Bye \notin Answers
  PROVE  /\ Append(s, Bye) \in Seq(Answers \cup {Bye})
         /\ Told(Append(s, Bye)) = Told(s) /\ ToldOnce(Append(s, Bye))
         /\ \A a \in Answers : a.call \notin Told(s) =>
              /\ Append(s, a) \in Seq(Answers \cup {Bye})
              /\ Told(Append(s, a)) = Told(s) \cup {a.call} /\ ToldOnce(Append(s, a))
<1>1. ASSUME NEW m \in Answers \cup {Bye}
      PROVE  /\ Append(s, m) \in Seq(Answers \cup {Bye})
             /\ DOMAIN Append(s, m) = DOMAIN s \cup {Len(s) + 1}
             /\ Len(s) + 1 \notin DOMAIN s
             /\ \A i \in DOMAIN s : Append(s, m)[i] = s[i]
             /\ Append(s, m)[Len(s) + 1] = m
  OBVIOUS
<1>2. \A a \in Answers : a.call \in Calls
  BY DEF Answers
<1>3. Told(Append(s, Bye)) = Told(s) /\ ToldOnce(Append(s, Bye))
  BY <1>1 DEF Told, ToldOnce
<1>4. ASSUME NEW a \in Answers, a.call \notin Told(s)
      PROVE  Told(Append(s, a)) = Told(s) \cup {a.call} /\ ToldOnce(Append(s, a))
  BY <1>1, <1>2, <1>4 DEF Told, ToldOnce
<1> QED BY <1>1, <1>3, <1>4

LEMMA ToldTail ==
  ASSUME NEW s \in Seq(Answers \cup {Bye}), ToldOnce(s), s # <<>>
  PROVE  /\ Tail(s) \in Seq(Answers \cup {Bye}) /\ Head(s) \in Answers \cup {Bye}
         /\ Told(Tail(s)) \subseteq Told(s) /\ ToldOnce(Tail(s))
         /\ Head(s) \in Answers =>
              Head(s).call \in Told(s) /\ Head(s).call \notin Told(Tail(s))
         /\ \A i \in DOMAIN Tail(s) : i + 1 \in DOMAIN s /\ Tail(s)[i] = s[i + 1]
<1>1. /\ Tail(s) \in Seq(Answers \cup {Bye}) /\ 1 \in DOMAIN s /\ Head(s) = s[1]
      /\ \A i \in DOMAIN Tail(s) : i \in Nat /\ i + 1 # 1 /\ i + 1 \in DOMAIN s /\ Tail(s)[i] = s[i + 1]
      /\ s[1] \in Answers \cup {Bye}
  OBVIOUS
<1>2. \A a \in Answers : a.call \in Calls
  BY DEF Answers
<1>3. Told(Tail(s)) \subseteq Told(s)
  BY <1>1 DEF Told
<1>4. ToldOnce(Tail(s))
  BY <1>1 DEF ToldOnce
<1>5. Head(s) \in Answers => Head(s).call \in Told(s) /\ Head(s).call \notin Told(Tail(s))
  BY <1>1, <1>2 DEF Told, ToldOnce
<1> QED BY <1>1, <1>3, <1>4, <1>5

LEMMA RanKept == ASSUME UNCHANGED executed PROVE Ran' = Ran
BY DEF Ran

\* The page goes on, with what it takes off the client's channel; it may say goodbye.
LEMMA PageGoesOn ==
  ASSUME CallsInv, Calling!CallsAssumption, NEW C \in SUBSET In(toPage), Passes(page, page', C),
         toPage' \in Seq(Message), Once(toPage'), In(toPage') \subseteq In(toPage) \ C,
         fromPage' \in {fromPage, Append(fromPage, Bye)},
         fromModule' \in {fromModule, <<>>}, working' \in {working, {}},
         UNCHANGED <<promise, clientOpen, executed>>
  PROVE  CallsInv'
<1>0. Bye \notin Answers
  BY DEF Calling!CallsAssumption, Answers
<1>1. /\ fromPage' \in Seq(Answers \cup {Bye}) /\ ToldOnce(fromPage')
      /\ Told(fromPage') = Told(fromPage)
  BY <1>0, ToldAppend DEF CallsInv, CallsTypes, CallsApart
<1>2. \A i \in DOMAIN fromPage' :
        fromPage'[i] \in Answers => i \in DOMAIN fromPage /\ fromPage'[i] = fromPage[i]
  <2>1. CASE fromPage' = fromPage
    BY <2>1
  <2>2. CASE fromPage' = Append(fromPage, Bye)
    <3>1. fromPage \in Seq(Answers \cup {Bye})
      BY DEF CallsInv, CallsTypes
    <3>2. /\ DOMAIN fromPage' = DOMAIN fromPage \cup {Len(fromPage) + 1}
          /\ \A i \in DOMAIN fromPage : fromPage'[i] = fromPage[i]
          /\ fromPage'[Len(fromPage) + 1] = Bye
      BY <2>2, <3>1
    <3> QED BY <1>0, <3>2
  <2> QED BY <2>1, <2>2
<1>3. /\ Queued(page') \cup Awaited(page') \subseteq Queued(page) \cup Awaited(page) \cup C
      /\ Queued(page') \cup Sent(page'.delayed) \subseteq Queued(page) \cup Sent(page.delayed) \cup C
      /\ \A a \in page'.answers : a.ok => a \in page.answers
      /\ PageOnce(page')
  BY DEF Passes
<1>4. CallsTypes'
  <2>1. <<>> \in Seq(Answers)
    OBVIOUS
  <2>2. fromModule' \in Seq(Answers)
    BY <2>1 DEF CallsInv, CallsTypes
  <2> QED BY <1>1, <1>3, <2>2, RanKept DEF CallsInv, CallsTypes
<1>5. CallsApart'
  <2>1. In(toPage') \cap (Queued(page') \cup Awaited(page') \cup Sent(page'.delayed)) = {}
    BY <1>3 DEF CallsInv, CallsApart
  <2>2. In(toPage') \cap (Told(fromPage') \cup Ran) = {}
    BY <1>1 DEF CallsInv, CallsApart
  <2>3. Told(fromPage') \cap (Queued(page') \cup Awaited(page')) = {}
    BY <1>1, <1>3 DEF CallsInv, CallsApart
  <2>4. Ran \cap (Queued(page') \cup Sent(page'.delayed)) = {}
    BY <1>3 DEF CallsInv, CallsApart
  <2> QED BY <1>1, <2>1, <2>2, <2>3, <2>4, RanKept DEF CallsApart
<1>6. CallsPosted'
  <2>1. In(toPage') \cup Queued(page') \cup Sent(page'.delayed) \cup Ran
          \subseteq In(toPage) \cup Queued(page) \cup Sent(page.delayed) \cup Ran
    BY <1>3
  <2>2. In(toPage') \cup Queued(page') \cup Awaited(page') \cup Told(fromPage')
          \subseteq In(toPage) \cup Queued(page) \cup Awaited(page) \cup Told(fromPage)
    BY <1>1, <1>3
  <2> QED BY <2>1, <2>2, RanKept DEF CallsInv, CallsPosted
<1>7. ResultsOwn'
  <2>1. \A i \in DOMAIN fromModule' : i \in DOMAIN fromModule /\ fromModule'[i] = fromModule[i]
    OBVIOUS
  <2> QED BY <1>2, <1>3, <2>1, RanKept DEF CallsInv, ResultsOwn
<1> QED BY <1>4, <1>5, <1>6, <1>7 DEF CallsInv

-----------------------------------------------------------------------------
(* Each step keeps the invariant and is a step, or a stutter, of RemoteCalls *)

AbstractStep == Calling!Abstract!Next \/ UNCHANGED Calling!Abstract!vars

LEMMA PageStutters ==
  ASSUME UNCHANGED <<promise, executed>> PROVE AbstractStep
BY DEF AbstractStep, Calling!Abstract!vars

LEMMA DropRejects ==
  ASSUME promise \in [Calls -> Settlement], promise' = Calling!Drop(promise),
         UNCHANGED executed
  PROVE  AbstractStep /\ promise' \in [Calls -> Settlement]
         /\ \A c \in Calls : promise[c] # "none" => promise'[c] # "none"
<1> DEFINE C == {c \in Calls : promise[c] = "pending"}
<1>1. promise' = [c \in Calls |-> IF c \in C THEN "rejected" ELSE promise[c]]
  BY DEF Calling!Drop
<1>2. C \in SUBSET Calls /\ \A c \in C : promise[c] \in {"none", "pending"}
  OBVIOUS
<1>3. Calling!Abstract!Reject(C)
  BY <1>1, <1>2 DEF Calling!Abstract!Reject
<1>4. Calling!Abstract!Next
  BY <1>2, <1>3 DEF Calling!Abstract!Next
<1>5. \A c \in Calls : promise'[c] \in {promise[c], "rejected"}
  BY <1>1
<1>6. promise' \in [Calls -> Settlement]
  BY <1>1 DEF Settlement
<1> QED BY <1>4, <1>5, <1>6 DEF AbstractStep

LEMMA RejectsOne ==
  ASSUME promise \in [Calls -> Settlement], NEW c \in Calls, promise[c] \in {"none", "pending"},
         promise' = [promise EXCEPT ![c] = "rejected"], UNCHANGED executed
  PROVE  AbstractStep
<1>1. /\ promise' = [d \in Calls |-> IF d \in {c} THEN "rejected" ELSE promise[d]]
      /\ \A d \in {c} : promise[d] \in {"none", "pending"}
  OBVIOUS
<1>2. Calling!Abstract!Reject({c})
  BY <1>1 DEF Calling!Abstract!Reject
<1>3. {c} \in SUBSET Calls
  OBVIOUS
<1> QED BY <1>2, <1>3 DEF AbstractStep, Calling!Abstract!Next

LEMMA PostStep ==
  ASSUME CallsInv, NEW c \in Calls, Calling!Post(c)
  PROVE  CallsInv' /\ AbstractStep
<1>1. /\ promise[c] = "none" /\ promise \in [Calls -> Settlement]
      /\ UNCHANGED <<clientOpen, fromPage, page, module, working, fromModule, executed>>
  BY DEF Calling!Post, CallsInv, CallsTypes
<1>2. CASE ~clientOpen
  <2>1. promise' = [promise EXCEPT ![c] = "rejected"] /\ toPage' = toPage
    BY <1>2 DEF Calling!Post
  <2>2. promise' \in [Calls -> Settlement]
    BY <1>1, <2>1 DEF Settlement
  <2>3. \A d \in Calls : promise[d] # "none" => promise'[d] # "none"
    BY <1>1, <2>1
  <2>4. CallsTypes' /\ CallsApart' /\ ResultsOwn'
    BY <1>1, <2>1, <2>2, RanKept DEF CallsInv, CallsTypes, CallsApart, ResultsOwn
  <2>5. In(toPage) \cup Queued(page) \cup Sent(page.delayed) \cup Ran \subseteq Calls
    BY DEF CallsInv, CallsTypes, Ran, In, Queued, Sent
  <2>6. CallsPosted'
    BY <1>1, <1>2, <2>1, <2>3, <2>5, RanKept DEF CallsInv, CallsPosted
  <2>7. AbstractStep
    BY <1>1, <2>1, RejectsOne
  <2> QED BY <2>4, <2>6, <2>7 DEF CallsInv
<1>3. CASE clientOpen
  <2>1. promise' = [promise EXCEPT ![c] = "pending"] /\ toPage' = Append(toPage, c)
    BY <1>3 DEF Calling!Post
  <2>2. /\ promise' \in [Calls -> Settlement] /\ promise'[c] = "pending"
        /\ \A d \in Calls \ {c} : promise'[d] = promise[d]
    BY <1>1, <2>1 DEF Settlement
  <2>3. c \notin In(toPage) \cup Queued(page) \cup Awaited(page) \cup Sent(page.delayed)
                   \cup Told(fromPage) \cup Ran
    BY <1>1, <1>3 DEF CallsInv, CallsPosted
  <2>4. toPage \in Seq(Message) /\ Once(toPage) /\ c \in Message /\ {c} \cap Calls = {c}
    BY DEF CallsInv, CallsTypes, CallsApart, Message
  <2>5. /\ toPage' \in Seq(Message) /\ Once(toPage')
        /\ In(toPage') = In(toPage) \cup {c}
    BY <2>1, <2>3, <2>4, InAppend
  <2>6. CallsTypes' /\ ResultsOwn'
    BY <1>1, <2>2, <2>5, RanKept DEF CallsInv, CallsTypes, ResultsOwn
  <2>7. CallsApart'
    BY <1>1, <2>3, <2>5, RanKept DEF CallsInv, CallsApart
  <2>8. \A d : d \in In(toPage) \cup Queued(page) \cup Awaited(page) \cup Sent(page.delayed)
                      \cup Told(fromPage) \cup Ran => d \in Calls \ {c}
    BY <2>3 DEF CallsInv, CallsTypes, Ran, In, Queued, Sent, Told, Awaited, Answered,
                PageOnce, Page, Answers
  <2>9. CallsPosted'
    BY <1>1, <2>2, <2>5, <2>8, RanKept DEF CallsInv, CallsPosted
  <2>10. AbstractStep
    <3>1. Calling!Abstract!Post(c)
      BY <1>1, <2>1 DEF Calling!Abstract!Post
    <3> QED BY <3>1 DEF AbstractStep, Calling!Abstract!Next
  <2> QED BY <2>6, <2>7, <2>9, <2>10 DEF CallsInv
<1> QED BY <1>2, <1>3

\* The client is gone, and with it what it waited for.
LEMMA ClientGone ==
  ASSUME CallsInv, clientOpen' = FALSE, promise' = Calling!Drop(promise),
         toPage' \in Seq(Message), Once(toPage'), In(toPage') = In(toPage),
         fromPage' \in Seq(Answers \cup {Bye}), ToldOnce(fromPage'),
         Told(fromPage') \subseteq Told(fromPage),
         \A i \in DOMAIN fromPage' : \E j \in DOMAIN fromPage : fromPage'[i] = fromPage[j],
         UNCHANGED <<page, module, working, fromModule, executed>>
  PROVE  CallsInv' /\ AbstractStep
<1>1. promise \in [Calls -> Settlement]
  BY DEF CallsInv, CallsTypes
<1>2. /\ AbstractStep /\ promise' \in [Calls -> Settlement]
      /\ \A c \in Calls : promise[c] # "none" => promise'[c] # "none"
  BY <1>1, DropRejects
<1>3. CallsTypes'
  BY <1>2, RanKept DEF CallsInv, CallsTypes
<1>4. CallsApart'
  BY RanKept DEF CallsInv, CallsApart
<1>5. In(toPage) \cup Queued(page) \cup Sent(page.delayed) \cup Ran \subseteq Calls
  BY DEF CallsInv, CallsTypes, Ran, In, Queued, Sent
<1>6. CallsPosted'
  BY <1>2, <1>5, RanKept DEF CallsInv, CallsPosted
<1>7. ResultsOwn'
  BY RanKept DEF CallsInv, ResultsOwn
<1> QED BY <1>2, <1>3, <1>4, <1>6, <1>7 DEF CallsInv

LEMMA ClientLeavesStep ==
  ASSUME CallsInv, Calling!CallsAssumption, Calling!ClientLeaves
  PROVE  CallsInv' /\ AbstractStep
<1>1. toPage \in Seq(Message) /\ Once(toPage) /\ Bye \in Message /\ Bye \notin Calls
  BY DEF CallsInv, CallsTypes, CallsApart, Message, Calling!CallsAssumption
<1>2. /\ toPage' = Append(toPage, Bye) /\ clientOpen' = FALSE /\ promise' = Calling!Drop(promise)
      /\ UNCHANGED <<fromPage, page, module, working, fromModule, executed>>
  BY DEF Calling!ClientLeaves
<1>3. Bye \notin In(toPage) /\ {Bye} \cap Calls = {}
  BY <1>1 DEF In
<1>4. toPage' \in Seq(Message) /\ Once(toPage') /\ In(toPage') = In(toPage)
  <2>1. /\ Append(toPage, Bye) \in Seq(Message) /\ Once(Append(toPage, Bye))
        /\ In(Append(toPage, Bye)) = In(toPage) \cup ({Bye} \cap Calls)
    BY <1>1, <1>3, InAppend, Zenon
  <2> QED BY <1>2, <1>3, <2>1
<1>5. fromPage \in Seq(Answers \cup {Bye}) /\ ToldOnce(fromPage)
  BY DEF CallsInv, CallsTypes, CallsApart
<1> QED BY <1>2, <1>4, <1>5, ClientGone

LEMMA ClientSendsJunkStep ==
  ASSUME CallsInv, Calling!CallsAssumption, Calling!ClientSendsJunk
  PROVE  CallsInv' /\ AbstractStep
<1>1. /\ toPage = <<>> /\ toPage' = <<Junk>>
      /\ UNCHANGED <<promise, clientOpen, fromPage, page, module, working, fromModule, executed>>
  BY DEF Calling!ClientSendsJunk
<1>2. In(toPage') = {} /\ Once(toPage')
  BY <1>1, InOne DEF Calling!CallsAssumption
<1>3. toPage' \in Seq(Message)
  BY <1>1 DEF Message
<1>4. CallsTypes'
  <2>1. UNCHANGED <<promise, clientOpen, fromPage, page, working, fromModule, executed>>
    BY <1>1
  <2> QED BY <1>3, <2>1, RanKept DEF CallsInv, CallsTypes
<1>5. CallsApart'
  BY <1>1, <1>2, RanKept DEF CallsInv, CallsApart
<1>6. CallsPosted'
  BY <1>1, <1>2, RanKept DEF CallsInv, CallsPosted
<1>7. ResultsOwn'
  BY <1>1, RanKept DEF CallsInv, ResultsOwn
<1> QED BY <1>1, <1>4, <1>5, <1>6, <1>7, PageStutters DEF CallsInv

LEMMA ClientReceivesStep ==
  ASSUME CallsInv, Calling!CallsAssumption, Calling!ClientReceives
  PROVE  CallsInv' /\ AbstractStep
<1> DEFINE m == Head(fromPage)
<1>1. /\ fromPage # <<>> /\ fromPage' = Tail(fromPage)
      /\ UNCHANGED <<toPage, page, module, working, fromModule, executed>>
  BY DEF Calling!ClientReceives
<1>2. /\ fromPage' \in Seq(Answers \cup {Bye}) /\ m \in Answers \cup {Bye}
      /\ Told(fromPage') \subseteq Told(fromPage) /\ ToldOnce(fromPage')
      /\ m \in Answers => m.call \in Told(fromPage) /\ m.call \notin Told(fromPage')
      /\ \A i \in DOMAIN fromPage' : i + 1 \in DOMAIN fromPage /\ fromPage'[i] = fromPage[i + 1]
      /\ 1 \in DOMAIN fromPage /\ m = fromPage[1]
  <2>1. fromPage \in Seq(Answers \cup {Bye}) /\ ToldOnce(fromPage)
    BY DEF CallsInv, CallsTypes, CallsApart
  <2> QED BY <1>1, <2>1, ToldTail
<1>3. ~Calling!IsAnswer(m) <=> m \notin Answers
  BY DEF Calling!IsAnswer, Answers
<1> HIDE DEF m
<1>4. \A i \in DOMAIN fromPage' : \E j \in DOMAIN fromPage : fromPage'[i] = fromPage[j]
  BY <1>2
<1>5. CASE m \notin Answers
  <2>1. clientOpen' = FALSE /\ promise' = Calling!Drop(promise)
    BY <1>3, <1>5 DEF Calling!ClientReceives, m
  <2>2. toPage' \in Seq(Message) /\ Once(toPage') /\ In(toPage') = In(toPage)
    BY <1>1 DEF CallsInv, CallsTypes, CallsApart
  <2> QED BY <1>1, <1>2, <1>4, <2>1, <2>2, ClientGone
<1>6. CASE m \in Answers
  <2>1. /\ promise' = IF clientOpen
                      THEN [promise EXCEPT ![m.call] = IF m.ok THEN "resolved" ELSE "rejected"]
                      ELSE promise
        /\ UNCHANGED clientOpen
    BY <1>3, <1>6 DEF Calling!ClientReceives, m
  <2>2. m.call \in Calls /\ promise \in [Calls -> Settlement] /\ (m.ok => m.call \in Ran)
    BY <1>2, <1>6 DEF CallsInv, CallsTypes, ResultsOwn, Answers
  <2>3. m.call \notin In(toPage) \cup Queued(page) \cup Awaited(page) \cup Told(fromPage')
    BY <1>2, <1>6 DEF CallsInv, CallsApart
  <2>4. /\ promise' \in [Calls -> Settlement]
        /\ \A c \in Calls : promise'[c] \in {promise[c], "resolved", "rejected"}
        /\ \A c \in Calls : c # m.call => promise'[c] = promise[c]
    BY <2>1, <2>2 DEF Settlement
  <2>5. CallsTypes' /\ CallsApart'
    BY <1>1, <1>2, <2>1, <2>4, RanKept DEF CallsInv, CallsTypes, CallsApart
  <2>6. /\ In(toPage) \cup Queued(page) \cup Sent(page.delayed) \cup Ran \subseteq Calls
        /\ In(toPage) \cup Queued(page) \cup Awaited(page) \cup Told(fromPage') \subseteq Calls
    BY DEF CallsInv, CallsTypes, Ran, In, Queued, Sent, Told, Awaited, Answered, PageOnce, Page, Answers
  <2>7. \A c \in In(toPage) \cup Queued(page) \cup Awaited(page) \cup Told(fromPage') :
          promise'[c] = promise[c]
    BY <2>3, <2>4, <2>6
  <2>8. CallsPosted'
    <3>1. \A c \in In(toPage) \cup Queued(page) \cup Sent(page.delayed) \cup Ran :
            promise'[c] # "none"
      BY <2>4, <2>6 DEF CallsInv, CallsPosted
    <3>2. clientOpen => \A c \in In(toPage) \cup Queued(page) \cup Awaited(page) \cup Told(fromPage') :
                          promise'[c] = "pending"
      BY <1>2, <2>7 DEF CallsInv, CallsPosted
    <3> QED BY <1>1, <2>1, <3>1, <3>2, RanKept DEF CallsPosted
  <2>9. ResultsOwn'
    BY <1>1, <1>4, RanKept DEF CallsInv, ResultsOwn
  <2>10. AbstractStep
    <3>1. CASE ~clientOpen
      BY <1>1, <2>1, <3>1, PageStutters
    <3>2. CASE clientOpen
      <4>1. promise[m.call] = "pending"
        BY <1>2, <1>6, <3>2 DEF CallsInv, CallsPosted
      <4>2. CASE m.ok
        <5>1. Calling!Abstract!Resolve(m.call)
          BY <1>1, <2>1, <2>2, <3>2, <4>1, <4>2 DEF CallsInv, CallsTypes, Ran, Calling!Abstract!Resolve
        <5> QED BY <2>2, <5>1 DEF AbstractStep, Calling!Abstract!Next
      <4>3. CASE ~m.ok
        <5>1. promise' = [promise EXCEPT ![m.call] = "rejected"]
          BY <2>1, <3>2, <4>3
        <5> QED BY <1>1, <2>2, <4>1, <5>1, RejectsOne
      <4> QED BY <4>2, <4>3
    <3> QED BY <3>1, <3>2
  <2> QED BY <2>5, <2>8, <2>9, <2>10 DEF CallsInv
<1> QED BY <1>5, <1>6

-----------------------------------------------------------------------------
\* What only the page does, with nothing or with the next message of the client.
LEMMA PageStep ==
  ASSUME CallsInv, Calling!CallsAssumption, NEW C \in SUBSET In(toPage), Passes(page, page', C),
         toPage' \in Seq(Message), Once(toPage'), In(toPage') \subseteq In(toPage) \ C,
         fromPage' \in {fromPage, Append(fromPage, Bye)},
         fromModule' \in {fromModule, <<>>}, working' \in {working, {}},
         UNCHANGED <<promise, clientOpen, executed>>
  PROVE  CallsInv' /\ AbstractStep
<1>1. CallsInv'
  BY PageGoesOn
<1>2. AbstractStep
  BY PageStutters
<1> QED BY <1>1, <1>2

LEMMA PageReceivesStep ==
  ASSUME CallsInv, Calling!CallsAssumption, NEW payload, Calling!PageReceives(payload)
  PROVE  CallsInv' /\ AbstractStep
<1> DEFINE m == Head(toPage)
<1>1. /\ toPage # <<>> /\ toPage' = Tail(toPage)
      /\ UNCHANGED <<promise, clientOpen, module, working, fromModule, executed>>
      /\ fromPage' \in {fromPage, Append(fromPage, Bye)}
  BY DEF Calling!PageReceives
<1>2. toPage \in Seq(Message) /\ Once(toPage) /\ PageOnce(page)
  BY DEF CallsInv, CallsTypes, CallsApart
<1>3. /\ m \in Message /\ toPage' \in Seq(Message) /\ Once(toPage')
      /\ In(toPage') = In(toPage) \ {m} /\ (m \in Calls => m \in In(toPage))
  BY <1>1, <1>2, InTail
<1>4. Passes(page, page, {})
  BY <1>2 DEF Passes
<1>5. Passes(page, Calling!DisposeHandler(page), {})
  BY <1>2, DisposeOnce DEF Calling!CallsAssumption
<1>6. m \in Calls => Passes(page, Calling!HandleRequest(page, m, payload), {m})
  <2>1. m \in Calls => m \notin Queued(page) \cup Awaited(page) \cup Sent(page.delayed)
    BY <1>3 DEF CallsInv, CallsApart
  <2>2. {Create} \cap Calls = {}
    BY DEF Calling!CallsAssumption
  <2> HIDE DEF m
  <2> QED BY <1>2, <2>1, <2>2, AddJobOnce
<1>7. \/ page' \in {page, Calling!DisposeHandler(page)}
      \/ m \in Calls /\ page' = Calling!HandleRequest(page, m, payload)
  BY DEF Calling!PageReceives, Calling!IsRequest, Calling!DefaultServiceCallback
<1> HIDE DEF m
<1>8. CASE page' \in {page, Calling!DisposeHandler(page)}
  <2>1. Passes(page, page', {})
    BY <1>4, <1>5, <1>8
  <2>2. {} \in SUBSET In(toPage) /\ In(toPage') \subseteq In(toPage) \ {}
    BY <1>3
  <2> QED BY <1>1, <1>3, <2>1, <2>2, PageStep
<1>9. CASE m \in Calls /\ page' = Calling!HandleRequest(page, m, payload)
  <2>1. Passes(page, page', {m}) /\ {m} \in SUBSET In(toPage)
    BY <1>3, <1>6, <1>9
  <2> QED BY <1>1, <1>3, <2>1, PageStep
<1> QED BY <1>7, <1>8, <1>9

\* The same, when no message comes.
LEMMA PageAlone ==
  ASSUME CallsInv, Calling!CallsAssumption, Passes(page, page', {}),
         fromPage' \in {fromPage, Append(fromPage, Bye)},
         fromModule' \in {fromModule, <<>>}, working' \in {working, {}},
         UNCHANGED <<promise, clientOpen, toPage, executed>>
  PROVE  CallsInv' /\ AbstractStep
<1>1. /\ {} \in SUBSET In(toPage) /\ In(toPage') \subseteq In(toPage) \ {}
      /\ toPage' \in Seq(Message) /\ Once(toPage')
  BY DEF CallsInv, CallsTypes, CallsApart
<1> QED BY <1>1, PageStep

LEMMA SettlesStep ==
  ASSUME CallsInv, Calling!CallsAssumption,
         Calling!ServerSettles \/ \E ok \in BOOLEAN : Calling!PermissionSettles(ok)
  PROVE  CallsInv' /\ AbstractStep
<1>1. /\ UNCHANGED <<promise, clientOpen, toPage, fromPage, working, fromModule, executed>>
      /\ \E b \in BOOLEAN :
           \/ page' = Calling!FlushAdmitted([page EXCEPT !.admitted.settled = TRUE,
                                                         !.admitted.disposed = b])
           \/ page' = Calling!FlushPosting([page EXCEPT !.posting.settled = TRUE,
                                                        !.posting.disposed = b])
  <2>1. CASE Calling!ServerSettles
    <3>1. (module = "gone") \in BOOLEAN
      OBVIOUS
    <3> QED BY ONLY <2>1, <3>1, Zenon DEF Calling!ServerSettles
  <2>2. CASE \E ok \in BOOLEAN : Calling!PermissionSettles(ok)
    <3>1. PICK ok \in BOOLEAN : Calling!PermissionSettles(ok)
      BY <2>2
    <3>2. (~ok) \in BOOLEAN
      OBVIOUS
    <3> QED BY ONLY <3>1, <3>2, Zenon DEF Calling!PermissionSettles
  <2> QED BY <2>1, <2>2
<1>2. PageOnce(page) /\ {Create} \cap Calls = {}
  BY DEF CallsInv, CallsTypes, Calling!CallsAssumption
<1>3. ASSUME NEW qg, Passes(page, qg, {})
      PROVE  /\ Passes(page, Calling!FlushAdmitted(qg), {})
             /\ Passes(page, Calling!FlushPosting(qg), {})
  <2>1. /\ Passes(qg, Calling!FlushAdmitted(qg), {})
        /\ Passes(qg, Calling!FlushPosting(qg), {})
    BY <1>2, <1>3, FlushAdmittedOnce, FlushPostingOnce DEF Passes
  <2> QED BY <1>3, <2>1, PassesOn
<1>4. Passes(page, page', {})
  <2>1. \A b \in BOOLEAN :
          /\ Passes(page, [page EXCEPT !.admitted.settled = TRUE, !.admitted.disposed = b], {})
          /\ Passes(page, [page EXCEPT !.posting.settled = TRUE, !.posting.disposed = b], {})
    BY <1>2, SettledSet
  <2> QED BY <1>1, <1>3, <2>1
<1> QED BY <1>1, <1>4, PageAlone

LEMMA ModuleLoadsStep ==
  ASSUME CallsInv, Calling!CallsAssumption, Calling!ModuleLoads
  PROVE  CallsInv' /\ AbstractStep
<1> DEFINE e == Calling!SetReady(Calling!SetUnderlyingChannel(page.delayed))
<1>1. /\ page' = [page EXCEPT !.delayed = e]
      /\ UNCHANGED <<promise, clientOpen, toPage, fromPage, working, fromModule, executed>>
  BY DEF Calling!ModuleLoads
<1>2. PageOnce(page) /\ DelayedOnce(page.delayed)
  BY DEF CallsInv, CallsTypes, PageOnce
<1>3. DelayedOnce(e) /\ Sent(e) \subseteq Sent(page.delayed)
  BY <1>2, DelayedOnceKept
<1> HIDE DEF e
<1>4. Passes(page, page', {})
  BY <1>1, <1>2, <1>3, DelayedSet
<1> QED BY <1>1, <1>4, PageAlone

LEMMA ModuleCrashesStep ==
  ASSUME CallsInv, Calling!CallsAssumption, Calling!ModuleCrashes
  PROVE  CallsInv' /\ AbstractStep
<1> DEFINE e == Calling!DisposeDelayed(page.delayed)
           pg == [page EXCEPT !.delayed = e]
<1>1. /\ page' \in {pg, Calling!DisposeHandler(pg)}
      /\ fromPage' \in {fromPage, Append(fromPage, Bye)} /\ working' = {} /\ fromModule' = <<>>
      /\ UNCHANGED <<promise, clientOpen, toPage, executed>>
  BY DEF Calling!ModuleCrashes
<1>2. PageOnce(page) /\ DelayedOnce(page.delayed)
  BY DEF CallsInv, CallsTypes, PageOnce
<1>3. DelayedOnce(e) /\ Sent(e) \subseteq Sent(page.delayed)
  BY <1>2, DelayedOnceKept
<1> HIDE DEF e
<1>4. Passes(page, pg, {})
  BY <1>2, <1>3, DelayedSet
<1> HIDE DEF pg
<1>5. Passes(pg, Calling!DisposeHandler(pg), {})
  <2>1. PageOnce(pg) /\ {Delete} \cap Calls = {}
    BY <1>4 DEF Passes, Calling!CallsAssumption
  <2> QED BY <2>1, DisposeOnce
<1>6. Passes(page, page', {})
  BY <1>1, <1>4, <1>5, PassesOn
<1>7. fromModule' \in {fromModule, <<>>} /\ working' \in {working, {}}
  BY <1>1
<1> QED BY <1>1, <1>6, <1>7, PageAlone

LEMMA PageHearsStep ==
  ASSUME CallsInv, Calling!CallsAssumption, Calling!PageHears
  PROVE  CallsInv' /\ AbstractStep
<1> DEFINE a == Head(fromModule)
<1>1. /\ fromModule # <<>> /\ fromModule' = Tail(fromModule)
      /\ UNCHANGED <<promise, clientOpen, toPage, fromPage, module, working, executed>>
      /\ \/ page' \in {page, [page EXCEPT !.failed = TRUE]}
         \/ /\ page.requester = "live" /\ a.call \in page.pending
            /\ page' = [page EXCEPT !.pending = @ \ {a.call}, !.answers = @ \cup {a}]
  BY DEF Calling!PageHears
<1>2. fromModule \in Seq(Answers) /\ PageOnce(page)
  BY DEF CallsInv, CallsTypes
<1>3. /\ a \in Answers /\ fromModule' \in Seq(Answers)
      /\ 1 \in DOMAIN fromModule /\ a = fromModule[1]
      /\ \A i \in DOMAIN fromModule' : i + 1 \in DOMAIN fromModule
                                       /\ fromModule'[i] = fromModule[i + 1]
  BY <1>1, <1>2
<1>4. a.ok => a.call \in Ran
  BY <1>3 DEF CallsInv, ResultsOwn
<1> HIDE DEF a
<1>5. /\ page' \in Page /\ PageOnce(page')
      /\ Queued(page') = Queued(page) /\ page'.delayed = page.delayed
      /\ Awaited(page') \subseteq Awaited(page)
      /\ \A b \in page'.answers : b \in page.answers \cup {a}
  <2>1. CASE page' \in {page, [page EXCEPT !.failed = TRUE]}
    <3>1. /\ page' \in Page
          /\ page'.admitted = page.admitted /\ page'.posting = page.posting
          /\ page'.pending = page.pending /\ page'.answers = page.answers
          /\ page'.delayed = page.delayed
      BY <1>2, <2>1 DEF PageOnce, Page
    <3> QED BY <1>2, <3>1 DEF PageOnce, Queued, Awaited
  <2>2. CASE /\ page.requester = "live" /\ a.call \in page.pending
             /\ page' = [page EXCEPT !.pending = @ \ {a.call}, !.answers = @ \cup {a}]
    <3> DEFINE A == {a}
    <3>1. /\ page' \in Page
          /\ page'.admitted = page.admitted /\ page'.posting = page.posting
          /\ page'.pending = page.pending \ {a.call} /\ page'.answers = page.answers \cup A
          /\ page'.delayed = page.delayed
      BY <1>2, <1>3, <2>2 DEF PageOnce, Page
    <3>2. /\ A \in SUBSET Answers /\ \A b, c \in A : b.call = c.call => b = c
          /\ Answered(A) = {a.call} /\ \A b \in A : b = a
      BY <1>3 DEF Answered
    <3> HIDE DEF A
    <3>3. Answered(A) \cap (Queued(page) \cup page'.pending \cup Answered(page.answers)) = {}
      BY <1>2, <2>2, <3>1, <3>2 DEF PageOnce, Awaited
    <3>4. PageOnce(page') /\ Awaited(page') \subseteq Awaited(page) \cup Answered(A)
      BY <1>2, <3>1, <3>2, <3>3, AnswersAdded
    <3> QED BY <2>2, <3>1, <3>2, <3>4 DEF Queued, Awaited
  <2> QED BY <1>1, <2>1, <2>2
<1>6. CallsTypes'
  BY <1>1, <1>3, <1>5, RanKept DEF CallsInv, CallsTypes
<1>7. CallsApart'
  BY <1>1, <1>5, RanKept DEF CallsInv, CallsApart
<1>8. CallsPosted'
  BY <1>1, <1>5, RanKept DEF CallsInv, CallsPosted
<1>9. ResultsOwn'
  BY <1>1, <1>3, <1>4, <1>5, RanKept DEF CallsInv, ResultsOwn
<1> QED BY <1>1, <1>6, <1>7, <1>8, <1>9, PageStutters DEF CallsInv

LEMMA RespondStep ==
  ASSUME CallsInv, Calling!CallsAssumption, NEW a \in page.answers, Calling!Respond(a)
  PROVE  CallsInv' /\ AbstractStep
<1>1. /\ page' = [page EXCEPT !.answers = @ \ {a}] /\ fromPage' = Append(fromPage, a)
      /\ UNCHANGED <<promise, clientOpen, toPage, module, working, fromModule, executed>>
  BY DEF Calling!Respond
<1>2. PageOnce(page) /\ page.answers \subseteq Answers /\ a \in Answers
  BY DEF CallsInv, CallsTypes, PageOnce, Page
<1>3. /\ page' \in Page
      /\ page'.admitted = page.admitted /\ page'.posting = page.posting
      /\ page'.pending = page.pending /\ page'.answers = page.answers \ {a}
      /\ page'.delayed = page.delayed
  BY <1>1, <1>2 DEF PageOnce, Page
<1>4. /\ a.call \in Answered(page.answers) /\ a.call \in Calls
      /\ Answered(page'.answers) \subseteq Answered(page.answers) \ {a.call}
      /\ a.call \in Awaited(page) /\ a.call \notin Queued(page) /\ a.call \notin page.pending
  BY <1>2, <1>3 DEF PageOnce, Awaited, Answered, Answers
<1>5. /\ PageOnce(page') /\ Queued(page') = Queued(page)
      /\ Awaited(page') \subseteq Awaited(page) \ {a.call}
  <2>1. Queued(page') = Queued(page) /\ Awaited(page') \subseteq Awaited(page) \ {a.call}
    BY <1>3, <1>4 DEF Queued, Awaited
  <2>2. \A b, c \in page'.answers : b.call = c.call => b = c
    BY <1>2, <1>3 DEF PageOnce
  <2> QED BY <1>2, <1>3, <1>4, <2>1, <2>2 DEF PageOnce
<1>6. a.call \notin Told(fromPage)
  BY <1>4 DEF CallsInv, CallsApart
<1>7. /\ fromPage' \in Seq(Answers \cup {Bye})
      /\ Told(fromPage') = Told(fromPage) \cup {a.call} /\ ToldOnce(fromPage')
  <2>1. fromPage \in Seq(Answers \cup {Bye}) /\ ToldOnce(fromPage) /\ Bye \notin Answers
    BY DEF CallsInv, CallsTypes, CallsApart, Calling!CallsAssumption, Answers
  <2> QED BY <1>1, <1>2, <1>6, <2>1, ToldAppend
<1>8. CallsTypes'
  BY <1>1, <1>5, <1>7, RanKept DEF CallsInv, CallsTypes
<1>9. CallsApart'
  <2>1. a.call \notin In(toPage)
    BY <1>4 DEF CallsInv, CallsApart
  <2>2. Told(fromPage') \cap (Queued(page') \cup Awaited(page')) = {}
    BY <1>4, <1>5, <1>7 DEF CallsInv, CallsApart
  <2>3. In(toPage) \cap (Told(fromPage') \cup Ran) = {}
    BY <1>7, <2>1 DEF CallsInv, CallsApart
  <2>4. In(toPage) \cap (Queued(page') \cup Awaited(page') \cup Sent(page'.delayed)) = {}
    BY <1>3, <1>5 DEF CallsInv, CallsApart
  <2>5. Ran \cap (Queued(page') \cup Sent(page'.delayed)) = {} /\ Once(toPage)
    BY <1>3, <1>5 DEF CallsInv, CallsApart
  <2> QED BY <1>1, <1>7, <2>2, <2>3, <2>4, <2>5, RanKept DEF CallsApart
<1>10. CallsPosted'
  BY <1>1, <1>3, <1>4, <1>5, <1>7, RanKept DEF CallsInv, CallsPosted
<1>11. ResultsOwn'
  <2>1. \A i \in DOMAIN fromPage' :
          fromPage'[i] = a \/ (i \in DOMAIN fromPage /\ fromPage'[i] = fromPage[i])
    BY <1>1 DEF CallsInv, CallsTypes
  <2> QED BY <1>1, <1>3, <2>1, RanKept DEF CallsInv, ResultsOwn
<1> QED BY <1>1, <1>8, <1>9, <1>10, <1>11, PageStutters DEF CallsInv

LEMMA ModuleTakesStep ==
  ASSUME CallsInv, Calling!ModuleTakes
  PROVE  CallsInv' /\ AbstractStep
<1> DEFINE s == page.delayed.passed  m == Head(s)
           d == [page.delayed EXCEPT !.passed = Tail(s)]
<1>1. /\ s # <<>> /\ page' = [page EXCEPT !.delayed.passed = Tail(@)]
      /\ UNCHANGED <<promise, clientOpen, toPage, fromPage, module, fromModule>>
      /\ \/ m \in Calls /\ working' = working \cup {m} /\ executed' = [executed EXCEPT ![m] = @ + 1]
         \/ m \notin Calls /\ UNCHANGED <<working, executed>>
  BY DEF Calling!ModuleTakes
<1>2. /\ PageOnce(page) /\ page \in Page /\ page.delayed \in Delayed /\ s \in Seq(Message)
      /\ Once(s) /\ Once(page.delayed.pending) /\ In(page.delayed.pending) \cap In(s) = {}
  BY DEF CallsInv, CallsTypes, PageOnce, DelayedOnce, Delayed
<1>3. /\ Tail(s) \in Seq(Message) /\ Once(Tail(s)) /\ In(Tail(s)) = In(s) \ {m}
      /\ m \in Calls => m \in In(s)
  BY <1>1, <1>2, InTail
<1>4. page' = [page EXCEPT !.delayed = d]
  BY <1>1, <1>2 DEF Page, Delayed
<1>5. d \in Delayed /\ d.pending = page.delayed.pending /\ d.passed = Tail(s)
  BY <1>2, <1>3 DEF Delayed
<1> HIDE DEF d
<1>6. DelayedOnce(d) /\ Sent(d) \subseteq Sent(page.delayed) \ {m}
  <2> HIDE DEF m
  <2>1. /\ DelayedOnce(d) /\ In(d.passed) = In(s) \ {m}
        /\ In(d.pending) = In(page.delayed.pending)
    BY <1>2, <1>3, <1>5 DEF DelayedOnce
  <2>2. m \notin In(d.pending)
    BY <1>2, <1>3, <2>1 DEF In
  <2> QED BY <2>1, <2>2 DEF Sent
<1>7. /\ page' \in Page /\ page'.admitted = page.admitted /\ page'.posting = page.posting
      /\ page'.pending = page.pending /\ page'.answers = page.answers /\ page'.delayed = d
  BY <1>2, <1>4, <1>5 DEF Page
<1> HIDE DEF s, m
<1>8. /\ PageOnce(page') /\ Queued(page') = Queued(page) /\ Awaited(page') = Awaited(page)
      /\ Sent(page'.delayed) \subseteq Sent(page.delayed) \ {m}
  BY <1>2, <1>6, <1>7 DEF PageOnce, Queued, Awaited
<1>10. CASE m \notin Calls /\ UNCHANGED <<working, executed>>
  <2>1. CallsTypes' /\ CallsApart' /\ CallsPosted' /\ ResultsOwn'
    BY <1>1, <1>7, <1>8, <1>10, RanKept DEF CallsInv, CallsTypes, CallsApart, CallsPosted, ResultsOwn
  <2> QED BY <1>1, <1>10, <2>1, PageStutters DEF CallsInv
<1>11. CASE m \in Calls /\ working' = working \cup {m} /\ executed' = [executed EXCEPT ![m] = @ + 1]
  <2>1. m \in Sent(page.delayed)
    BY <1>3, <1>11 DEF Sent, s, m
  <2>2. m \notin Queued(page) /\ m \notin In(toPage) /\ m \notin Ran /\ promise[m] # "none"
    BY <1>2, <2>1 DEF CallsInv, CallsApart, CallsPosted, PageOnce
  <2>3. executed' \in [Calls -> {0, 1}] /\ executed[m] = 0 /\ Ran' = Ran \cup {m}
    <3>1. executed \in [Calls -> {0, 1}] /\ executed[m] = 0
      BY <1>11, <2>2 DEF CallsInv, CallsTypes, Ran
    <3>2. executed' = [executed EXCEPT ![m] = 1]
      BY <1>11, <3>1
    <3> QED BY <1>11, <3>1, <3>2 DEF Ran
  <2>4. CallsTypes'
    BY <1>1, <1>8, <1>11, <2>3 DEF CallsInv, CallsTypes
  <2>5. CallsApart'
    BY <1>1, <1>8, <2>2, <2>3 DEF CallsInv, CallsApart
  <2>6. CallsPosted'
    BY <1>1, <1>8, <2>2, <2>3 DEF CallsInv, CallsPosted
  <2>7. ResultsOwn'
    BY <1>1, <1>7, <2>3 DEF CallsInv, ResultsOwn
  <2>8. Calling!Abstract!Execute(m)
    BY <1>1, <1>11, <2>2, <2>3 DEF Calling!Abstract!Execute
  <2>9. AbstractStep
    BY <1>11, <2>8 DEF AbstractStep, Calling!Abstract!Next
  <2> QED BY <2>4, <2>5, <2>6, <2>7, <2>9 DEF CallsInv
<1> QED BY <1>1, <1>10, <1>11

LEMMA ModuleAnswersStep ==
  ASSUME CallsInv, NEW c \in working, NEW ok \in BOOLEAN, Calling!ModuleAnswers(c, ok)
  PROVE  CallsInv' /\ AbstractStep
<1> DEFINE a == Calling!Answer(c, ok)
<1>1. /\ working' = working \ {c} /\ fromModule' = Append(fromModule, a)
      /\ UNCHANGED <<promise, clientOpen, toPage, fromPage, page, module, executed>>
  BY DEF Calling!ModuleAnswers
<1>2. a \in Answers /\ a.call = c /\ c \in Ran
  BY DEF Calling!Answer, Answers, CallsInv, CallsTypes, Ran
<1> HIDE DEF a
<1>3. /\ fromModule' \in Seq(Answers)
      /\ \A i \in DOMAIN fromModule' :
           fromModule'[i] = a \/ (i \in DOMAIN fromModule /\ fromModule'[i] = fromModule[i])
  BY <1>1, <1>2 DEF CallsInv, CallsTypes
<1>4. CallsTypes' /\ CallsApart' /\ CallsPosted'
  BY <1>1, <1>3, RanKept DEF CallsInv, CallsTypes, CallsApart, CallsPosted
<1>5. ResultsOwn'
  BY <1>1, <1>2, <1>3, RanKept DEF CallsInv, ResultsOwn
<1> QED BY <1>1, <1>4, <1>5, PageStutters DEF CallsInv

-----------------------------------------------------------------------------
LEMMA CallsInitially == Calling!Init => CallsInv
<1> SUFFICES ASSUME Calling!Init PROVE CallsInv
  OBVIOUS
<1>1. /\ promise = [c \in Calls |-> "none"] /\ clientOpen = TRUE
      /\ toPage = <<>> /\ fromPage = <<>> /\ working = {} /\ fromModule = <<>>
      /\ executed = [c \in Calls |-> 0] /\ Ran = {}
  BY DEF Calling!Init, Ran
<1>2. /\ In(toPage) = {} /\ Once(toPage) /\ toPage \in Seq(Message)
      /\ Told(fromPage) = {} /\ ToldOnce(fromPage) /\ fromPage \in Seq(Answers \cup {Bye})
      /\ fromModule \in Seq(Answers) /\ DOMAIN fromPage = {} /\ DOMAIN fromModule = {}
  <2>1. /\ <<>> \in Seq(Message) /\ <<>> \in Seq(Answers \cup {Bye}) /\ <<>> \in Seq(Answers)
        /\ DOMAIN <<>> = {}
    OBVIOUS
  <2>2. DOMAIN fromPage = {} /\ DOMAIN fromModule = {}
    BY <1>1, <2>1
  <2>3. In(toPage) = {} /\ Once(toPage)
    BY <1>1, InEmpty
  <2>4. Told(fromPage) = {} /\ ToldOnce(fromPage)
    BY <2>2 DEF Told, ToldOnce
  <2> QED BY <1>1, <2>1, <2>2, <2>3, <2>4
<1>3. Calling!NewProcessor \in Processor /\ Calling!NewProcessor.queue = <<>>
  BY DEF Processor, Calling!NewProcessor
<1>4. /\ Calling!NewDelayed \in Delayed
      /\ Calling!NewDelayed.pending = <<>> /\ Calling!NewDelayed.passed = <<>>
  BY DEF Delayed, Calling!NewDelayed
<1>5. /\ page \in Page /\ page.admitted.queue = <<>> /\ page.posting.queue = <<>>
      /\ page.pending = {} /\ page.answers = {} /\ page.delayed = Calling!NewDelayed
  BY <1>3, <1>4 DEF Calling!Init, Page
<1>6. PageOnce(page) /\ Queued(page) = {} /\ Awaited(page) = {} /\ Sent(page.delayed) = {}
  <2> DEFINE d == page.delayed  aq == page.admitted.queue  pq == page.posting.queue
  <2>1. /\ In(d.pending) = {} /\ Once(d.pending) /\ In(d.passed) = {} /\ Once(d.passed)
        /\ In(aq) = {} /\ Once(aq) /\ In(pq) = {} /\ Once(pq) /\ d \in Delayed
    BY <1>4, <1>5, InEmpty
  <2>2. DelayedOnce(d) /\ Sent(d) = {} /\ Queued(page) = {} /\ Awaited(page) = {}
    BY <1>5, <2>1 DEF DelayedOnce, Sent, Queued, Awaited, Answered
  <2> QED BY <1>5, <2>1, <2>2 DEF PageOnce
<1>7. promise \in [Calls -> Settlement]
  BY <1>1 DEF Settlement
<1>8. CallsTypes
  BY <1>1, <1>2, <1>6, <1>7 DEF CallsTypes
<1>9. CallsApart /\ CallsPosted
  BY <1>1, <1>2, <1>6 DEF CallsApart, CallsPosted
<1>10. ResultsOwn
  BY <1>2, <1>5 DEF ResultsOwn
<1> QED BY <1>8, <1>9, <1>10 DEF CallsInv

LEMMA CallsNextKept ==
  ASSUME CallsInv, Calling!CallsAssumption, Calling!Next
  PROVE  CallsInv' /\ AbstractStep
<1>1. CASE \E c \in Calls : Calling!Post(c)
  BY <1>1, PostStep
<1>2. CASE Calling!ClientLeaves
  BY <1>2, ClientLeavesStep
<1>3. CASE Calling!ClientSendsJunk
  BY <1>3, ClientSendsJunkStep
<1>4. CASE Calling!ClientReceives
  BY <1>4, ClientReceivesStep
<1>5. CASE \E payload \in Calling!Payloads : Calling!PageReceives(payload)
  BY <1>5, PageReceivesStep
<1>6. CASE Calling!ServerSettles \/ \E ok \in BOOLEAN : Calling!PermissionSettles(ok)
  BY <1>6, SettlesStep
<1>7. CASE Calling!PageHears
  BY <1>7, PageHearsStep
<1>8. CASE \E a \in page.answers : Calling!Respond(a)
  BY <1>8, RespondStep
<1>9. CASE Calling!ModuleLoads
  BY <1>9, ModuleLoadsStep
<1>10. CASE Calling!ModuleTakes
  BY <1>10, ModuleTakesStep
<1>11. CASE Calling!ModuleCrashes
  BY <1>11, ModuleCrashesStep
<1>12. CASE \E c \in working, ok \in BOOLEAN : Calling!ModuleAnswers(c, ok)
  BY <1>12, ModuleAnswersStep
<1> QED BY <1>1, <1>2, <1>3, <1>4, <1>5, <1>6, <1>7, <1>8, <1>9, <1>10, <1>11, <1>12
        DEF Calling!Next

LEMMA CallsStutter ==
  ASSUME CallsInv, UNCHANGED callsVars
  PROVE  CallsInv' /\ AbstractStep
<1>1. UNCHANGED <<promise, clientOpen, toPage, fromPage, page, working, fromModule, executed>>
  BY DEF callsVars
<1>2. CallsTypes' /\ CallsApart' /\ CallsPosted' /\ ResultsOwn'
  BY <1>1, RanKept DEF CallsInv, CallsTypes, CallsApart, CallsPosted, ResultsOwn
<1> QED BY <1>1, <1>2, PageStutters DEF CallsInv

\* The road of a call implements RemoteCalls: whatever leaves, is denied, fails or
\* crashes on it, a call is settled once, executed at most once (so one that the
\* module did not get is never sent again, requester.js and deferred-processor.js),
\* and resolved only if the module has executed that very call.
THEOREM RoadImplementsRemoteCalls == PartSpec => CallsImplemented
<1> USE CallingAssumption
<1>1. PartInit => CallsInv /\ Calling!Abstract!Init
  <2>1. Calling!Init => Calling!Abstract!Init
    BY DEF Calling!Init, Calling!Abstract!Init
  <2> QED BY <2>1, CallsInitially DEF PartInit
<1>2. CallsInv /\ [PartNext]_partVars
        => CallsInv' /\ [Calling!Abstract!Next]_(Calling!Abstract!vars)
  <2> SUFFICES ASSUME CallsInv, [PartNext]_partVars
               PROVE  CallsInv' /\ AbstractStep
    BY DEF AbstractStep
  <2>1. Calling!Next \/ UNCHANGED callsVars
    BY DEF PartNext, partVars
  <2> QED BY <2>1, CallsNextKept, CallsStutter
<1> QED BY <1>1, <1>2, PTL DEF PartSpec, CallsImplemented, Calling!CallsImplemented,
                               Calling!Abstract!Spec
=============================================================================
