------------------------ MODULE LibusbContext_proofs ------------------------
(***************************************************************************)
(* Theorems of LibusbContext, for every set of transfers, destinations and *)
(* threads, every assignment of timeouts and every bound on the clock.     *)
(* The last part is the refinement: LibusbContext implements               *)
(* TransferService, as the property ServiceSpec states.                    *)
(***************************************************************************)
EXTENDS LibusbContext, TLAPS

-----------------------------------------------------------------------------
(* Types                                                                   *)

\* The sequences of results stay sequences of transfers.
LEMMA TailType ==
  ASSUME NEW S, NEW s \in Seq(S), s # <<>>
  PROVE  Head(s) \in S /\ Tail(s) \in Seq(S)
OBVIOUS

LEMMA AppendType ==
  ASSUME NEW S, NEW s \in Seq(S), NEW e \in S
  PROVE  Append(s, e) \in Seq(S)
OBVIOUS

LEMMA NotifiedType ==
  ASSUME TypeOK
  PROVE  Notified(pc) \in [Thread -> PC]
BY DEF TypeOK, Notified, PC

LEMMA InitType == Init => TypeOK
BY TransferAssumption, ThreadAssumption, TimeAssumption
   DEF Init, TypeOK, PC, Status, NothingTaken, Thread

LEMMA SubmitType ==
  ASSUME TypeOK, NEW t \in Client, NEW x \in Transfer, Submit(t, x)
  PROVE  TypeOK'
<1> USE DEF TypeOK, Submit, AddTransferInFlight
<1>1. (inflight \subseteq Transfer /\ prepared \subseteq inflight)'
  OBVIOUS
<1>2. (adds \in Nat /\ addedAt \in [Transfer -> Nat])'
  OBVIOUS
<1>3. (deadline \in [Transfer -> Nat])'
  <2>1. Timeout[x] \in Nat /\ Forever \in Nat
    BY TransferAssumption, TimeAssumption
  <2>2. (IF Timeout[x] = 0 THEN Forever ELSE now + Timeout[x]) \in Nat
    BY <2>1
  <2> QED BY <2>2
<1>4. (pc \in [Thread -> PC])'
  BY NotifiedType DEF PC
<1>5. (job \in [Thread -> Transfer \union {NoTransfer}])'
  OBVIOUS
<1> QED BY <1>1, <1>2, <1>3, <1>4, <1>5 DEF answers, js, objects

LEMMA StartJsCallType ==
  ASSUME TypeOK, NEW d, StartJsCall(d)
  PROVE  /\ prepared' \subseteq prepared /\ ongoing' \subseteq InputDest
         /\ jsCalls' \subseteq Transfer
<1>1. CASE UNCHANGED <<prepared, ongoing, jsCalls>>
  BY <1>1 DEF TypeOK
<1>2. CASE /\ \E x \in prepared : prepared' = prepared \ {x} /\ jsCalls' = jsCalls \union {x}
           /\ ongoing' = IF IsInput(d) THEN ongoing \union {d} ELSE ongoing
  BY <1>2 DEF TypeOK, IsInput
<1> QED BY <1>1, <1>2 DEF StartJsCall, IsFirst

LEMMA MaybeStartType ==
  ASSUME TypeOK, NEW t \in Thread, MaybeStart(t)
  PROVE  TypeOK'
<1>1. /\ prepared' \subseteq prepared /\ ongoing' \subseteq InputDest
      /\ jsCalls' \subseteq Transfer
  BY StartJsCallType DEF MaybeStart
<1>2. (pc \in [Thread -> PC])' /\ (job \in [Thread -> Transfer \union {NoTransfer}])'
  BY DEF TypeOK, MaybeStart, PC
<1> QED BY <1>1, <1>2 DEF TypeOK, MaybeStart, answers, objects

\* The steps of one thread that touch nothing but pc, mutex and the two times
Quiet(t) ==
  \/ HandleEvents(t) \/ TimeoutReturn(t) \/ CompletedReturn(t) \/ ReturnToCaller(t)
  \/ Park(t) \/ EnterWait(t) \/ TimedWake(t) \/ SpuriousWake(t)
  \/ Signal(t) \/ SignalLocked(t)

LEMMA QuietType ==
  ASSUME TypeOK, NEW t \in Thread, Quiet(t)
  PROVE  TypeOK'
<1>1. (pc \in [Thread -> PC])'
  BY NotifiedType
     DEF TypeOK, Quiet, HandleEvents, TimeoutReturn, CompletedReturn, ReturnToCaller,
         Park, EnterWait, TimedWake, SpuriousWake, Wake, Signal, SignalLocked, PC
<1>2. (callDeadline \in [Thread -> Nat])'
  <2>1. CASE HandleEvents(t)
    <3>1. Forever \in Nat /\ now + PollTime \in Nat
      BY TimeAssumption DEF TypeOK
    <3> QED BY <2>1, <3>1 DEF TypeOK, HandleEvents
  <2>2. CASE ~HandleEvents(t)
    BY <2>2
       DEF TypeOK, Quiet, TimeoutReturn, CompletedReturn, ReturnToCaller, Park,
           EnterWait, TimedWake, SpuriousWake, Wake, Signal, SignalLocked, local
  <2> QED BY <2>1, <2>2
<1>3. (wakeAt \in [Thread -> Nat])' /\ (mutex \in Thread \union {"free"})'
  BY DEF TypeOK, Quiet, HandleEvents, TimeoutReturn, CompletedReturn, ReturnToCaller,
         Park, EnterWait, TimedWake, SpuriousWake, Wake, Signal, SignalLocked
<1>4. (job \in [Thread -> Transfer \union {NoTransfer}])'
  BY DEF TypeOK, Quiet, HandleEvents, TimeoutReturn, CompletedReturn, ReturnToCaller,
         Park, EnterWait, TimedWake, SpuriousWake, Wake, Signal, SignalLocked, local
<1>5. UNCHANGED <<storage, answers, js, toCancel, taken, objects, now, accepted>>
  BY DEF Quiet, HandleEvents, TimeoutReturn, CompletedReturn, ReturnToCaller,
         Park, EnterWait, TimedWake, SpuriousWake, Wake, Signal, SignalLocked
<1> QED BY <1>1, <1>2, <1>3, <1>4, <1>5 DEF TypeOK, storage, answers, js, objects

\* Take is always for a transfer, with an answer to one or with none.
LEMMA TakeType ==
  ASSUME TypeOK, NEW t \in Thread, NEW x \in Transfer, NEW outcome \in Status,
         NEW call \in Transfer \union {NoTransfer}, Take(t, x, outcome, call)
  PROVE  /\ (inflight \subseteq Transfer /\ prepared \subseteq inflight)'
         /\ (outResults \subseteq Transfer)'
         /\ (taken \in [Thread -> [transfer : Transfer \union {NoTransfer},
                                   status : Status,
                                   call : Transfer \union {NoTransfer}]])'
         /\ (pc \in [Thread -> PC])'
         /\ UNCHANGED <<addedAt, adds, deadline, js, mutex, local, wakeAt, objects,
                        now, accepted>>
BY DEF TypeOK, Take, RemoveTransferInFlight, PC

TakeStep(t) ==
  TakeCancelled(t) \/ TakeTimedOut(t) \/ TakeOutputResult(t) \/ TakeInputResult(t)

\* What a thread takes out of the context: the transfer, how it ends, the answer.
LEMMA TakeStepIsTake ==
  ASSUME TypeOK, NEW t \in Thread, TakeStep(t)
  PROVE  /\ \E x \in Transfer, outcome \in Status, call \in Transfer \union {NoTransfer} :
              Take(t, x, outcome, call)
         /\ (results \in [InputDest -> Seq(Transfer)])'
         /\ (toCancel \subseteq Transfer)'
<1>1. CASE TakeCancelled(t)
  BY <1>1 DEF TypeOK, TakeCancelled, Status
<1>2. CASE TakeTimedOut(t)
  BY <1>2 DEF TypeOK, TakeTimedOut, Status
<1>3. CASE TakeOutputResult(t)
  BY <1>3 DEF TypeOK, TakeOutputResult, Status
<1>4. CASE TakeInputResult(t)
  <2>1. PICK d \in InputDest :
          /\ results[d] # <<>>
          /\ \E x \in InFlightOn(d) : Take(t, x, "answered", Head(results[d]))
          /\ results' = [results EXCEPT ![d] = Tail(@)]
          /\ toCancel' = toCancel
    BY <1>4 DEF TakeInputResult
  <2>2. results[d] \in Seq(Transfer)
    BY DEF TypeOK
  <2>3. Head(results[d]) \in Transfer /\ Tail(results[d]) \in Seq(Transfer)
    BY <2>1, <2>2, TailType
  <2>4. (results \in [InputDest -> Seq(Transfer)])' /\ (toCancel \subseteq Transfer)'
    BY <2>1, <2>3 DEF TypeOK
  <2> QED BY <2>1, <2>3, <2>4 DEF TypeOK, InFlightOn, Status
<1> QED BY <1>1, <1>2, <1>3, <1>4 DEF TakeStep

LEMMA TakeStepType ==
  ASSUME TypeOK, NEW t \in Thread, TakeStep(t)
  PROVE  TypeOK'
<1>1. PICK x \in Transfer, outcome \in Status, call \in Transfer \union {NoTransfer} :
        Take(t, x, outcome, call)
  BY TakeStepIsTake
<1>2. (results \in [InputDest -> Seq(Transfer)])' /\ (toCancel \subseteq Transfer)'
  BY TakeStepIsTake
<1> QED BY <1>1, <1>2, TakeType DEF TypeOK, js, local, objects

LEMMA FillTransferType ==
  ASSUME TypeOK, NEW t \in Thread, FillTransfer(t)
  PROVE  TypeOK'
<1>1. taken[t] \in [transfer : Transfer \union {NoTransfer}, status : Status,
                    call : Transfer \union {NoTransfer}]
  BY DEF TypeOK
<1>2. (status \in [Transfer -> Status])'
      /\ (answeredBy \in [Transfer -> Transfer \union {NoTransfer}])'
  BY <1>1 DEF TypeOK, FillTransfer
<1>3. (pc \in [Thread -> PC])'
  BY DEF TypeOK, FillTransfer, PC
<1> QED BY <1>2, <1>3 DEF TypeOK, FillTransfer, storage, answers, js, local

LEMMA RunCallbackType ==
  ASSUME TypeOK, NEW t \in Thread, RunCallback(t)
  PROVE  TypeOK'
<1>1. (completed \in [Transfer -> BOOLEAN])'
  BY DEF TypeOK, RunCallback
<1>2. (taken \in [Thread -> [transfer : Transfer \union {NoTransfer}, status : Status,
                             call : Transfer \union {NoTransfer}]])'
  BY DEF TypeOK, RunCallback, NothingTaken, Status
<1>3. (pc \in [Thread -> PC])'
  BY DEF TypeOK, RunCallback, PC
<1> QED BY <1>1, <1>2, <1>3 DEF TypeOK, RunCallback, storage, answers, js, local

LEMMA CancelTransferType ==
  ASSUME TypeOK, NEW x \in Transfer, CancelTransfer(x)
  PROVE  TypeOK'
BY NotifiedType DEF TypeOK, CancelTransfer, storage, answers, js, local, objects

LEMMA JsAnswersType ==
  ASSUME TypeOK, NEW x \in Transfer, JsAnswers(x)
  PROVE  TypeOK'
<1>1. (pc \in [Thread -> PC])'
  BY NotifiedType DEF TypeOK, JsAnswers, JsAnswersInput, JsAnswersOutput
<1>2. (jsStart \in Dest \union {NoDest})'
  BY TransferAssumption DEF JsAnswers, JsAnswersInput, JsAnswersOutput
<1>3. (results \in [InputDest -> Seq(Transfer)])'
  <2>1. CASE JsAnswersInput(x)
    <3>1. Append(results[DestOf[x]], x) \in Seq(Transfer)
      BY <2>1, AppendType DEF TypeOK, JsAnswersInput, IsInput
    <3> QED BY <2>1, <3>1 DEF TypeOK, JsAnswersInput
  <2>2. CASE JsAnswersOutput(x)
    BY <2>2 DEF TypeOK, JsAnswersOutput
  <2> QED BY <2>1, <2>2 DEF JsAnswers
<1>4. (jsCalls \subseteq Transfer /\ ongoing \subseteq InputDest /\ outResults \subseteq Transfer)'
  BY DEF TypeOK, JsAnswers, JsAnswersInput, JsAnswersOutput
<1>5. UNCHANGED <<storage, toCancel, mutex, local, wakeAt, taken, objects, now, accepted>>
  BY DEF JsAnswers, JsAnswersInput, JsAnswersOutput
<1> QED BY <1>1, <1>2, <1>3, <1>4, <1>5 DEF TypeOK, storage, local, objects

LEMMA JsStartsNextType ==
  ASSUME TypeOK, JsStartsNext
  PROVE  TypeOK'
<1>1. /\ prepared' \subseteq prepared /\ ongoing' \subseteq InputDest
      /\ jsCalls' \subseteq Transfer
  BY StartJsCallType DEF JsStartsNext
<1> QED BY <1>1 DEF TypeOK, JsStartsNext, answers, local, objects

LEMMA TickType == TypeOK /\ Tick => TypeOK'
BY DEF TypeOK, Tick, storage, answers, js, local, objects

\* Every variable keeps its type.
THEOREM TypeCorrect == Spec => []TypeOK
<1>1. TypeOK /\ UNCHANGED vars => TypeOK'
  BY DEF TypeOK, vars, storage, answers, js, local, objects
<1>2. TypeOK /\ Next => TypeOK'
  <2> SUFFICES ASSUME TypeOK, Next PROVE TypeOK'
    OBVIOUS
  <2>1. CASE \E t \in Client, x \in Transfer : Submit(t, x)
    BY <2>1, SubmitType
  <2>2. ASSUME NEW t \in Thread, ThreadStep(t) \/ SpuriousWake(t) PROVE TypeOK'
    BY <2>2, MaybeStartType, QuietType, TakeStepType, FillTransferType, RunCallbackType
       DEF ThreadStep, Quiet, TakeStep
  <2>3. CASE \E x \in Transfer : CancelTransfer(x) \/ JsAnswers(x)
    BY <2>3, CancelTransferType, JsAnswersType
  <2> QED BY <2>1, <2>2, <2>3, JsStartsNextType, TickType DEF Next
<1> QED BY <1>1, <1>2, InitType, PTL DEF Spec

-----------------------------------------------------------------------------
(* Outcomes: exactly one, and a cancellation that was accepted is final    *)

\* A thread carries a transfer exactly between Take and RunCallback, and the
\* transfer is to be reported as cancelled exactly if its cancellation was
\* accepted; FillTransfer writes what the thread carries into a transfer that
\* nobody filled before; only submitted transfers are accepted for cancellation
\* or complete.
Carried ==
  /\ \A t \in Thread : (pc[t] \in {"taken", "filled"}) <=> (taken[t].transfer # NoTransfer)
  /\ \A t \in Thread : pc[t] = "filled" => status[taken[t].transfer] = taken[t].status
  /\ \A x \in Transfer : status[x] # "none" =>
       completed[x] \/ \E t \in Thread : pc[t] = "filled" /\ taken[t].transfer = x
  /\ \A t \in Thread : taken[t].transfer # NoTransfer =>
       ((taken[t].status = "cancelled") <=> (taken[t].transfer \in accepted))
  /\ accepted \subseteq Submitted
  /\ \A x \in Transfer : completed[x] => x \in Submitted

\* The inductive invariant of the life of a transfer
LifeInv == TypeOK /\ Carried /\ ExactlyOnce /\ CancellationPrecedes /\ CancelIsFinal

\* Nobody begins or ends to carry a transfer, or fills one.
SameLoads ==
  \A u \in Thread : /\ (pc'[u] = "taken") <=> (pc[u] = "taken")
                    /\ (pc'[u] = "filled") <=> (pc[u] = "filled")

LEMMA NotifiedSame ==
  ASSUME NEW t \in Thread
  PROVE  /\ (Notified(pc)[t] = "taken") <=> (pc[t] = "taken")
         /\ (Notified(pc)[t] = "filled") <=> (pc[t] = "filled")
BY DEF Notified

LEMMA InitLife == Init => LifeInv
<1> SUFFICES ASSUME Init PROVE LifeInv
  OBVIOUS
<1>1. TypeOK
  BY InitType
<1>2. Carried
  BY DEF Init, Carried, Submitted, NothingTaken, Thread
<1>3. ExactlyOnce /\ CancellationPrecedes /\ CancelIsFinal
  BY DEF Init, ExactlyOnce, CancellationPrecedes, CancelIsFinal, Submitted, NothingTaken
<1> QED BY <1>1, <1>2, <1>3 DEF LifeInv

LEMMA SubmitLife ==
  ASSUME LifeInv, NEW t \in Client, NEW x \in Transfer, Submit(t, x)
  PROVE  LifeInv'
<1>0. TypeOK /\ TypeOK' /\ t \in Thread
  BY SubmitType DEF LifeInv, Thread
<1>1. x \notin Submitted /\ Submitted' = Submitted \union {x}
  BY <1>0 DEF Submit, AddTransferInFlight, Submitted, TypeOK
<1>2. UNCHANGED <<taken, completed, status, accepted, toCancel>>
  BY DEF Submit, objects
<1>3. inflight' = inflight \union {x}
  BY DEF Submit, AddTransferInFlight
<1>4. x \notin accepted /\ x \notin inflight /\ ~completed[x]
      /\ \A u \in Thread : taken[u].transfer # x
  BY <1>1, TransferAssumption DEF LifeInv, Carried, ExactlyOnce
<1>5. SameLoads
  BY <1>0, NotifiedSame DEF SameLoads, Submit, TypeOK, Notified
<1>6. Carried'
  BY <1>1, <1>2, <1>5 DEF LifeInv, Carried, SameLoads
<1>7. ExactlyOnce'
  BY <1>0, <1>1, <1>2, <1>3, <1>4 DEF LifeInv, ExactlyOnce
<1>8. CancellationPrecedes' /\ CancelIsFinal'
  BY <1>2, <1>3, <1>4 DEF LifeInv, CancellationPrecedes, CancelIsFinal
<1> QED BY <1>0, <1>6, <1>7, <1>8 DEF LifeInv

\* The steps that leave the storage's items, the threads' loads and the objects
LEMMA StillLife ==
  ASSUME LifeInv, TypeOK',
         UNCHANGED <<inflight, addedAt, taken, objects, toCancel, accepted>>,
         SameLoads
  PROVE  LifeInv'
<1>1. Submitted' = Submitted
  BY DEF Submitted
<1>2. Carried'
  BY <1>1 DEF LifeInv, Carried, SameLoads, objects
<1>3. ExactlyOnce'
  BY <1>1 DEF LifeInv, ExactlyOnce, objects
<1>4. CancellationPrecedes' /\ CancelIsFinal'
  BY DEF LifeInv, CancellationPrecedes, CancelIsFinal, objects
<1> QED BY <1>2, <1>3, <1>4 DEF LifeInv

LEMMA QuietLife ==
  ASSUME LifeInv, NEW t \in Thread, Quiet(t) \/ MaybeStart(t)
  PROVE  LifeInv'
<1>1. TypeOK'
  BY QuietType, MaybeStartType DEF LifeInv
<1>2. UNCHANGED <<inflight, addedAt, taken, objects, toCancel, accepted>>
  BY DEF Quiet, MaybeStart, HandleEvents, TimeoutReturn, CompletedReturn, ReturnToCaller,
         Park, EnterWait, TimedWake, SpuriousWake, Wake, Signal, SignalLocked,
         storage
<1>3. pc \in [Thread -> PC]
  BY DEF LifeInv, TypeOK
<1>4. SameLoads
  BY <1>3, NotifiedSame
     DEF SameLoads, Quiet, MaybeStart, HandleEvents, TimeoutReturn, CompletedReturn, ReturnToCaller,
         Park, AtLoopHead, EnterWait, TimedWake, SpuriousWake, Wake, Signal, SignalLocked,
         Notified
<1> QED BY <1>1, <1>2, <1>4, StillLife

\* A thread takes x out of the context, as cancelled if and only if it was to be.
LEMMA TakeLife ==
  ASSUME LifeInv, TypeOK', NEW t \in Thread, NEW x \in inflight, NEW outcome, NEW call,
         Take(t, x, outcome, call), toCancel' = toCancel \ {x},
         (outcome = "cancelled") <=> (x \in toCancel)
  PROVE  LifeInv'
<1>0. TypeOK /\ x \in Transfer
  BY DEF LifeInv, TypeOK
<1>1. Submitted' = Submitted /\ UNCHANGED <<completed, status, accepted>>
  BY DEF Take, RemoveTransferInFlight, Submitted, objects
<1>2. inflight' = inflight \ {x}
  BY DEF Take, RemoveTransferInFlight
<1>3. x \in Submitted /\ ~completed[x] /\ \A u \in Thread : taken[u].transfer # x
  BY <1>0, TransferAssumption DEF LifeInv, ExactlyOnce
<1>4. pc[t] \notin {"taken", "filled"} /\ taken[t].transfer = NoTransfer
  BY DEF LifeInv, Carried, Take, AtLoopHead
<1>5. /\ taken'[t].transfer = x /\ taken'[t].status = outcome
      /\ \A u \in Thread \ {t} : taken'[u] = taken[u]
  BY <1>0 DEF Take, TypeOK
<1>6. pc'[t] = "taken" /\ \A u \in Thread \ {t} : pc'[u] = pc[u]
  BY <1>0 DEF Take, TypeOK
<1>7. (x \in toCancel) <=> (x \in accepted)
  BY DEF LifeInv, CancellationPrecedes
<1>8. Carried'
  <2>1. \A u \in Thread : (pc'[u] \in {"taken", "filled"}) <=> (taken'[u].transfer # NoTransfer)
    BY <1>0, <1>5, <1>6, TransferAssumption DEF LifeInv, Carried
  <2>2. \A u \in Thread : taken'[u].transfer # NoTransfer =>
          ((taken'[u].status = "cancelled") <=> (taken'[u].transfer \in accepted))
    BY <1>5, <1>7 DEF LifeInv, Carried
  <2>3. \A u \in Thread : pc'[u] = "filled" => u # t /\ pc[u] = "filled" /\ taken'[u] = taken[u]
    BY <1>5, <1>6
  <2>4. \A u \in Thread : pc[u] = "filled" => pc'[u] = "filled" /\ taken'[u] = taken[u]
    BY <1>4, <1>5, <1>6
  <2> QED BY <1>1, <2>1, <2>2, <2>3, <2>4 DEF LifeInv, Carried
<1>9. ExactlyOnce'
  <2>1. \A y \in Submitted : y \in inflight' \/ (\E u \in Thread : taken'[u].transfer = y)
                              \/ completed[y]
    BY <1>2, <1>4, <1>5, TransferAssumption DEF LifeInv, ExactlyOnce, Submitted
  <2>2. \A y \in inflight' : y \in Submitted /\ ~completed[y]
    BY <1>2 DEF LifeInv, ExactlyOnce
  <2>3. \A u \in Thread : taken'[u].transfer # NoTransfer =>
          /\ taken'[u].transfer \in Submitted \ inflight'
          /\ ~completed[taken'[u].transfer]
          /\ \A v \in Thread : taken'[v].transfer = taken'[u].transfer => v = u
    BY <1>2, <1>3, <1>5 DEF LifeInv, ExactlyOnce
  <2> QED BY <1>1, <2>1, <2>2, <2>3 DEF ExactlyOnce
<1>10. CancellationPrecedes' /\ CancelIsFinal'
  BY <1>1, <1>2 DEF LifeInv, CancellationPrecedes, CancelIsFinal
<1> QED BY <1>8, <1>9, <1>10 DEF LifeInv

LEMMA TakeStepLife ==
  ASSUME LifeInv, NEW t \in Thread, TakeStep(t), outResults \subseteq inflight
  PROVE  LifeInv'
<1>0. TypeOK'
  BY TakeStepType DEF LifeInv
<1>1. CASE TakeCancelled(t)
  BY <1>0, <1>1, TakeLife DEF TakeCancelled, LifeInv, CancellationPrecedes
<1>2. CASE TakeTimedOut(t)
  BY <1>0, <1>2, TakeLife DEF TakeTimedOut, CancellationFound
<1>3. CASE TakeOutputResult(t)
  BY <1>0, <1>3, TakeLife DEF TakeOutputResult, CancellationFound
<1>4. CASE TakeInputResult(t)
  BY <1>0, <1>4, TakeLife DEF TakeInputResult, CancellationFound, InFlightOn
<1> QED BY <1>1, <1>2, <1>3, <1>4 DEF TakeStep

LEMMA FillTransferLife ==
  ASSUME LifeInv, NEW t \in Thread, FillTransfer(t)
  PROVE  LifeInv'
<1> DEFINE x == taken[t].transfer
<1>0. TypeOK /\ TypeOK'
  BY FillTransferType DEF LifeInv
<1>1. Submitted' = Submitted /\ UNCHANGED <<inflight, taken, completed, accepted, toCancel>>
  BY DEF FillTransfer, Submitted, storage
<1>2. x # NoTransfer
  BY DEF FillTransfer, LifeInv, Carried
<1>3. /\ x \in Transfer /\ ~completed[x]
      /\ \A u \in Thread : taken[u].transfer = x => u = t
  BY <1>2 DEF LifeInv, ExactlyOnce, Submitted
<1>4. pc[t] = "taken" /\ pc'[t] = "filled" /\ \A u \in Thread \ {t} : pc'[u] = pc[u]
  BY <1>0 DEF FillTransfer, TypeOK
<1>5. /\ status'[x] = taken[t].status /\ answeredBy'[x] = taken[t].call
      /\ \A y \in Transfer \ {x} : status'[y] = status[y] /\ answeredBy'[y] = answeredBy[y]
  BY <1>0, <1>3 DEF FillTransfer, TypeOK
<1>6. \A u \in Thread : taken[u].transfer = x <=> u = t
  BY <1>3
<1>7. Carried'
  <2>1. \A u \in Thread : (pc'[u] \in {"taken", "filled"}) <=> (taken[u].transfer # NoTransfer)
    BY <1>4 DEF LifeInv, Carried
  <2>2. \A u \in Thread : pc'[u] = "filled" => status'[taken[u].transfer] = taken[u].status
    <3> SUFFICES ASSUME NEW u \in Thread, pc'[u] = "filled", u # t
                 PROVE  status'[taken[u].transfer] = taken[u].status
      BY <1>5
    <3>1. pc[u] = "filled" /\ taken[u].transfer # NoTransfer
      BY <1>4 DEF LifeInv, Carried
    <3>2. taken[u].transfer \in Transfer \ {x}
      BY <1>6, <3>1 DEF LifeInv, ExactlyOnce, Submitted
    <3> QED BY <1>5, <3>1, <3>2 DEF LifeInv, Carried
  <2>3. \A y \in Transfer : status'[y] # "none" =>
          completed[y] \/ \E u \in Thread : pc'[u] = "filled" /\ taken[u].transfer = y
    BY <1>4, <1>5 DEF LifeInv, Carried
  <2> QED BY <1>1, <2>1, <2>2, <2>3 DEF LifeInv, Carried
<1>8. ExactlyOnce' /\ CancellationPrecedes'
  BY <1>1 DEF LifeInv, ExactlyOnce, CancellationPrecedes
<1>9. CancelIsFinal'
  BY <1>1, <1>3, <1>5 DEF LifeInv, CancelIsFinal
<1> QED BY <1>0, <1>7, <1>8, <1>9 DEF LifeInv

LEMMA RunCallbackLife ==
  ASSUME LifeInv, NEW t \in Thread, RunCallback(t)
  PROVE  LifeInv'
<1> DEFINE x == taken[t].transfer
<1>0. TypeOK /\ TypeOK'
  BY RunCallbackType DEF LifeInv
<1>1. Submitted' = Submitted /\ UNCHANGED <<inflight, accepted, toCancel, status>>
  BY DEF RunCallback, Submitted, storage
<1>2. x # NoTransfer
  BY DEF RunCallback, LifeInv, Carried
<1>3. x \in Submitted \ inflight /\ \A u \in Thread : taken[u].transfer = x => u = t
  BY <1>2 DEF LifeInv, ExactlyOnce
<1>4. x \in Transfer
  BY <1>3 DEF Submitted
<1>5. taken'[t].transfer = NoTransfer /\ \A u \in Thread \ {t} : taken'[u] = taken[u]
  BY <1>0 DEF RunCallback, TypeOK, NothingTaken
<1>6. pc[t] = "filled" /\ pc'[t] = "signalling" /\ \A u \in Thread \ {t} : pc'[u] = pc[u]
  BY <1>0 DEF RunCallback, TypeOK
<1>7. completed'[x] = TRUE /\ \A y \in Transfer \ {x} : completed'[y] = completed[y]
  BY <1>0, <1>4 DEF RunCallback, TypeOK
<1>8. status[x] = taken[t].status
  BY <1>6 DEF LifeInv, Carried
<1>9. Carried'
  <2>1. \A u \in Thread : (pc'[u] \in {"taken", "filled"}) <=> (taken'[u].transfer # NoTransfer)
    BY <1>5, <1>6 DEF LifeInv, Carried
  <2>2. \A u \in Thread : taken'[u].transfer # NoTransfer =>
          ((taken'[u].status = "cancelled") <=> (taken'[u].transfer \in accepted))
    BY <1>5 DEF LifeInv, Carried
  <2>3. \A u \in Thread : pc'[u] = "filled" => status[taken'[u].transfer] = taken'[u].status
    BY <1>5, <1>6 DEF LifeInv, Carried
  <2>4. \A y \in Transfer : status[y] # "none" =>
          completed'[y] \/ \E u \in Thread : pc'[u] = "filled" /\ taken'[u].transfer = y
    BY <1>5, <1>6, <1>7 DEF LifeInv, Carried
  <2>5. \A y \in Transfer : completed'[y] => y \in Submitted
    BY <1>3, <1>7 DEF LifeInv, Carried
  <2> QED BY <1>1, <2>1, <2>2, <2>3, <2>4, <2>5 DEF LifeInv, Carried
<1>10. ExactlyOnce'
  <2>1. \A y \in Submitted : y \in inflight \/ (\E u \in Thread : taken'[u].transfer = y)
                              \/ completed'[y]
    BY <1>2, <1>3, <1>5, <1>7 DEF LifeInv, ExactlyOnce, Submitted
  <2>2. \A y \in inflight : y \in Submitted /\ ~completed'[y]
    BY <1>3, <1>7 DEF LifeInv, ExactlyOnce, Submitted
  <2>3. \A u \in Thread : taken'[u].transfer # NoTransfer =>
          /\ taken'[u].transfer \in Submitted \ inflight
          /\ ~completed'[taken'[u].transfer]
          /\ \A v \in Thread : taken'[v].transfer = taken'[u].transfer => v = u
    BY <1>3, <1>5, <1>7 DEF LifeInv, ExactlyOnce, Submitted
  <2> QED BY <1>1, <2>1, <2>2, <2>3 DEF ExactlyOnce
<1>11. CancellationPrecedes'
  BY <1>1 DEF LifeInv, CancellationPrecedes
<1>12. CancelIsFinal'
  BY <1>1, <1>2, <1>4, <1>7, <1>8 DEF LifeInv, CancelIsFinal, Carried
<1> QED BY <1>0, <1>9, <1>10, <1>11, <1>12 DEF LifeInv

LEMMA CancelTransferLife ==
  ASSUME LifeInv, NEW x \in Transfer, CancelTransfer(x)
  PROVE  LifeInv'
<1>0. TypeOK'
  BY CancelTransferType DEF LifeInv
<1>1. Submitted' = Submitted /\ UNCHANGED <<inflight, taken, status, completed>>
  BY DEF CancelTransfer, Submitted, storage, objects
<1>2. accepted' = accepted \union {x} /\ toCancel' = toCancel \union {x}
  BY DEF CancelTransfer
<1>3. x \in inflight /\ x \in Submitted /\ ~completed[x]
      /\ \A u \in Thread : taken[u].transfer # x
  BY TransferAssumption DEF CancelTransfer, LifeInv, ExactlyOnce
<1>4. SameLoads
  BY NotifiedSame DEF SameLoads, CancelTransfer
<1>5. Carried'
  BY <1>1, <1>2, <1>3, <1>4 DEF LifeInv, Carried, SameLoads
<1>6. ExactlyOnce'
  BY <1>1 DEF LifeInv, ExactlyOnce
<1>7. CancellationPrecedes' /\ CancelIsFinal'
  BY <1>1, <1>2, <1>3 DEF LifeInv, CancellationPrecedes, CancelIsFinal
<1> QED BY <1>0, <1>5, <1>6, <1>7 DEF LifeInv

LEMMA JsLife ==
  ASSUME LifeInv, JsStartsNext \/ Tick \/ \E x \in Transfer : JsAnswers(x)
  PROVE  LifeInv'
<1>1. TypeOK'
  BY JsStartsNextType, TickType, JsAnswersType DEF LifeInv
<1>2. UNCHANGED <<inflight, addedAt, taken, objects, toCancel, accepted>>
  BY DEF JsStartsNext, Tick, JsAnswers, JsAnswersInput, JsAnswersOutput, storage
<1>3. SameLoads
  BY NotifiedSame DEF SameLoads, JsStartsNext, Tick, JsAnswers, JsAnswersInput, JsAnswersOutput
<1> QED BY <1>1, <1>2, <1>3, StillLife

-----------------------------------------------------------------------------
(* Calls: what JavaScript was asked for, and what became of its answers    *)

\* A call is made once, for a transfer that was submitted.
CallMade == jsCalls \subseteq Submitted \ prepared

CallInv == CallMade /\ OneCallPerInput /\ OutputResultsInFlight

LEMMA InitCall == Init => CallInv
BY DEF Init, CallInv, CallMade, OneCallPerInput, OutputResultsInFlight

LEMMA StartJsCallCall ==
  ASSUME LifeInv, CallInv, NEW d, StartJsCall(d), UNCHANGED <<inflight, addedAt, outResults>>
  PROVE  CallInv'
<1>0. TypeOK /\ prepared \subseteq inflight /\ inflight \subseteq Submitted
  BY DEF LifeInv, TypeOK, ExactlyOnce
<1>1. Submitted' = Submitted
  BY DEF Submitted
<1>2. CASE UNCHANGED <<prepared, ongoing, jsCalls>>
  BY <1>1, <1>2 DEF CallInv, CallMade, OneCallPerInput, OutputResultsInFlight
<1>3. ASSUME NEW x \in prepared, DestOf[x] = d,
             prepared' = prepared \ {x}, jsCalls' = jsCalls \union {x},
             ongoing' = IF IsInput(d) THEN ongoing \union {d} ELSE ongoing,
             ~(IsInput(d) /\ d \in ongoing)
      PROVE  CallInv'
  <2>1. CallMade'
    BY <1>0, <1>1, <1>3 DEF CallInv, CallMade
  <2>2. OneCallPerInput'
    BY <1>3 DEF CallInv, OneCallPerInput
  <2>3. OutputResultsInFlight'
    BY <1>3 DEF CallInv, OutputResultsInFlight
  <2> QED BY <2>1, <2>2, <2>3 DEF CallInv
<1> QED BY <1>2, <1>3 DEF StartJsCall, IsFirst

LEMMA SubmitCall ==
  ASSUME LifeInv, CallInv, NEW t \in Client, NEW x \in Transfer, Submit(t, x)
  PROVE  CallInv'
<1>1. x \notin Submitted /\ Submitted' = Submitted \union {x}
  BY DEF LifeInv, TypeOK, Submit, AddTransferInFlight, Submitted
<1>2. inflight' = inflight \union {x} /\ prepared' = prepared \union {x}
  BY DEF Submit, AddTransferInFlight
<1>3. UNCHANGED <<ongoing, jsCalls, outResults>>
  BY DEF Submit, js, answers
<1>4. x \notin jsCalls /\ x \notin outResults
  BY <1>1 DEF LifeInv, ExactlyOnce, CallInv, CallMade, OutputResultsInFlight
<1> QED BY <1>1, <1>2, <1>3, <1>4 DEF CallInv, CallMade, OneCallPerInput, OutputResultsInFlight

LEMMA StillCall ==
  ASSUME CallInv, UNCHANGED <<inflight, addedAt, prepared, ongoing, jsCalls, outResults>>
  PROVE  CallInv'
BY DEF CallInv, CallMade, OneCallPerInput, OutputResultsInFlight, Submitted

LEMMA TakeCall ==
  ASSUME CallInv, NEW t, NEW x, NEW outcome, NEW call, Take(t, x, outcome, call)
  PROVE  CallInv'
<1>1. /\ inflight' = inflight \ {x} /\ prepared' = prepared \ {x}
      /\ outResults' = outResults \ {x}
      /\ UNCHANGED <<addedAt, ongoing, jsCalls>>
  BY DEF Take, RemoveTransferInFlight, js
<1> QED BY <1>1 DEF CallInv, CallMade, OneCallPerInput, OutputResultsInFlight, Submitted

LEMMA JsAnswersCall ==
  ASSUME CallInv, NEW x \in Transfer, JsAnswers(x)
  PROVE  CallInv'
<1>1. /\ x \in jsCalls /\ jsCalls' = jsCalls \ {x}
      /\ UNCHANGED <<inflight, addedAt, prepared>>
  BY DEF JsAnswers, JsAnswersInput, JsAnswersOutput, storage
<1>2. CASE JsAnswersInput(x)
  <2>1. ongoing' = ongoing \ {DestOf[x]} /\ IsInput(DestOf[x]) /\ outResults' = outResults
    BY <1>2 DEF JsAnswersInput
  <2> QED BY <1>1, <2>1 DEF CallInv, CallMade, OneCallPerInput, OutputResultsInFlight, Submitted
<1>3. CASE JsAnswersOutput(x)
  <2>1. /\ ~IsInput(DestOf[x]) /\ ongoing' = ongoing
        /\ outResults' = outResults \/ (x \in inflight /\ outResults' = outResults \union {x})
    BY <1>3 DEF JsAnswersOutput
  <2> QED BY <1>1, <2>1 DEF CallInv, CallMade, OneCallPerInput, OutputResultsInFlight, Submitted
<1> QED BY <1>2, <1>3 DEF JsAnswers

-----------------------------------------------------------------------------
(* Owners: the submitter of a synchronous transfer stays until it completed *)

\* The submitter of a transfer it waits for has it as its job.
OwnerInv ==
  /\ \A t \in Client : pc[t] = "idle" => job[t] = NoTransfer
  /\ \A x \in Sync \intersect Submitted : completed[x] \/ \E u \in Client : job[u] = x

LEMMA InitOwner == Init => OwnerInv
BY DEF Init, OwnerInv, Submitted, Thread

LEMMA SubmitOwner ==
  ASSUME TypeOK, OwnerInv, NEW t \in Client, NEW x \in Transfer, Submit(t, x)
  PROVE  OwnerInv'
<1>1. Submitted' = Submitted \union {x} /\ completed' = completed
  BY DEF TypeOK, Submit, AddTransferInFlight, Submitted, objects
<1>2. job[t] = NoTransfer /\ job'[t] = x /\ \A u \in Client \ {t} : job'[u] = job[u]
  BY DEF TypeOK, Submit, OwnerInv, Thread
<1>3. pc'[t] # "idle" /\ \A u \in Client \ {t} : pc'[u] = "idle" => pc[u] = "idle"
  BY DEF TypeOK, Submit, Notified, Thread
<1>4. \A y \in Sync : y # NoTransfer
  BY TransferAssumption
<1> QED BY <1>1, <1>2, <1>3, <1>4 DEF OwnerInv

LEMMA StillOwner ==
  ASSUME OwnerInv, UNCHANGED <<addedAt, job>>,
         \A x \in Transfer : completed[x] => completed'[x],
         \A u \in Client : pc'[u] = "idle" => pc[u] = "idle"
  PROVE  OwnerInv'
BY TransferAssumption DEF OwnerInv, Submitted

LEMMA MaybeStartOwner ==
  ASSUME TypeOK, OwnerInv, NEW t \in Thread, MaybeStart(t)
  PROVE  OwnerInv'
<1>1. Submitted' = Submitted /\ completed' = completed
  BY DEF MaybeStart, Submitted, objects
<1>2. \A u \in Thread \ {t} : job'[u] = job[u] /\ pc'[u] = pc[u]
  BY DEF TypeOK, MaybeStart
<1>3. \/ job[t] \in Sync /\ job'[t] = job[t] /\ pc'[t] # "idle"
      \/ job[t] \notin Sync /\ job'[t] = NoTransfer
  BY DEF TypeOK, MaybeStart
<1> QED BY <1>1, <1>2, <1>3 DEF OwnerInv, Thread

LEMMA ReturnToCallerOwner ==
  ASSUME TypeOK, OwnerInv, NEW t \in Thread, ReturnToCaller(t)
  PROVE  OwnerInv'
<1>1. Submitted' = Submitted /\ completed' = completed
  BY DEF ReturnToCaller, Submitted, storage, objects
<1>2. \A u \in Thread \ {t} : job'[u] = job[u] /\ pc'[u] = pc[u]
  BY DEF TypeOK, ReturnToCaller
<1>3. job'[t] = NoTransfer /\ completed[job[t]]
  BY DEF TypeOK, ReturnToCaller, OwnCompleted
<1> QED BY <1>1, <1>2, <1>3 DEF OwnerInv, Thread

LEMMA ThreadStepOwner ==
  ASSUME TypeOK, OwnerInv, NEW t \in Thread, ThreadStep(t) \/ SpuriousWake(t)
  PROVE  OwnerInv'
<1>1. CASE MaybeStart(t) \/ ReturnToCaller(t)
  BY <1>1, MaybeStartOwner, ReturnToCallerOwner
<1>2. CASE FillTransfer(t) \/ RunCallback(t)
  <2>1. UNCHANGED <<addedAt, job>>
    BY <1>2 DEF FillTransfer, RunCallback, storage, local
  <2>2. \A x \in Transfer : completed[x] => completed'[x]
    BY <1>2 DEF TypeOK, FillTransfer, RunCallback
  <2>3. \A u \in Client : pc'[u] = "idle" => pc[u] = "idle"
    BY <1>2 DEF TypeOK, FillTransfer, RunCallback, Thread
  <2> QED BY <2>1, <2>2, <2>3, StillOwner
<1>3. CASE TakeStep(t)
  <2>1. PICK x, outcome, call : Take(t, x, outcome, call)
    BY <1>3, TakeStepIsTake
  <2>2. UNCHANGED <<addedAt, job, completed>>
    BY <2>1 DEF Take, RemoveTransferInFlight, local, objects
  <2>3. \A u \in Client : pc'[u] = "idle" => pc[u] = "idle"
    BY <2>1 DEF TypeOK, Take, Thread
  <2> QED BY <2>2, <2>3, StillOwner
<1>4. CASE Quiet(t) /\ ~ReturnToCaller(t)
  <2>1. UNCHANGED <<addedAt, job, completed>>
    BY <1>4 DEF Quiet, HandleEvents, TimeoutReturn, CompletedReturn, Park, EnterWait,
           TimedWake, SpuriousWake, Wake, Signal, SignalLocked, storage, local, objects
  <2>2. \A u \in Client : pc'[u] = "idle" => pc[u] = "idle"
    BY <1>4 DEF TypeOK, Quiet, HandleEvents, TimeoutReturn, CompletedReturn, Park, EnterWait,
           TimedWake, SpuriousWake, Wake, Signal, SignalLocked, Notified, Thread
  <2> QED BY <2>1, <2>2, StillOwner
<1> QED BY <1>1, <1>2, <1>3, <1>4 DEF ThreadStep, TakeStep, Quiet

LEMMA OtherOwner ==
  ASSUME TypeOK, OwnerInv,
         JsStartsNext \/ Tick \/ \E x \in Transfer : CancelTransfer(x) \/ JsAnswers(x)
  PROVE  OwnerInv'
<1>1. UNCHANGED <<addedAt, job, completed>>
  BY DEF JsStartsNext, Tick, CancelTransfer, JsAnswers, JsAnswersInput, JsAnswersOutput,
         storage, local, objects
<1>2. \A u \in Client : pc'[u] = "idle" => pc[u] = "idle"
  BY DEF TypeOK, JsStartsNext, Tick, CancelTransfer, JsAnswers, JsAnswersInput,
         JsAnswersOutput, Notified, Thread
<1> QED BY <1>1, <1>2, StillOwner

-----------------------------------------------------------------------------
(* The inductive invariant                                                 *)

IInv == LifeInv /\ CallInv /\ OwnerInv

LEMMA NextInductive == IInv /\ [Next]_vars => IInv'
<1> SUFFICES ASSUME IInv, [Next]_vars PROVE IInv'
  OBVIOUS
<1>0. LifeInv /\ CallInv /\ OwnerInv /\ TypeOK
  BY DEF IInv, LifeInv
<1>1. CASE UNCHANGED vars
  <2>1. UNCHANGED <<storage, answers, js, toCancel, pc, job, taken, objects, accepted>>
    BY <1>1 DEF vars, local
  <2>2. TypeOK'
    BY <1>0, <1>1 DEF TypeOK, vars, storage, answers, js, local, objects
  <2>3. LifeInv'
    BY <1>0, <2>1, <2>2, StillLife DEF SameLoads, storage
  <2>4. CallInv'
    BY <1>0, <2>1, StillCall DEF storage, js, answers
  <2>5. OwnerInv'
    BY <1>0, <2>1, StillOwner DEF storage, objects
  <2> QED BY <2>3, <2>4, <2>5 DEF IInv
<1>2. ASSUME NEW t \in Client, NEW x \in Transfer, Submit(t, x) PROVE IInv'
  BY <1>0, <1>2, SubmitLife, SubmitCall, SubmitOwner DEF IInv
<1>3. ASSUME NEW t \in Thread, ThreadStep(t) \/ SpuriousWake(t) PROVE IInv'
  <2>1. OwnerInv'
    BY <1>0, <1>3, ThreadStepOwner
  <2>2. CASE MaybeStart(t)
    <3>1. CallInv'
      BY <1>0, <2>2, StartJsCallCall DEF MaybeStart, answers
    <3> QED BY <1>0, <2>1, <2>2, <3>1, QuietLife DEF IInv
  <2>3. CASE Quiet(t)
    <3>1. UNCHANGED <<storage, answers, js>>
      BY <2>3 DEF Quiet, HandleEvents, TimeoutReturn, CompletedReturn, ReturnToCaller, Park,
             EnterWait, TimedWake, SpuriousWake, Wake, Signal, SignalLocked
    <3>2. CallInv'
      BY <1>0, <3>1, StillCall DEF storage, js, answers
    <3> QED BY <1>0, <2>1, <2>3, <3>2, QuietLife DEF IInv
  <2>4. CASE TakeStep(t)
    <3>1. outResults \subseteq inflight
      BY <1>0 DEF CallInv, OutputResultsInFlight
    <3>2. CallInv'
      BY <1>0, <2>4, TakeStepIsTake, TakeCall
    <3> QED BY <1>0, <2>1, <2>4, <3>1, <3>2, TakeStepLife DEF IInv
  <2>5. CASE FillTransfer(t) \/ RunCallback(t)
    <3>1. CallInv'
      BY <1>0, <2>5, StillCall DEF FillTransfer, RunCallback, storage, js, answers
    <3> QED BY <1>0, <2>1, <2>5, <3>1, FillTransferLife, RunCallbackLife DEF IInv
  <2> QED BY <1>3, <2>2, <2>3, <2>4, <2>5 DEF ThreadStep, TakeStep, Quiet
<1>4. ASSUME NEW x \in Transfer, CancelTransfer(x) PROVE IInv'
  <2>1. CallInv'
    BY <1>0, <1>4, StillCall DEF CancelTransfer, storage, js, answers
  <2> QED BY <1>0, <1>4, <2>1, CancelTransferLife, OtherOwner DEF IInv
<1>5. ASSUME NEW x \in Transfer, JsAnswers(x) PROVE IInv'
  BY <1>0, <1>5, JsLife, JsAnswersCall, OtherOwner DEF IInv
<1>6. CASE JsStartsNext
  <2>1. CallInv'
    BY <1>0, <1>6, StartJsCallCall DEF JsStartsNext, answers
  <2> QED BY <1>0, <1>6, <2>1, JsLife, OtherOwner DEF IInv
<1>7. CASE Tick
  <2>1. CallInv'
    BY <1>0, <1>7, StillCall DEF Tick, storage, js, answers
  <2> QED BY <1>0, <1>7, <2>1, JsLife, OtherOwner DEF IInv
<1> QED BY <1>1, <1>2, <1>3, <1>4, <1>5, <1>6, <1>7 DEF Next

LEMMA Inductive == Spec => []IInv
<1>1. Init => IInv
  BY InitLife, InitCall, InitOwner DEF IInv
<1> QED BY <1>1, NextInductive, PTL DEF Spec

-----------------------------------------------------------------------------
(* Theorems                                                                *)

\* SetTransferResult reports every transfer once: no two threads carry the same
\* one, and none is lost between the queues and the callback.
THEOREM ReportedExactlyOnce == Spec => []ExactlyOnce
<1>1. IInv => ExactlyOnce
  BY DEF IInv, LifeInv
<1> QED BY <1>1, Inductive, PTL

\* The transfers to cancel are always in flight, so that
\* RemoveTransferInFlight's and the storage's checks never fail for them.
THEOREM ToCancelInFlight == Spec => []CancellationPrecedes
<1>1. IInv => CancellationPrecedes
  BY DEF IInv, LifeInv
<1> QED BY <1>1, Inductive, PTL

\* A transfer ends as cancelled if and only if CancelTransfer returned true for it.
THEOREM CancellationFinal == Spec => []CancelIsFinal
<1>1. IInv => CancelIsFinal
  BY DEF IInv, LifeInv
<1> QED BY <1>1, Inductive, PTL

\* PrepareTransferJsCallForExecution never overlaps two calls for one input
\* destination, and its set of ongoing calls is exact.
THEOREM NoOverlappingInputCalls == Spec => []OneCallPerInput
<1>1. IInv => OneCallPerInput
  BY DEF IInv, CallInv
<1> QED BY <1>1, Inductive, PTL

\* A stored output result is that of an output transfer in flight.
THEOREM OutputResultsCurrent == Spec => []OutputResultsInFlight
<1>1. IInv => OutputResultsInFlight
  BY DEF IInv, CallInv
<1> QED BY <1>1, Inductive, PTL

\* The libusb_transfer of a synchronous call outlives every use by the thread
\* that completes it.
THEOREM TransferOutlivesUse == Spec => []NoUseAfterReturn
<1>1. IInv => NoUseAfterReturn
  <2> SUFFICES ASSUME IInv, NEW t \in Thread, taken[t].transfer \in Sync
               PROVE  \E u \in Client : job[u] = taken[t].transfer
    BY DEF NoUseAfterReturn
  <2>1. taken[t].transfer # NoTransfer
    BY TransferAssumption
  <2>2. taken[t].transfer \in Submitted /\ ~completed[taken[t].transfer]
    BY <2>1 DEF IInv, LifeInv, ExactlyOnce
  <2> QED BY <2>2 DEF IInv, OwnerInv
<1> QED BY <1>1, Inductive, PTL

-----------------------------------------------------------------------------
(* Where the answer to a call can be: awaited, stored, taken or reported,  *)
(* and at one of these places only.                                        *)

\* The call of c was made.
Called(c) == c \in Submitted \ prepared

\* The answer to the call of c was given to a transfer.
Given(c) ==
  \/ \E t \in Thread : taken[t].call = c
  \/ \E y \in Transfer : answeredBy[y] = c

Holds(s, c) == \E i \in 1..Len(s) : s[i] = c

Distinct(s) == \A i, j \in 1..Len(s) : s[i] = s[j] => i = j

\* A call that runs has no answer yet.
Awaited ==
  \A c \in jsCalls : ~Given(c) /\ \A d \in InputDest : ~Holds(results[d], c)

\* An answer that is stored is the only one to its call.
Stored ==
  /\ \A d \in InputDest :
       /\ Distinct(results[d])
       /\ \A c \in Transfer : Holds(results[d], c) =>
            Called(c) /\ ~Given(c) /\ DestOf[c] = d
  /\ \A c \in outResults : ~Given(c)

\* What a thread carries is the answer to an equivalent transfer's call.
TakenOnce ==
  \A t \in Thread : \A c \in Transfer : taken[t].call = c =>
    /\ taken[t].transfer \in Transfer /\ Called(c)
    /\ DestOf[c] = DestOf[taken[t].transfer]
    /\ DestOf[c] \notin InputDest => c = taken[t].transfer
    /\ \A y \in Transfer : answeredBy[y] = c => y = taken[t].transfer
    /\ \A u \in Thread : taken[u].call = c => u = t

ReportedOnce == \A y, c \in Transfer : answeredBy[y] = c => Called(c)

AnswerInv == Awaited /\ Stored /\ TakenOnce /\ ReportedOnce

\* What a thread is to report of a transfer is due.
Due(x, outcome, call) ==
  \/ outcome = "cancelled" /\ call = NoTransfer
  \/ outcome = "timed_out" /\ call = NoTransfer /\ Timeout[x] > 0 /\ now >= deadline[x]
  \/ outcome = "answered" /\ call \in Transfer

DueInv ==
  /\ now <= Horizon
  /\ \A x \in Submitted : Timeout[x] = 0 => deadline[x] = Forever
  /\ \A x \in Transfer : status[x] = "none" => answeredBy[x] = NoTransfer
  /\ \A t \in Thread : taken[t].transfer # NoTransfer =>
       Due(taken[t].transfer, taken[t].status, taken[t].call)

\* The invariants of this module, with those of LibusbContext_proofs
RInv == IInv /\ AnswerInv /\ DueInv

-----------------------------------------------------------------------------
(* Sequences of answers                                                    *)

LEMMA AppendHolds ==
  ASSUME NEW S, NEW s \in Seq(S), NEW e \in S
  PROVE  /\ \A c : Holds(Append(s, e), c) => Holds(s, c) \/ c = e
         /\ Distinct(s) /\ ~Holds(s, e) => Distinct(Append(s, e))
<1> DEFINE r == Append(s, e)
<1>1. /\ Len(s) \in Nat /\ Len(r) = Len(s) + 1 /\ r[Len(s) + 1] = e
      /\ \A i \in 1..Len(s) : r[i] = s[i]
  OBVIOUS
<1>2. \A i \in 1..Len(r) : i \in 1..Len(s) \/ i = Len(s) + 1
  BY <1>1
<1> HIDE DEF r
<1>3. \A c : Holds(r, c) => Holds(s, c) \/ c = e
  BY <1>1, <1>2 DEF Holds
<1>4. ASSUME Distinct(s), ~Holds(s, e) PROVE Distinct(r)
  BY <1>1, <1>2, <1>4 DEF Distinct, Holds
<1> QED BY <1>3, <1>4 DEF r

LEMMA TailHolds ==
  ASSUME NEW S, NEW s \in Seq(S), s # <<>>
  PROVE  /\ Holds(s, Head(s))
         /\ \A c : Holds(Tail(s), c) => Holds(s, c)
         /\ Distinct(s) => Distinct(Tail(s)) /\ ~Holds(Tail(s), Head(s))
<1> DEFINE r == Tail(s)  h == Head(s)
<1>1. /\ Len(s) \in Nat /\ 1 \in 1..Len(s) /\ h = s[1] /\ Len(r) = Len(s) - 1
      /\ \A i \in 1..Len(r) : i + 1 \in 1..Len(s) /\ r[i] = s[i + 1]
  OBVIOUS
<1> HIDE DEF r, h
<1>2. Holds(s, h) /\ \A c : Holds(r, c) => Holds(s, c)
  BY <1>1 DEF Holds
<1>3. ASSUME Distinct(s) PROVE Distinct(r) /\ ~Holds(r, h)
  <2>1. \A i, j \in 1..Len(r) : r[i] = r[j] => i + 1 = j + 1
    BY <1>1, <1>3 DEF Distinct
  <2>2. Distinct(r)
    BY <2>1 DEF Distinct
  <2>3. \A i \in 1..Len(r) : r[i] = h => i + 1 = 1
    BY <1>1, <1>3 DEF Distinct
  <2> QED BY <2>2, <2>3 DEF Holds
<1> QED BY <1>2, <1>3 DEF r, h

LEMMA InitAnswer == Init => AnswerInv /\ DueInv
<1> SUFFICES ASSUME Init PROVE AnswerInv /\ DueInv
  OBVIOUS
<1>1. \A d \in InputDest : Len(results[d]) = 0
  BY DEF Init
<1>2. \A c \in Transfer : \A t \in Thread : taken[t].call # c
  BY TransferAssumption DEF Init, NothingTaken
<1>3. \A c \in Transfer : \A y \in Transfer : answeredBy[y] # c
  BY TransferAssumption DEF Init
<1>4. AnswerInv
  BY <1>1, <1>2, <1>3
     DEF Init, AnswerInv, Awaited, Stored, TakenOnce, ReportedOnce, Distinct, Holds
<1>5. DueInv
  BY TimeAssumption DEF Init, DueInv, Submitted, NothingTaken
<1> QED BY <1>4, <1>5

-----------------------------------------------------------------------------
(* The steps that keep every answer where it is                            *)

LEMMA StillAnswer ==
  ASSUME AnswerInv, jsCalls' \subseteq jsCalls,
         \A c \in Transfer : Called(c) => Called(c)',
         UNCHANGED <<results, outResults, taken, answeredBy>>
  PROVE  AnswerInv'
<1>1. \A c : Given(c)' <=> Given(c)
  BY DEF Given
<1>2. Awaited'
  BY <1>1 DEF AnswerInv, Awaited
<1>3. Stored'
  BY <1>1 DEF AnswerInv, Stored
<1>4. TakenOnce' /\ ReportedOnce'
  BY DEF AnswerInv, TakenOnce, ReportedOnce
<1> QED BY <1>2, <1>3, <1>4 DEF AnswerInv

\* A call that is started was not made before.
LEMMA StartJsCallAnswer ==
  ASSUME RInv, NEW d, StartJsCall(d),
         UNCHANGED <<addedAt, results, outResults, taken, answeredBy>>
  PROVE  AnswerInv'
<1>0. TypeOK
  BY DEF RInv, IInv, LifeInv
<1>1. \A c : Given(c)' <=> Given(c)
  BY DEF Given
<1>2. prepared' \subseteq prepared /\ Submitted' = Submitted
  BY <1>0, StartJsCallType DEF Submitted
<1>3. \A c : Called(c) => Called(c)'
  BY <1>2 DEF Called
<1>4. CASE jsCalls' \subseteq jsCalls
  BY <1>3, <1>4, StillAnswer DEF RInv
<1>5. ASSUME NEW x \in prepared, jsCalls' = jsCalls \union {x} PROVE AnswerInv'
  <2>1. ~Called(x) /\ x \in Transfer
    BY <1>0 DEF Called, TypeOK
  <2>2. ~Given(x)
    BY <2>1 DEF RInv, AnswerInv, TakenOnce, ReportedOnce, Given
  <2>3. \A e \in InputDest : ~Holds(results[e], x)
    BY <2>1 DEF RInv, AnswerInv, Stored
  <2>4. Awaited'
    BY <1>1, <1>5, <2>2, <2>3 DEF RInv, AnswerInv, Awaited
  <2>5. Stored'
    BY <1>1, <1>3 DEF RInv, AnswerInv, Stored
  <2>6. TakenOnce' /\ ReportedOnce'
    BY <1>3 DEF RInv, AnswerInv, TakenOnce, ReportedOnce
  <2> QED BY <2>4, <2>5, <2>6 DEF AnswerInv
<1> QED BY <1>4, <1>5 DEF StartJsCall

LEMMA SubmitAnswer ==
  ASSUME RInv, NEW t \in Client, NEW x \in Transfer, Submit(t, x)
  PROVE  AnswerInv'
<1>1. x \notin Submitted /\ Submitted' = Submitted \union {x}
  BY DEF RInv, IInv, LifeInv, TypeOK, Submit, AddTransferInFlight, Submitted
<1>2. prepared' = prepared \union {x}
  BY DEF Submit, AddTransferInFlight
<1>3. \A c : Called(c) => Called(c)'
  BY <1>1, <1>2 DEF Called
<1> QED BY <1>3, StillAnswer DEF RInv, Submit, answers, js, objects

-----------------------------------------------------------------------------
(* Answers on the move                                                     *)

\* JavaScript answers: from the calls to the results.
LEMMA JsAnswersAnswer ==
  ASSUME RInv, NEW x \in Transfer, JsAnswers(x)
  PROVE  AnswerInv'
<1>0. TypeOK
  BY DEF RInv, IInv, LifeInv
<1>1. /\ x \in jsCalls /\ jsCalls' = jsCalls \ {x}
      /\ UNCHANGED <<addedAt, prepared, taken, answeredBy>>
  BY DEF JsAnswers, JsAnswersInput, JsAnswersOutput, storage, objects
<1>2. Called(x) /\ ~Given(x) /\ \A d \in InputDest : ~Holds(results[d], x)
  BY <1>1 DEF RInv, IInv, CallInv, CallMade, AnswerInv, Awaited, Called
<1>3. (\A c : Given(c)' <=> Given(c)) /\ (\A c : Called(c)' <=> Called(c))
  BY <1>1 DEF Given, Called, Submitted
<1>4. TakenOnce' /\ ReportedOnce'
  BY <1>1, <1>3 DEF RInv, AnswerInv, TakenOnce, ReportedOnce
<1>5. CASE JsAnswersInput(x)
  <2> DEFINE d == DestOf[x]
  <2>1. d \in InputDest /\ results[d] \in Seq(Transfer)
    BY <1>0, <1>5 DEF JsAnswersInput, IsInput, TypeOK
  <2>2. /\ results'[d] = Append(results[d], x)
        /\ \A e \in InputDest \ {d} : results'[e] = results[e]
        /\ outResults' = outResults
    BY <1>0, <1>5, <2>1 DEF JsAnswersInput, TypeOK
  <2>3. /\ \A c : Holds(results'[d], c) => Holds(results[d], c) \/ c = x
        /\ Distinct(results[d]) /\ ~Holds(results[d], x) => Distinct(results'[d])
    BY <2>1, <2>2, AppendHolds
  <2>4. \A e \in InputDest : \A c : Holds(results'[e], c) =>
          Holds(results[e], c) \/ (c = x /\ e = d)
    BY <2>2, <2>3
  <2>5. \A e \in InputDest : Distinct(results'[e])
    BY <1>2, <2>1, <2>2, <2>3 DEF RInv, AnswerInv, Stored
  <2>6. Awaited'
    <3>1. \A c \in jsCalls' : c \in jsCalls /\ c # x
      BY <1>1
    <3>2. \A c \in jsCalls' : ~Given(c)' /\ \A e \in InputDest : ~Holds(results[e], c)
      BY <1>3, <3>1 DEF RInv, AnswerInv, Awaited
    <3>3. \A c \in jsCalls' : \A e \in InputDest : ~Holds(results'[e], c)
      BY <2>4, <3>1, <3>2
    <3> QED BY <3>2, <3>3 DEF Awaited
  <2>7. Stored'
    <3>1. ASSUME NEW e \in InputDest, NEW c \in Transfer, Holds(results'[e], c)
          PROVE  Called(c) /\ ~Given(c) /\ DestOf[c] = e
      <4>1. CASE Holds(results[e], c)
        BY <4>1 DEF RInv, AnswerInv, Stored
      <4>2. CASE c = x /\ e = d
        BY <1>2, <4>2
      <4> QED BY <2>4, <3>1, <4>1, <4>2
    <3>2. \A c \in outResults' : ~Given(c)
      BY <2>2 DEF RInv, AnswerInv, Stored
    <3> QED BY <1>3, <2>5, <3>1, <3>2 DEF Stored
  <2> QED BY <1>4, <2>6, <2>7 DEF AnswerInv
<1>6. CASE JsAnswersOutput(x)
  <2>1. results' = results /\ outResults' \subseteq outResults \union {x}
    BY <1>6 DEF JsAnswersOutput
  <2>2. Awaited'
    BY <1>1, <1>3, <2>1 DEF RInv, AnswerInv, Awaited
  <2>3. Stored'
    BY <1>2, <1>3, <2>1 DEF RInv, AnswerInv, Stored
  <2> QED BY <1>4, <2>2, <2>3 DEF AnswerInv
<1> QED BY <1>5, <1>6 DEF JsAnswers

\* A thread takes the answer to `call`, which no result holds any more, or it
\* takes none and `call` is NoTransfer.
LEMMA TakeAnswer ==
  ASSUME RInv, NEW t \in Thread, NEW x \in Transfer, NEW outcome,
         NEW call \in Transfer \union {NoTransfer}, Take(t, x, outcome, call),
         \A d \in InputDest :
           /\ Distinct(results'[d])
           /\ \A c \in Transfer : Holds(results'[d], c) => Holds(results[d], c) /\ c # call,
         call \in Transfer =>
           /\ Called(call) /\ ~Given(call)
           /\ call \notin jsCalls /\ call \notin outResults'
           /\ DestOf[call] = DestOf[x] /\ (DestOf[x] \notin InputDest => call = x)
  PROVE  AnswerInv'
<1>0. TypeOK
  BY DEF RInv, IInv, LifeInv
<1>1. /\ prepared' = prepared \ {x} /\ outResults' \subseteq outResults
      /\ outResults \subseteq Transfer /\ jsCalls \subseteq Transfer
      /\ UNCHANGED <<addedAt, jsCalls, answeredBy>>
  BY <1>0 DEF Take, RemoveTransferInFlight, js, objects, TypeOK
<1>2. /\ taken'[t].call = call /\ taken'[t].transfer = x
      /\ \A u \in Thread \ {t} : taken'[u] = taken[u]
  BY <1>0 DEF Take, TypeOK
<1>3. \A c : Called(c) => Called(c)'
  BY <1>1 DEF Called, Submitted
<1>4. \A c : Given(c)' => Given(c) \/ c = call
  BY <1>1, <1>2 DEF Given
<1>5. Awaited'
  BY <1>1, <1>4 DEF RInv, AnswerInv, Awaited
<1>6. Stored'
  <2>1. \A d \in InputDest : \A c \in Transfer : Holds(results'[d], c) =>
          Called(c)' /\ ~Given(c)' /\ DestOf[c] = d
    BY <1>3, <1>4 DEF RInv, AnswerInv, Stored
  <2>2. \A c \in outResults' : ~Given(c)'
    BY <1>1, <1>4 DEF RInv, AnswerInv, Stored
  <2> QED BY <2>1, <2>2 DEF Stored
<1>7. TakenOnce'
  <2> SUFFICES ASSUME NEW u \in Thread, NEW c \in Transfer, taken'[u].call = c
               PROVE  /\ taken'[u].transfer \in Transfer /\ Called(c)'
                      /\ DestOf[c] = DestOf[taken'[u].transfer]
                      /\ DestOf[c] \notin InputDest => c = taken'[u].transfer
                      /\ \A y \in Transfer : answeredBy'[y] = c => y = taken'[u].transfer
                      /\ \A v \in Thread : taken'[v].call = c => v = u
    BY DEF TakenOnce
  <2>1. CASE u = t
    <3>1. c = call
      BY <1>2, <2>1
    <3>2. \A v \in Thread \ {t} : taken'[v].call # c
      BY <1>2, <3>1 DEF Given
    <3> QED BY <1>1, <1>2, <1>3, <2>1, <3>1, <3>2 DEF Given
  <2>2. CASE u # t
    <3>1. Given(c) /\ taken[u].call = c /\ taken'[u] = taken[u]
      BY <1>2, <2>2 DEF Given
    <3>2. c # call
      BY <3>1
    <3> QED BY <1>1, <1>2, <1>3, <2>2, <3>1, <3>2 DEF RInv, AnswerInv, TakenOnce
  <2> QED BY <2>1, <2>2
<1>8. ReportedOnce'
  BY <1>1, <1>3 DEF RInv, AnswerInv, ReportedOnce
<1> QED BY <1>5, <1>6, <1>7, <1>8 DEF AnswerInv

LEMMA TakeStepAnswer ==
  ASSUME RInv, NEW t \in Thread, TakeStep(t)
  PROVE  AnswerInv'
<1>0. TypeOK
  BY DEF RInv, IInv, LifeInv
<1>1. NoTransfer \notin Transfer
  BY TransferAssumption
<1>2. ASSUME NEW x \in Transfer, NEW outcome, Take(t, x, outcome, NoTransfer),
             UNCHANGED results
      PROVE  AnswerInv'
  <2>1. \A d \in InputDest :
          /\ Distinct(results'[d])
          /\ \A c \in Transfer : Holds(results'[d], c) => Holds(results[d], c) /\ c # NoTransfer
    BY <1>1, <1>2 DEF RInv, AnswerInv, Stored
  <2> QED BY <1>1, <1>2, <2>1, TakeAnswer
<1>3. CASE TakeCancelled(t)
  BY <1>0, <1>2, <1>3 DEF TakeCancelled, TypeOK
<1>4. CASE TakeTimedOut(t)
  BY <1>0, <1>2, <1>4 DEF TakeTimedOut, TypeOK
<1>5. CASE TakeOutputResult(t)
  <2>1. PICK x \in outResults : Take(t, x, "answered", x)
    BY <1>5 DEF TakeOutputResult
  <2>2. /\ x \in Transfer /\ x \notin jsCalls /\ DestOf[x] \notin InputDest
        /\ x \in inflight \ prepared /\ x \in Submitted
    BY <1>0 DEF RInv, IInv, CallInv, OutputResultsInFlight, LifeInv, ExactlyOnce,
                TypeOK, IsInput
  <2>3. Called(x) /\ ~Given(x) /\ x \notin outResults'
    BY <2>1, <2>2 DEF Called, RInv, AnswerInv, Stored, Take, RemoveTransferInFlight
  <2>4. \A d \in InputDest :
          /\ Distinct(results'[d])
          /\ \A c \in Transfer : Holds(results'[d], c) => Holds(results[d], c) /\ c # x
    BY <1>5, <2>2 DEF TakeOutputResult, RInv, AnswerInv, Stored
  <2> QED BY <2>1, <2>2, <2>3, <2>4, TakeAnswer
<1>6. CASE TakeInputResult(t)
  <2>1. PICK d \in InputDest, x \in Transfer :
          /\ results[d] # <<>> /\ DestOf[x] = d
          /\ Take(t, x, "answered", Head(results[d]))
          /\ results' = [results EXCEPT ![d] = Tail(@)]
    BY <1>0, <1>6 DEF TakeInputResult, InFlightOn, TypeOK
  <2> DEFINE call == Head(results[d])
  <2>2. /\ results[d] \in Seq(Transfer) /\ call \in Transfer
    BY <1>0, <2>1, TailType DEF TypeOK
  <2>3. results'[d] = Tail(results[d]) /\ \A e \in InputDest \ {d} : results'[e] = results[e]
    BY <1>0, <2>1 DEF TypeOK
  <2>4. /\ Holds(results[d], call)
        /\ \A c : Holds(results'[d], c) => Holds(results[d], c)
        /\ Distinct(results[d]) => Distinct(results'[d]) /\ ~Holds(results'[d], call)
    BY <2>1, <2>2, <2>3, TailHolds
  <2> HIDE DEF call
  <2>5. Called(call) /\ ~Given(call) /\ DestOf[call] = d
    BY <2>2, <2>4 DEF RInv, AnswerInv, Stored
  <2>6. call \notin jsCalls
    BY <2>4 DEF RInv, AnswerInv, Awaited
  <2>7. call \notin outResults'
    <3>1. outResults' \subseteq outResults
      BY <2>1 DEF Take, RemoveTransferInFlight
    <3> QED BY <2>5, <3>1 DEF RInv, IInv, CallInv, OutputResultsInFlight, IsInput
  <2>8. ASSUME NEW e \in InputDest
        PROVE  /\ Distinct(results'[e])
               /\ \A c \in Transfer : Holds(results'[e], c) => Holds(results[e], c) /\ c # call
    <3>1. CASE e = d
      BY <2>4, <3>1 DEF RInv, AnswerInv, Stored
    <3>2. CASE e # d
      BY <2>3, <2>5, <3>2 DEF RInv, AnswerInv, Stored
    <3> QED BY <3>1, <3>2
  <2> QED BY <2>1, <2>2, <2>5, <2>6, <2>7, <2>8, TakeAnswer DEF call
<1> QED BY <1>3, <1>4, <1>5, <1>6 DEF TakeStep

\* The answer goes from the thread to the transfer.
LEMMA FillTransferAnswer ==
  ASSUME RInv, NEW t \in Thread, FillTransfer(t)
  PROVE  AnswerInv'
<1> DEFINE x == taken[t].transfer  call == taken[t].call
<1>0. TypeOK
  BY DEF RInv, IInv, LifeInv
<1>1. /\ UNCHANGED <<addedAt, prepared, jsCalls, results, outResults, taken>>
      /\ \A y \in Transfer : answeredBy'[y] = IF y = x THEN call ELSE answeredBy[y]
  BY <1>0 DEF FillTransfer, TypeOK, storage, answers, js
<1>2. \A c : Called(c)' <=> Called(c)
  BY <1>1 DEF Called, Submitted
<1>3. \A c : Given(c)' => Given(c)
  BY <1>1 DEF Given
<1>4. Awaited'
  BY <1>1, <1>3 DEF RInv, AnswerInv, Awaited
<1>5. Stored'
  BY <1>1, <1>2, <1>3 DEF RInv, AnswerInv, Stored
<1>6. TakenOnce'
  <2> SUFFICES ASSUME NEW u \in Thread, NEW c \in Transfer, taken[u].call = c,
                      NEW y \in Transfer, answeredBy'[y] = c
               PROVE  y = taken[u].transfer
    BY <1>1, <1>2 DEF RInv, AnswerInv, TakenOnce
  <2>1. CASE y = x
    BY <1>1, <2>1 DEF RInv, AnswerInv, TakenOnce
  <2>2. CASE y # x
    BY <1>1, <2>2 DEF RInv, AnswerInv, TakenOnce
  <2> QED BY <2>1, <2>2
<1>7. ReportedOnce'
  <2>1. call \in Transfer => Called(call)
    BY DEF RInv, AnswerInv, TakenOnce
  <2> QED BY <1>1, <1>2, <2>1 DEF RInv, AnswerInv, ReportedOnce
<1> QED BY <1>4, <1>5, <1>6, <1>7 DEF AnswerInv

LEMMA RunCallbackAnswer ==
  ASSUME RInv, NEW t \in Thread, RunCallback(t)
  PROVE  AnswerInv'
<1>0. TypeOK /\ NoTransfer \notin Transfer
  BY TransferAssumption DEF RInv, IInv, LifeInv
<1>1. /\ UNCHANGED <<addedAt, prepared, jsCalls, results, outResults, answeredBy>>
      /\ taken'[t].call = NoTransfer
      /\ \A u \in Thread \ {t} : taken'[u] = taken[u]
  BY <1>0 DEF RunCallback, TypeOK, storage, answers, js, NothingTaken
<1>2. \A c : Called(c)' <=> Called(c)
  BY <1>1 DEF Called, Submitted
<1>3. \A c \in Transfer : Given(c)' => Given(c)
  BY <1>0, <1>1 DEF Given
<1>4. Awaited'
  <2>1. \A c \in jsCalls : c \in Transfer
    BY <1>0 DEF TypeOK
  <2> QED BY <1>1, <1>3, <2>1 DEF RInv, AnswerInv, Awaited
<1>5. Stored'
  <2>1. \A c \in outResults : c \in Transfer
    BY <1>0 DEF TypeOK
  <2> QED BY <1>1, <1>2, <1>3, <2>1 DEF RInv, AnswerInv, Stored
<1>6. \A u \in Thread, c \in Transfer : taken'[u].call = c => u # t /\ taken'[u] = taken[u]
  BY <1>0, <1>1
<1>7. TakenOnce'
  BY <1>1, <1>2, <1>6 DEF RInv, AnswerInv, TakenOnce
<1>8. ReportedOnce'
  BY <1>1, <1>2 DEF RInv, AnswerInv, ReportedOnce
<1> QED BY <1>4, <1>5, <1>7, <1>8 DEF AnswerInv

-----------------------------------------------------------------------------
(* The outcomes that threads carry are due                                 *)

\* Nothing but the clock and the deadlines of new transfers changes.
LEMMA StillDue ==
  ASSUME RInv, now <= now', now' \in Nat, now' <= Horizon,
         UNCHANGED <<addedAt, deadline, taken, status, answeredBy>>
  PROVE  DueInv'
<1>1. \A x \in Transfer : deadline[x] \in Nat
  BY DEF RInv, IInv, LifeInv, TypeOK
<1>2. \A t \in Thread : taken[t].transfer # NoTransfer => taken[t].transfer \in Transfer
  BY DEF RInv, IInv, LifeInv, TypeOK
<1>3. now \in Nat
  BY DEF RInv, IInv, LifeInv, TypeOK
<1>4. ASSUME NEW t \in Thread, taken[t].transfer # NoTransfer
      PROVE  Due(taken[t].transfer, taken[t].status, taken[t].call)'
  <2>1. Due(taken[t].transfer, taken[t].status, taken[t].call)
    BY <1>4 DEF RInv, DueInv
  <2>2. now >= deadline[taken[t].transfer] => now' >= deadline[taken[t].transfer]
    BY <1>1, <1>2, <1>3, <1>4
  <2> QED BY <2>1, <2>2 DEF Due
<1> QED BY <1>4 DEF RInv, DueInv, Submitted

LEMMA SubmitDue ==
  ASSUME RInv, NEW t \in Client, NEW x \in Transfer, Submit(t, x)
  PROVE  DueInv'
<1>0. TypeOK
  BY DEF RInv, IInv, LifeInv
<1>1. /\ x \notin Submitted /\ Submitted' = Submitted \union {x}
      /\ UNCHANGED <<now, taken, status, answeredBy>>
      /\ deadline' = [deadline EXCEPT ![x] =
                        IF Timeout[x] = 0 THEN Forever ELSE now + Timeout[x]]
  BY <1>0 DEF TypeOK, Submit, AddTransferInFlight, Submitted, objects
<1>2. \A y \in Submitted : y \in Transfer /\ deadline'[y] = deadline[y]
  BY <1>0, <1>1 DEF TypeOK, Submitted
<1>3. \A y \in Submitted' : Timeout[y] = 0 => deadline'[y] = Forever
  BY <1>0, <1>1, <1>2 DEF TypeOK, RInv, DueInv
<1>4. \A u \in Thread : taken[u].transfer # NoTransfer => taken[u].transfer \in Submitted
  BY DEF RInv, IInv, LifeInv, ExactlyOnce
<1>5. \A u \in Thread : taken[u].transfer # NoTransfer =>
        Due(taken[u].transfer, taken[u].status, taken[u].call)'
  BY <1>1, <1>2, <1>4 DEF RInv, DueInv, Due
<1> QED BY <1>1, <1>3, <1>5 DEF RInv, DueInv

\* Only a finite deadline can have passed.
LEMMA PassedDeadline ==
  ASSUME RInv, NEW x \in inflight, now >= deadline[x]
  PROVE  Timeout[x] > 0
<1>1. x \in Submitted /\ x \in Transfer /\ Timeout[x] \in Nat /\ now \in Nat
  BY TransferAssumption DEF RInv, IInv, LifeInv, TypeOK, ExactlyOnce
<1>2. now < Forever
  BY <1>1, TimeAssumption DEF RInv, DueInv
<1> QED BY <1>1, <1>2, TimeAssumption DEF RInv, DueInv

LEMMA TakeDue ==
  ASSUME RInv, NEW t \in Thread, NEW x \in Transfer, NEW outcome, NEW call,
         Take(t, x, outcome, call), Due(x, outcome, call)
  PROVE  DueInv'
<1>1. /\ taken' = [taken EXCEPT ![t] = [transfer |-> x, status |-> outcome, call |-> call]]
      /\ UNCHANGED <<addedAt, deadline, status, answeredBy, now>>
  BY DEF Take, RemoveTransferInFlight, objects
<1>2. /\ taken'[t].transfer = x /\ taken'[t].status = outcome /\ taken'[t].call = call
      /\ \A u \in Thread \ {t} : taken'[u] = taken[u]
  BY <1>1 DEF RInv, IInv, LifeInv, TypeOK
<1>3. \A y, o, c : Due(y, o, c)' <=> Due(y, o, c)
  BY <1>1 DEF Due
<1>4. \A u \in Thread : taken'[u].transfer # NoTransfer =>
        Due(taken'[u].transfer, taken'[u].status, taken'[u].call)
  BY <1>2 DEF RInv, DueInv
<1>5. \A u \in Thread : taken'[u].transfer # NoTransfer =>
        /\ \/ taken'[u].status = "cancelled" /\ taken'[u].call = NoTransfer
           \/ /\ taken'[u].status = "timed_out" /\ taken'[u].call = NoTransfer
              /\ Timeout[taken'[u].transfer] > 0
              /\ now' >= deadline'[taken'[u].transfer]
           \/ taken'[u].status = "answered" /\ taken'[u].call \in Transfer
  BY <1>1, <1>4 DEF Due
<1> QED BY <1>1, <1>5 DEF RInv, DueInv, Due, Submitted

LEMMA TakeStepDue ==
  ASSUME RInv, NEW t \in Thread, TakeStep(t)
  PROVE  DueInv'
<1>0. TypeOK
  BY DEF RInv, IInv, LifeInv
<1>1. CASE TakeCancelled(t)
  BY <1>0, <1>1, TakeDue DEF TakeCancelled, TypeOK, Due
<1>2. CASE TakeTimedOut(t)
  <2>1. PICK x \in inflight : IsMinTimeout(x) /\ Take(t, x, "timed_out", NoTransfer)
    BY <1>2 DEF TakeTimedOut
  <2>2. PICK y \in inflight : now >= deadline[y]
    BY <1>2 DEF TakeTimedOut, TimeoutFound
  <2>3. deadline[x] <= deadline[y]
    BY <2>1 DEF IsMinTimeout, IsFirst
  <2>4. x \in Transfer /\ deadline[x] \in Nat /\ deadline[y] \in Nat /\ now \in Nat
    BY <1>0 DEF TypeOK
  <2>5. now >= deadline[x]
    BY <2>2, <2>3, <2>4
  <2> QED BY <2>1, <2>4, <2>5, PassedDeadline, TakeDue DEF Due
<1>3. CASE TakeOutputResult(t)
  BY <1>0, <1>3, TakeDue DEF TakeOutputResult, TypeOK, Due
<1>4. CASE TakeInputResult(t)
  <2>1. PICK d \in InputDest, x \in Transfer :
          results[d] # <<>> /\ Take(t, x, "answered", Head(results[d]))
    BY <1>0, <1>4 DEF TakeInputResult, InFlightOn, TypeOK
  <2>2. Head(results[d]) \in Transfer
    BY <1>0, <2>1, TailType DEF TypeOK
  <2> QED BY <2>1, <2>2, TakeDue DEF Due
<1> QED BY <1>1, <1>2, <1>3, <1>4 DEF TakeStep

\* What a thread carries is an outcome, so that the transfer it fills has one.
LEMMA FillTransferDue ==
  ASSUME RInv, NEW t \in Thread, FillTransfer(t)
  PROVE  DueInv'
<1> DEFINE x == taken[t].transfer
<1>0. TypeOK
  BY DEF RInv, IInv, LifeInv
<1>1. /\ UNCHANGED <<addedAt, deadline, now, taken>>
      /\ \A y \in Transfer : y # x => status'[y] = status[y] /\ answeredBy'[y] = answeredBy[y]
      /\ x \in Transfer => status'[x] = taken[t].status
  BY <1>0 DEF FillTransfer, TypeOK, storage
<1>2. x # NoTransfer
  BY DEF RInv, IInv, LifeInv, Carried, FillTransfer
<1>3. taken[t].status # "none"
  BY <1>2 DEF RInv, DueInv, Due
<1>4. \A y \in Transfer : status'[y] = "none" => answeredBy'[y] = NoTransfer
  BY <1>1, <1>3 DEF RInv, DueInv
<1>5. \A y, o, c : Due(y, o, c)' <=> Due(y, o, c)
  BY <1>1 DEF Due
<1> QED BY <1>1, <1>4, <1>5 DEF RInv, DueInv, Submitted

LEMMA RunCallbackDue ==
  ASSUME RInv, NEW t \in Thread, RunCallback(t)
  PROVE  DueInv'
<1>0. TypeOK
  BY DEF RInv, IInv, LifeInv
<1>1. /\ UNCHANGED <<addedAt, deadline, now, status, answeredBy>>
      /\ taken'[t].transfer = NoTransfer
      /\ \A u \in Thread \ {t} : taken'[u] = taken[u]
  BY <1>0 DEF RunCallback, TypeOK, storage, NothingTaken
<1>2. \A u \in Thread : taken'[u].transfer # NoTransfer =>
        /\ taken'[u] = taken[u]
        /\ Due(taken[u].transfer, taken[u].status, taken[u].call)
  BY <1>1 DEF RInv, DueInv
<1>3. \A u \in Thread : taken'[u].transfer # NoTransfer =>
        /\ \/ taken'[u].status = "cancelled" /\ taken'[u].call = NoTransfer
           \/ /\ taken'[u].status = "timed_out" /\ taken'[u].call = NoTransfer
              /\ Timeout[taken'[u].transfer] > 0
              /\ now' >= deadline'[taken'[u].transfer]
           \/ taken'[u].status = "answered" /\ taken'[u].call \in Transfer
  BY <1>1, <1>2 DEF Due
<1> QED BY <1>1, <1>3 DEF RInv, DueInv, Due, Submitted

LEMMA NextRInv == RInv /\ [Next]_vars => RInv'
<1> SUFFICES ASSUME RInv, [Next]_vars PROVE AnswerInv' /\ DueInv'
  BY NextInductive DEF RInv
<1>0. TypeOK /\ now \in Nat /\ now <= now /\ now <= Horizon
  BY DEF RInv, IInv, LifeInv, TypeOK, DueInv
<1>1. CASE UNCHANGED vars
  BY <1>0, <1>1, StillAnswer, StillDue
     DEF RInv, vars, storage, answers, js, objects, Called, Submitted
<1>2. ASSUME NEW t \in Client, NEW x \in Transfer, Submit(t, x) PROVE AnswerInv' /\ DueInv'
  BY <1>2, SubmitAnswer, SubmitDue
<1>3. ASSUME NEW t \in Thread, ThreadStep(t) \/ SpuriousWake(t) PROVE AnswerInv' /\ DueInv'
  <2>1. CASE MaybeStart(t)
    BY <1>0, <2>1, StartJsCallAnswer, StillDue DEF MaybeStart, answers, objects
  <2>2. CASE Quiet(t)
    <3>1. UNCHANGED <<storage, answers, js, taken, objects, now>>
      BY <2>2 DEF Quiet, HandleEvents, TimeoutReturn, CompletedReturn, ReturnToCaller, Park,
             EnterWait, TimedWake, SpuriousWake, Wake, Signal, SignalLocked
    <3> QED BY <1>0, <3>1, StillAnswer, StillDue
            DEF RInv, storage, answers, js, objects, Called, Submitted
  <2>3. CASE TakeStep(t)
    BY <2>3, TakeStepAnswer, TakeStepDue
  <2>4. CASE FillTransfer(t) \/ RunCallback(t)
    BY <2>4, FillTransferAnswer, FillTransferDue, RunCallbackAnswer, RunCallbackDue
  <2> QED BY <1>3, <2>1, <2>2, <2>3, <2>4 DEF ThreadStep, TakeStep, Quiet
<1>4. ASSUME NEW x \in Transfer, CancelTransfer(x) PROVE AnswerInv' /\ DueInv'
  BY <1>0, <1>4, StillAnswer, StillDue
     DEF RInv, CancelTransfer, storage, answers, js, objects, Called, Submitted
<1>5. ASSUME NEW x \in Transfer, JsAnswers(x) PROVE AnswerInv' /\ DueInv'
  <2>1. UNCHANGED <<addedAt, deadline, taken, status, answeredBy, now>>
    BY <1>5 DEF JsAnswers, JsAnswersInput, JsAnswersOutput, storage, objects
  <2> QED BY <1>0, <1>5, <2>1, JsAnswersAnswer, StillDue
<1>6. CASE JsStartsNext
  BY <1>0, <1>6, StartJsCallAnswer, StillDue DEF JsStartsNext, answers, objects
<1>7. CASE Tick
  <2>1. now' \in Nat /\ now <= now' /\ now' <= Horizon
    BY <1>0, <1>7, TimeAssumption DEF Tick
  <2> QED BY <1>7, <2>1, StillAnswer, StillDue
          DEF RInv, Tick, storage, answers, js, objects, Called, Submitted
<1> QED BY <1>1, <1>2, <1>3, <1>4, <1>5, <1>6, <1>7 DEF Next

LEMMA AlwaysRInv == Spec => []RInv
<1>1. Init => RInv
  BY InitLife, InitCall, InitOwner, InitAnswer DEF RInv, IInv
<1> QED BY <1>1, NextRInv, PTL DEF Spec

-----------------------------------------------------------------------------
(* Every step is a step of the service or leaves it alone                  *)

LEMMA InitService == Init => Service!Init
BY DEF Init, Service!Init, Submitted

LEMMA SubmitService ==
  ASSUME RInv, NEW t \in Client, NEW x \in Transfer, Submit(t, x)
  PROVE  Service!Submit(x)
<1>1. x \notin Submitted /\ Submitted' = Submitted \union {x}
  BY DEF RInv, IInv, LifeInv, TypeOK, Submit, AddTransferInFlight, Submitted
<1> QED BY <1>1 DEF Submit, AddTransferInFlight, Service!Submit, objects

LEMMA CancelService ==
  ASSUME RInv, NEW x \in Transfer, CancelTransfer(x)
  PROVE  Service!AcceptCancel(x)
<1>0. x # NoTransfer
  BY TransferAssumption
<1>1. x \in Submitted /\ status[x] = "none" /\ x \notin accepted
  BY <1>0 DEF RInv, IInv, LifeInv, ExactlyOnce, CancellationPrecedes, Carried, CancelTransfer
<1>2. Submitted' = Submitted
  BY DEF CancelTransfer, storage, Submitted
<1> QED BY <1>1, <1>2
        DEF CancelTransfer, Service!AcceptCancel, Service!Pending, storage, objects, IsInput

LEMMA FillTransferService ==
  ASSUME RInv, NEW t \in Thread, FillTransfer(t)
  PROVE  \E x \in Transfer :
           \/ Service!Cancelled(x) \/ Service!TimedOut(x)
           \/ \E call \in Transfer : Service!Answered(x, call)
<1> DEFINE x == taken[t].transfer  outcome == taken[t].status  call == taken[t].call
<1>1. pc[t] = "taken" /\ x # NoTransfer
  BY DEF RInv, IInv, LifeInv, Carried, FillTransfer
<1>2. x \in Transfer /\ x \in Submitted /\ status[x] = "none"
  <2>1. /\ x \in Submitted /\ ~completed[x]
        /\ \A u \in Thread : taken[u].transfer = x => u = t
    BY <1>1 DEF RInv, IInv, LifeInv, ExactlyOnce
  <2>2. ~\E u \in Thread : pc[u] = "filled" /\ taken[u].transfer = x
    BY <1>1, <2>1
  <2> QED BY <2>1, <2>2 DEF RInv, IInv, LifeInv, Carried, Submitted
<1>3. Service!Report(x, outcome, call)
  BY <1>2 DEF FillTransfer, Service!Report, Service!Pending, storage, Submitted
<1>4. outcome = "cancelled" <=> x \in accepted
  BY <1>1 DEF RInv, IInv, LifeInv, Carried
<1>5. Due(x, outcome, call)
  BY <1>1 DEF RInv, DueInv
<1>6. CASE outcome = "cancelled"
  <2>1. call = NoTransfer
    BY <1>5, <1>6 DEF Due
  <2> QED BY <1>2, <1>3, <1>4, <1>6, <2>1 DEF Service!Cancelled
<1>7. CASE outcome = "timed_out"
  <2>1. call = NoTransfer /\ Timeout[x] > 0 /\ now >= deadline[x]
    BY <1>5, <1>7 DEF Due
  <2> QED BY <1>2, <1>3, <1>4, <1>7, <2>1 DEF Service!TimedOut
<1>8. CASE outcome = "answered"
  <2>1. call \in Transfer
    BY <1>5, <1>8 DEF Due
  <2>2. /\ call \in Submitted /\ DestOf[call] = DestOf[x]
        /\ DestOf[x] \notin InputDest => call = x
        /\ \A y \in Transfer : answeredBy[y] = call => y = x
    BY <2>1 DEF RInv, AnswerInv, TakenOnce, Called
  <2>3. answeredBy[x] # call
    BY <1>2, <2>1, TransferAssumption DEF RInv, DueInv
  <2> QED BY <1>2, <1>3, <1>4, <1>8, <2>1, <2>2, <2>3 DEF Service!Answered
<1> QED BY <1>5, <1>6, <1>7, <1>8 DEF Due

\* What the service sees
Seen == <<now, deadline, addedAt, accepted, status, answeredBy>>

LEMMA StillService ==
  ASSUME UNCHANGED Seen
  PROVE  UNCHANGED Service!vars
BY DEF Seen, Service!vars, Submitted

LEMMA StepService == RInv /\ [Next]_vars => [Service!Next]_(Service!vars)
<1> SUFFICES ASSUME RInv, [Next]_vars PROVE Service!Next \/ UNCHANGED Service!vars
  OBVIOUS
<1>1. CASE UNCHANGED vars
  BY <1>1, StillService DEF vars, Seen, storage, objects
<1>2. ASSUME NEW t \in Client, NEW x \in Transfer, Submit(t, x) PROVE Service!Next
  BY <1>2, SubmitService DEF Service!Next
<1>3. ASSUME NEW t \in Thread, ThreadStep(t) \/ SpuriousWake(t)
      PROVE  Service!Next \/ UNCHANGED Service!vars
  <2>1. CASE MaybeStart(t)
    BY <2>1, StillService DEF MaybeStart, Seen, objects
  <2>2. CASE Quiet(t)
    <3>1. UNCHANGED <<storage, objects, now, accepted>>
      BY <2>2 DEF Quiet, HandleEvents, TimeoutReturn, CompletedReturn, ReturnToCaller, Park,
             EnterWait, TimedWake, SpuriousWake, Wake, Signal, SignalLocked
    <3> QED BY <3>1, StillService DEF Seen, storage, objects
  <2>3. CASE TakeStep(t)
    <3>1. \E x \in Transfer, outcome \in Status, call \in Transfer \union {NoTransfer} :
            Take(t, x, outcome, call)
      BY <2>3, TakeStepIsTake DEF RInv, IInv, LifeInv
    <3> QED BY <3>1, StillService DEF Take, RemoveTransferInFlight, Seen, objects
  <2>4. CASE FillTransfer(t)
    BY <2>4, FillTransferService DEF Service!Next
  <2>5. CASE RunCallback(t)
    BY <2>5, StillService DEF RunCallback, Seen, storage
  <2> QED BY <1>3, <2>1, <2>2, <2>3, <2>4, <2>5 DEF ThreadStep, TakeStep, Quiet
<1>4. ASSUME NEW x \in Transfer, CancelTransfer(x) PROVE Service!Next
  BY <1>4, CancelService DEF Service!Next
<1>5. ASSUME NEW x \in Transfer, JsAnswers(x) PROVE UNCHANGED Service!vars
  BY <1>5, StillService DEF JsAnswers, JsAnswersInput, JsAnswersOutput, Seen, storage, objects
<1>6. CASE JsStartsNext
  BY <1>6, StillService DEF JsStartsNext, Seen, objects
<1>7. CASE Tick
  BY <1>7 DEF Tick, Service!Next, Service!Tick, storage, objects, Submitted
<1> QED BY <1>1, <1>2, <1>3, <1>4, <1>5, <1>6, <1>7 DEF Next

\* The threads, queues and locks of the context implement the service that
\* libusb_submit_transfer and libusb_cancel_transfer promise: one outcome per
\* transfer, final cancellations, no early timeout, no answer given twice or to
\* a transfer of another destination.
THEOREM ImplementsService == Spec => ServiceSpec
<1> QED BY AlwaysRInv, InitService, StepService, PTL DEF Spec, ServiceSpec, Service!Spec
=============================================================================
