---------------------------- MODULE LibusbContext ----------------------------
(***************************************************************************)
(* libusb_context and the transfer functions of LibusbJsProxy              *)
(* (third_party/libusb/webport/src): how the threads of the smart card     *)
(* daemon submit, await, time out and cancel USB transfers that a          *)
(* JavaScript page performs.  One mutex and one condition variable guard   *)
(* the bookkeeping; the transfer callback and its `completed` flag run     *)
(* outside the mutex.  See README.md for the correspondence.               *)
(***************************************************************************)
EXTENDS Naturals, Sequences, FiniteSets

CONSTANTS
  Transfer,      \* libusb_transfer objects; each is submitted at most once
  NoTransfer,
  Dest,          \* UsbTransferDestination values
  NoDest,
  InputDest,     \* those with IsInputDirection()
  DestOf,        \* CreateUsbTransferDestinationForTransfer
  Timeout,       \* libusb_transfer::timeout, 0 denotes an infinite one
  Client,        \* threads that submit transfers
  EventLoop,     \* threads that call libusb_handle_events in a loop
  Sync,          \* transfers whose submitter waits for `completed`
  Spurious,      \* threads the condition variable may wake spuriously
  PollTime,      \* kHandleEventsTimeoutSeconds
  Horizon,       \* bound: the clock stops here, and no timeout lies beyond
  Forever        \* time_point::max()

Thread == Client \union EventLoop

ASSUME TransferAssumption ==
  /\ NoTransfer \notin Transfer /\ NoDest \notin Dest
  /\ InputDest \subseteq Dest
  /\ DestOf \in [Transfer -> Dest]
  /\ Timeout \in [Transfer -> Nat]
  /\ Sync \subseteq Transfer

ASSUME ThreadAssumption ==
  /\ Client \intersect EventLoop = {}
  /\ Spurious \subseteq Thread

ASSUME TimeAssumption ==
  /\ PollTime \in Nat /\ Horizon \in Nat /\ Forever \in Nat
  /\ Horizon + PollTime < Forever
  /\ \A x \in Transfer : Horizon + Timeout[x] < Forever

VARIABLES
  \* guarded by the mutex
  inflight,      \* transfers_in_flight_: the items
  addedAt,       \* the position of each item in the FIFO queues, from 1
  adds,          \* how many items were added
  deadline,      \* Info::timeout
  prepared,      \* items whose prepared_js_call is not extracted
  ongoing,       \* ongoing_input_js_api_transfers_
  results,       \* received_input_transfer_result_map_
  outResults,    \* the keys of received_output_transfer_result_map_
  toCancel,      \* transfers_to_cancel_
  \* threads
  mutex,         \* the thread that holds mutex_ across two steps
  pc, job, callDeadline, wakeAt, taken,
  \* the libusb_transfer objects, written by callbacks outside the mutex
  status, answeredBy, completed,
  \* the JavaScript side and the thread its answers arrive on
  jsCalls, jsStart,
  now,
  \* history
  accepted       \* transfers for which CancelTransfer returned true

storage == <<inflight, addedAt, adds, deadline, prepared>>
answers == <<results, outResults>>
local   == <<job, callDeadline>>
objects == <<status, answeredBy, completed>>
js      == <<ongoing, jsCalls, jsStart>>
vars == <<storage, answers, js, toCancel, mutex, pc, local, wakeAt, taken,
          objects, now, accepted>>

NothingTaken == [transfer |-> NoTransfer, status |-> "none", call |-> NoTransfer]

-----------------------------------------------------------------------------
(* UsbTransfersParametersStorage: FIFO queues per destination and timeout. *)

IsInput(d) == d \in InputDest

InFlightOn(d) == {x \in inflight : DestOf[x] = d}

\* Mutant: the storage orders the transfers of a destination newest first.
IsLast(x, S) == x \in S /\ \A y \in S : addedAt[x] >= addedAt[y]

\* x is the front of the deque that holds the items of S.
IsFirst(x, S) == x \in S /\ \A y \in S : addedAt[x] <= addedAt[y]

\* x is what GetWithMinTimeout returns.
IsMinTimeout(x) ==
  IsFirst(x, {y \in inflight : \A z \in inflight : deadline[y] <= deadline[z]})

\* AddTransferInFlight, with the storage's Add
AddTransferInFlight(x) ==
  /\ inflight' = inflight \union {x}
  /\ prepared' = prepared \union {x}
  /\ adds' = adds + 1
  /\ addedAt' = [addedAt EXCEPT ![x] = adds + 1]
  /\ deadline' = [deadline EXCEPT ![x] =
                    IF Timeout[x] = 0 THEN Forever ELSE now + Timeout[x]]

\* Mutant: the item goes, its call stays prepared.
RemoveItemOnly(x) ==
  /\ inflight' = inflight \ {x}
  /\ outResults' = outResults \ {x}
  /\ UNCHANGED <<addedAt, adds, deadline, prepared>>

\* Mutant: the item stays till the callback has run.
RemoveCallOnly(x) ==
  /\ prepared' = prepared \ {x}
  /\ outResults' = outResults \ {x}
  /\ UNCHANGED <<inflight, addedAt, adds, deadline>>

\* RemoveTransferInFlight, with the storage's Remove, which drops a JS call
\* that was prepared and never started; the output result, if any, goes too.
RemoveTransferInFlight(x) ==
  /\ inflight' = inflight \ {x}
  /\ prepared' = prepared \ {x}
  /\ outResults' = outResults \ {x}
  /\ UNCHANGED <<addedAt, adds, deadline>>

\* condition_.notify_all()
Notified(p) == [t \in Thread |-> IF p[t] = "waiting" THEN "woken" ELSE p[t]]

Unlocked == mutex = "free"

-----------------------------------------------------------------------------
Init ==
  /\ inflight = {} /\ prepared = {} /\ adds = 0
  /\ addedAt = [x \in Transfer |-> 0]
  /\ deadline = [x \in Transfer |-> 0]
  /\ ongoing = {} /\ jsCalls = {} /\ jsStart = NoDest
  /\ results = [d \in InputDest |-> <<>>] /\ outResults = {}
  /\ toCancel = {} /\ accepted = {}
  /\ mutex = "free"
  /\ pc = [t \in Thread |-> IF t \in Client THEN "idle" ELSE "looping"]
  /\ job = [t \in Thread |-> NoTransfer]
  /\ callDeadline = [t \in Thread |-> Forever]
  /\ wakeAt = [t \in Thread |-> Forever]
  /\ taken = [t \in Thread |-> NothingTaken]
  /\ status = [x \in Transfer |-> "none"]
  /\ answeredBy = [x \in Transfer |-> NoTransfer]
  /\ completed = [x \in Transfer |-> FALSE]
  /\ now = 0

-----------------------------------------------------------------------------
(* Submitting a transfer: two critical sections, a JS call after the second.*)

\* LibusbSubmitTransfer up to AddAsyncTransferInFlight
Submit(t, x) ==
  /\ pc[t] = "idle" /\ Unlocked
  /\ addedAt[x] = 0 /\ now + Timeout[x] <= Horizon
  /\ AddTransferInFlight(x)
  /\ job' = [job EXCEPT ![t] = x]
  /\ pc' = [Notified(pc) EXCEPT ![t] = "submitted"]
  /\ UNCHANGED <<answers, js, toCancel, mutex, callDeadline, wakeAt, taken,
                 objects, now, accepted>>

\* Mutant: the check for an ongoing call is dropped.
StartJsCallAlways(d) ==
  LET startable == {x \in prepared : DestOf[x] = d}
  IN  IF startable = {}
      THEN UNCHANGED <<prepared, ongoing, jsCalls>>
      ELSE /\ \E x \in startable :
                /\ IsFirst(x, startable)
                /\ prepared' = prepared \ {x}
                /\ jsCalls' = jsCalls \union {x}
           /\ ongoing' = IF IsInput(d) THEN ongoing \union {d} ELSE ongoing

\* Mutant: one call at a time for output destinations too.
StartOneJsCall(d) ==
  LET startable == {x \in prepared : DestOf[x] = d}
  IN  IF startable = {} \/ \E y \in jsCalls : DestOf[y] = d
      THEN UNCHANGED <<prepared, ongoing, jsCalls>>
      ELSE /\ \E x \in startable :
                /\ IsFirst(x, startable)
                /\ prepared' = prepared \ {x}
                /\ jsCalls' = jsCalls \union {x}
           /\ ongoing' = IF IsInput(d) THEN ongoing \union {d} ELSE ongoing

\* PrepareTransferJsCallForExecution and the AsyncCall that sends the call
StartJsCall(d) ==
  LET startable == {x \in prepared : DestOf[x] = d}
  IN  IF (IsInput(d) /\ d \in ongoing) \/ startable = {}
      THEN UNCHANGED <<prepared, ongoing, jsCalls>>
      ELSE /\ \E x \in startable :
                /\ IsFirst(x, startable)
                /\ prepared' = prepared \ {x}
                /\ jsCalls' = jsCalls \union {x}
           /\ ongoing' = IF IsInput(d) THEN ongoing \union {d} ELSE ongoing

\* MaybeStartTransferJsRequest at the end of LibusbSubmitTransfer; the
\* synchronous functions go on to their loop, the others return.
MaybeStart(t) ==
  /\ pc[t] = "submitted" /\ Unlocked
  /\ StartJsCall(DestOf[job[t]])
  /\ IF job[t] \in Sync
     THEN pc' = [pc EXCEPT ![t] = "looping"] /\ UNCHANGED job
     ELSE pc' = [pc EXCEPT ![t] = "idle"]
          /\ job' = [job EXCEPT ![t] = NoTransfer]
  /\ UNCHANGED <<inflight, addedAt, adds, deadline, answers, jsStart, toCancel,
                 mutex, callDeadline, wakeAt, taken, objects, now, accepted>>

-----------------------------------------------------------------------------
(* Handling events: WaitAndProcessAsyncTransferReceivedResults.            *)

\* `completed && *completed`; the event loop passes a null pointer.
OwnCompleted(t) == job[t] # NoTransfer /\ completed[job[t]]

\* while (!transfer_completed) is over, the transfer object is destroyed.
ReturnToCaller(t) ==
  /\ pc[t] = "looping" /\ OwnCompleted(t)
  /\ pc' = [pc EXCEPT ![t] = "idle"]
  /\ job' = [job EXCEPT ![t] = NoTransfer]
  /\ UNCHANGED <<storage, answers, js, toCancel, mutex, callDeadline, wakeAt,
                 taken, objects, now, accepted>>

\* LibusbHandleEventsCompleted, or LibusbHandleEvents from the event loop
HandleEvents(t) ==
  /\ pc[t] = "looping" /\ ~OwnCompleted(t)
  /\ pc' = [pc EXCEPT ![t] = "polling"]
  /\ callDeadline' = [callDeadline EXCEPT ![t] =
                        IF t \in Client THEN Forever ELSE now + PollTime]
  /\ UNCHANGED <<storage, answers, js, toCancel, mutex, job, wakeAt, taken,
                 objects, now, accepted>>

\* The mutex is free for t to take, at the loop's head or after a wait.
AtLoopHead(t) ==
  /\ Unlocked
  /\ pc[t] = "polling" \/ (pc[t] = "woken" /\ now < callDeadline[t])

\* The wait is over and `timeout_time_point` has passed.
TimeoutReturn(t) ==
  /\ Unlocked /\ pc[t] = "woken" /\ now >= callDeadline[t]
  /\ pc' = [pc EXCEPT ![t] = "looping"]
  /\ UNCHANGED <<storage, answers, js, toCancel, mutex, local, wakeAt, taken,
                 objects, now, accepted>>

CompletedReturn(t) ==
  /\ AtLoopHead(t) /\ OwnCompleted(t)
  /\ pc' = [pc EXCEPT ![t] = "looping"]
  /\ UNCHANGED <<storage, answers, js, toCancel, mutex, local, wakeAt, taken,
                 objects, now, accepted>>

\* t leaves the loop, and the critical section, with an outcome for x.
Take(t, x, outcome, call) ==
  /\ AtLoopHead(t) /\ ~OwnCompleted(t)
  /\ RemoveTransferInFlight(x)
  /\ taken' = [taken EXCEPT ![t] =
                 [transfer |-> x, status |-> outcome, call |-> call]]
  /\ pc' = [pc EXCEPT ![t] = "taken"]
  /\ UNCHANGED <<js, mutex, local, wakeAt, objects, now, accepted>>

\* What each Extract...Update function finds; ExtractAsyncTransferStateUpdate
\* tries them in this order.
\* Mutant: a timeout is due one unit early.
TimeoutFoundEarly == \E x \in inflight : now + 1 >= deadline[x]

CancellationFound == toCancel # {}
TimeoutFound == \E x \in inflight : now >= deadline[x]
OutputFound == outResults # {}
InputFound == \E d \in InputDest : results[d] # <<>> /\ InFlightOn(d) # {}

TakeCancelled(t) ==
  /\ CancellationFound
  /\ \E x \in toCancel :
       /\ toCancel' = toCancel \ {x}
       /\ Take(t, x, "cancelled", NoTransfer)
  /\ UNCHANGED results

TakeTimedOut(t) ==
  /\ ~CancellationFound
  /\ TimeoutFound
  /\ \E x \in inflight : IsMinTimeout(x) /\ Take(t, x, "timed_out", NoTransfer)
  /\ UNCHANGED <<toCancel, results>>

TakeOutputResult(t) ==
  /\ ~CancellationFound /\ ~TimeoutFound
  /\ OutputFound
  /\ \E x \in outResults : Take(t, x, "answered", x)
  /\ UNCHANGED <<toCancel, results>>

\* Mutant: the input results are tried before the cancellations.
TakeInputResultFirst(t) ==
  /\ \E d \in InputDest :
       /\ results[d] # <<>>
       /\ \E x \in InFlightOn(d) :
            IsFirst(x, InFlightOn(d)) /\ Take(t, x, "answered", Head(results[d]))
       /\ results' = [results EXCEPT ![d] = Tail(@)]
  /\ UNCHANGED toCancel

\* Any equivalent transfer's answer is given to the transfer added first.
TakeInputResult(t) ==
  /\ ~CancellationFound /\ ~TimeoutFound /\ ~OutputFound
  /\ \E d \in InputDest :
       /\ results[d] # <<>>
       /\ \E x \in InFlightOn(d) :
            IsFirst(x, InFlightOn(d)) /\ Take(t, x, "answered", Head(results[d]))
       /\ results' = [results EXCEPT ![d] = Tail(@)]
  /\ UNCHANGED toCancel

\* Mutant: the wait does not look at the transfers' timeouts.
ParkTillReturn(t) ==
  /\ AtLoopHead(t) /\ ~OwnCompleted(t)
  /\ ~CancellationFound /\ ~TimeoutFound /\ ~OutputFound /\ ~InputFound
  /\ wakeAt' = [wakeAt EXCEPT ![t] = callDeadline[t]]
  /\ mutex' = t
  /\ pc' = [pc EXCEPT ![t] = "parking"]
  /\ UNCHANGED <<storage, answers, js, toCancel, local, taken, objects, now,
                 accepted>>

\* Nothing found: t decides how long to wait, and holds the mutex till it does.
Park(t) ==
  /\ AtLoopHead(t) /\ ~OwnCompleted(t)
  /\ ~CancellationFound /\ ~TimeoutFound /\ ~OutputFound /\ ~InputFound
  /\ \E until \in {callDeadline[t]} \union {deadline[x] : x \in inflight} :
       /\ until <= callDeadline[t]
       /\ \A x \in inflight : until <= deadline[x]
       /\ wakeAt' = [wakeAt EXCEPT ![t] = until]
  /\ mutex' = t
  /\ pc' = [pc EXCEPT ![t] = "parking"]
  /\ UNCHANGED <<storage, answers, js, toCancel, local, taken, objects, now,
                 accepted>>

\* condition_.wait_until releases the mutex and starts waiting in one step.
EnterWait(t) ==
  /\ pc[t] = "parking"
  /\ mutex' = "free"
  /\ pc' = [pc EXCEPT ![t] = "waiting"]
  /\ UNCHANGED <<storage, answers, js, toCancel, local, wakeAt, taken, objects,
                 now, accepted>>

Wake(t) ==
  /\ pc[t] = "waiting"
  /\ pc' = [pc EXCEPT ![t] = "woken"]
  /\ UNCHANGED <<storage, answers, js, toCancel, mutex, local, wakeAt, taken,
                 objects, now, accepted>>

TimedWake(t) == now >= wakeAt[t] /\ Wake(t)

SpuriousWake(t) == t \in Spurious /\ now < wakeAt[t] /\ Wake(t)

\* SetTransferResult, outside the mutex: the wrapped callback fills the transfer,
FillTransfer(t) ==
  LET x == taken[t].transfer
  IN  /\ pc[t] = "taken"
      /\ status' = [status EXCEPT ![x] = taken[t].status]
      /\ answeredBy' = [answeredBy EXCEPT ![x] = taken[t].call]
      /\ pc' = [pc EXCEPT ![t] = "filled"]
      /\ UNCHANGED <<storage, answers, js, toCancel, mutex, local, wakeAt, taken,
                     completed, now, accepted>>

\* Mutant: the flags of the transfer are read after its callback.
RunCallbackFlagsLate(t) ==
  /\ pc[t] = "filled"
  /\ completed' = [completed EXCEPT ![taken[t].transfer] = TRUE]
  /\ pc' = [pc EXCEPT ![t] = "signalling"]
  /\ UNCHANGED <<storage, answers, js, toCancel, mutex, local, wakeAt, taken, status,
                 answeredBy, now, accepted>>

\* and calls the user's callback, which sets `completed`.  The flags were read
\* upfront: from here on the thread has no use for the transfer.
RunCallback(t) ==
  /\ pc[t] = "filled"
  /\ completed' = [completed EXCEPT ![taken[t].transfer] = TRUE]
  /\ taken' = [taken EXCEPT ![t] = NothingTaken]
  /\ pc' = [pc EXCEPT ![t] = "signalling"]
  /\ UNCHANGED <<storage, answers, js, toCancel, mutex, local, wakeAt, status,
                 answeredBy, now, accepted>>

\* The notify_all at the end of SetTransferResult, without the mutex
Signal(t) ==
  /\ pc[t] = "signalling"
  /\ pc' = [Notified(pc) EXCEPT ![t] = "resignalling"]
  /\ UNCHANGED <<storage, answers, js, toCancel, mutex, local, wakeAt, taken,
                 objects, now, accepted>>

\* Mutant: SetTransferResult's notification, without the mutex, is the only one.
SignalLockedNobody(t) ==
  /\ pc[t] = "resignalling" /\ Unlocked
  /\ pc' = [pc EXCEPT ![t] = "looping"]
  /\ UNCHANGED <<storage, answers, js, toCancel, mutex, local, wakeAt, taken,
                 objects, now, accepted>>

\* The second notify_all, under the mutex; then the function returns.
SignalLocked(t) ==
  /\ pc[t] = "resignalling" /\ Unlocked
  /\ pc' = [Notified(pc) EXCEPT ![t] = "looping"]
  /\ UNCHANGED <<storage, answers, js, toCancel, mutex, local, wakeAt, taken,
                 objects, now, accepted>>

-----------------------------------------------------------------------------
(* Cancellation, from any thread that still owns the transfer object.      *)

\* Mutant: nobody is told of a cancellation.
CancelTransferSilently(x) ==
  /\ Unlocked
  /\ x \in inflight /\ IsInput(DestOf[x]) /\ x \notin toCancel
  /\ toCancel' = toCancel \union {x}
  /\ accepted' = accepted \union {x}
  /\ UNCHANGED <<storage, answers, js, mutex, pc, local, wakeAt, taken, objects,
                 now>>

\* CancelTransfer when it returns true; it changes nothing when it does not.
CancelTransfer(x) ==
  /\ Unlocked
  /\ x \in inflight /\ IsInput(DestOf[x]) /\ x \notin toCancel
  /\ toCancel' = toCancel \union {x}
  /\ accepted' = accepted \union {x}
  /\ pc' = Notified(pc)
  /\ UNCHANGED <<storage, answers, js, mutex, local, wakeAt, taken, objects, now>>

-----------------------------------------------------------------------------
(* Answers of JavaScript: the callback of MakeLibusbJsTransferCallback, on  *)
(* the one thread that receives messages, in two critical sections.        *)

\* Mutant: an answer that nobody waits for is dropped, and with it the start of
\* the next call.
JsAnswersAwaitedInput(x) ==
  LET d == DestOf[x]
  IN  /\ x \in jsCalls /\ IsInput(d) /\ jsStart = NoDest /\ Unlocked
      /\ jsCalls' = jsCalls \ {x}
      /\ ongoing' = ongoing \ {d}
      /\ IF x \in inflight
         THEN /\ results' = [results EXCEPT ![d] = Append(@, x)]
              /\ jsStart' = d
              /\ pc' = Notified(pc)
         ELSE UNCHANGED <<results, jsStart, pc>>
      /\ UNCHANGED <<storage, outResults, toCancel, mutex, local, wakeAt, taken,
                     objects, now, accepted>>

\* OnInputTransferResultReceived
JsAnswersInput(x) ==
  LET d == DestOf[x]
  IN  /\ x \in jsCalls /\ IsInput(d) /\ jsStart = NoDest /\ Unlocked
      /\ jsCalls' = jsCalls \ {x}
      /\ results' = [results EXCEPT ![d] = Append(@, x)]
      /\ ongoing' = ongoing \ {d}
      /\ jsStart' = d
      /\ pc' = Notified(pc)
      /\ UNCHANGED <<storage, outResults, toCancel, mutex, local, wakeAt, taken,
                     objects, now, accepted>>

\* OnOutputTransferResultReceived: late answers are discarded.
JsAnswersOutput(x) ==
  /\ x \in jsCalls /\ ~IsInput(DestOf[x]) /\ jsStart = NoDest /\ Unlocked
  /\ jsCalls' = jsCalls \ {x}
  /\ IF x \in inflight
     THEN outResults' = outResults \union {x} /\ pc' = Notified(pc)
     ELSE UNCHANGED <<outResults, pc>>
  /\ jsStart' = DestOf[x]
  /\ UNCHANGED <<storage, results, ongoing, toCancel, mutex, local, wakeAt,
                 taken, objects, now, accepted>>

JsAnswers(x) == JsAnswersInput(x) \/ JsAnswersOutput(x)

\* MaybeStartTransferJsRequest at the end of the answer's callback
JsStartsNext ==
  /\ jsStart # NoDest /\ Unlocked
  /\ StartJsCall(jsStart)
  /\ jsStart' = NoDest
  /\ UNCHANGED <<inflight, addedAt, adds, deadline, answers, toCancel, mutex, pc,
                 local, wakeAt, taken, objects, now, accepted>>

Tick ==
  /\ now < Horizon
  /\ now' = now + 1
  /\ UNCHANGED <<storage, answers, js, toCancel, mutex, pc, local, wakeAt, taken,
                 objects, accepted>>

-----------------------------------------------------------------------------
\* What a thread does on its own account once it has entered the library
ThreadStep(t) ==
  \/ MaybeStart(t) \/ ReturnToCaller(t) \/ HandleEvents(t)
  \/ TimeoutReturn(t) \/ CompletedReturn(t)
  \/ TakeCancelled(t) \/ TakeTimedOut(t) \/ TakeOutputResult(t) \/ TakeInputResult(t)
  \/ Park(t) \/ EnterWait(t) \/ TimedWake(t)
  \/ FillTransfer(t) \/ RunCallback(t) \/ Signal(t) \/ SignalLocked(t)

Next ==
  \/ \E t \in Client, x \in Transfer : Submit(t, x)
  \/ \E t \in Thread : ThreadStep(t) \/ SpuriousWake(t)
  \/ \E x \in Transfer : CancelTransfer(x) \/ JsAnswers(x)
  \/ JsStartsNext
  \/ Tick

Spec == Init /\ [][Next]_vars

\* The operating system runs every thread and the clock; nobody has to submit
\* or cancel, and JavaScript need not answer.
FairSpec ==
  /\ Spec
  /\ \A t \in Thread : WF_vars(ThreadStep(t))
  /\ WF_vars(JsStartsNext)
  /\ WF_vars(Tick)

\* The device ends every JS call sooner or later.
DeviceAnswers == \A x \in Transfer : WF_vars(JsAnswers(x))

-----------------------------------------------------------------------------
(* Types                                                                   *)

PC == {"idle", "submitted", "looping", "polling", "parking", "waiting", "woken",
       "taken", "filled", "signalling", "resignalling"}

Status == {"none", "answered", "cancelled", "timed_out"}

\* Every variable of libusb_context and of its threads has its type.
TypeOK ==
  /\ inflight \subseteq Transfer /\ prepared \subseteq inflight
  /\ adds \in Nat /\ addedAt \in [Transfer -> Nat]
  /\ deadline \in [Transfer -> Nat]
  /\ ongoing \subseteq InputDest /\ jsCalls \subseteq Transfer
  /\ jsStart \in Dest \union {NoDest}
  /\ results \in [InputDest -> Seq(Transfer)]
  /\ outResults \subseteq Transfer /\ toCancel \subseteq Transfer
  /\ accepted \subseteq Transfer
  /\ mutex \in Thread \union {"free"}
  /\ pc \in [Thread -> PC]
  /\ job \in [Thread -> Transfer \union {NoTransfer}]
  /\ callDeadline \in [Thread -> Nat] /\ wakeAt \in [Thread -> Nat]
  /\ taken \in [Thread -> [transfer : Transfer \union {NoTransfer},
                           status : Status,
                           call : Transfer \union {NoTransfer}]]
  /\ status \in [Transfer -> Status]
  /\ answeredBy \in [Transfer -> Transfer \union {NoTransfer}]
  /\ completed \in [Transfer -> BOOLEAN]
  /\ now \in Nat

-----------------------------------------------------------------------------
(* Safety                                                                  *)

Submitted == {x \in Transfer : addedAt[x] # 0}

\* The CHECK in SetTransferResult ("no other thread will try to assign a result
\* to this transfer"): a submitted transfer is in flight, or carried by exactly
\* one thread that will report it, or reported; never two of these, never none.
ExactlyOnce ==
  /\ \A x \in Submitted :
       \/ x \in inflight
       \/ \E t \in Thread : taken[t].transfer = x
       \/ completed[x]
  /\ \A x \in inflight : x \in Submitted /\ ~completed[x]
  /\ \A t \in Thread : taken[t].transfer # NoTransfer =>
       /\ taken[t].transfer \in Submitted \ inflight
       /\ ~completed[taken[t].transfer]
       /\ \A u \in Thread : taken[u].transfer = taken[t].transfer => u = t

\* The assertion of RemoveTransferInFlight and the CHECK of the storage's
\* GetAsyncByLibusbTransfer: what is to be cancelled is still in flight, so
\* that an accepted cancellation cannot lose to an answer or a timeout.
CancellationPrecedes ==
  toCancel = {x \in accepted : x \in inflight}

\* LibusbCancelTransfer returned success exactly for the transfers that end as
\* LIBUSB_TRANSFER_CANCELLED, whatever arrived in the meantime.
CancelIsFinal ==
  \A x \in Transfer : completed[x] => (status[x] = "cancelled" <=> x \in accepted)

\* At most one JS call per input destination, and ongoing_input_js_api_transfers_
\* says which have one (the CHECKs of PrepareTransferJsCallForExecution and of
\* OnInputTransferResultReceived).
OneCallPerInput ==
  /\ ongoing = {DestOf[x] : x \in {y \in jsCalls : IsInput(DestOf[y])}}
  /\ \A x, y \in jsCalls : IsInput(DestOf[x]) /\ DestOf[x] = DestOf[y] => x = y

\* A stored output result belongs to an output transfer in flight whose call was
\* answered (the CHECKs of OnOutputTransferResultReceived and of
\* ExtractOutputAsyncTransferStateUpdate).
OutputResultsInFlight ==
  \A x \in outResults :
    x \in inflight \ prepared /\ x \notin jsCalls /\ ~IsInput(DestOf[x])

\* Somebody is about to start a call for destination d.
Starting(d) ==
  jsStart = d \/ \E t \in Thread : pc[t] = "submitted" /\ DestOf[job[t]] = d

\* No input transfer is stranded: while it is in flight a call for its
\* destination runs, or an answer waits to be picked up, or a thread is about
\* to start a call.  Surplus answers, cancellations and timeouts may not break
\* this although they unbalance calls and transfers.
NoStrandedInput ==
  \A x \in inflight : IsInput(DestOf[x]) =>
    DestOf[x] \in ongoing \/ results[DestOf[x]] # <<>> \/ Starting(DestOf[x])

\* No output transfer is stranded either: its call runs, its result is stored,
\* or a thread is about to start a call for its destination.
NoStrandedOutput ==
  \A x \in inflight : ~IsInput(DestOf[x]) =>
    x \in jsCalls \/ x \in outResults \/ (x \in prepared /\ Starting(DestOf[x]))

\* Input transfers of one destination get distinct answers, in the order in
\* which they were submitted (test InputTransfersFifoOrdering).
FifoAnswers ==
  \A x, y \in Transfer :
    (/\ DestOf[x] = DestOf[y] /\ IsInput(DestOf[x])
     /\ status[x] = "answered" /\ status[y] = "answered"
     /\ addedAt[x] < addedAt[y])
    => addedAt[answeredBy[x]] < addedAt[answeredBy[y]]

\* The libusb_transfer a thread still uses, to fill it and to call its callback,
\* was not destroyed by its submitter: the synchronous functions return once
\* `completed` is set, and nobody uses the transfer after that ("the transfer
\* instance cannot generally be used after this point").
NoUseAfterReturn ==
  \A t \in Thread : LET x == taken[t].transfer IN
    x \in Sync => \E u \in Client : job[u] = x

-----------------------------------------------------------------------------
(* What the callers are promised                                           *)

Service == INSTANCE TransferService WITH submitted <- Submitted

\* The threads, queues and locks implement the abstract service.
ServiceSpec == Service!Spec

-----------------------------------------------------------------------------
(* Liveness                                                                *)

\* A transfer with a timeout completes although JavaScript never answers, and
\* although the waiting threads have no deadline of their own.
TimeoutsFire ==
  \A x \in Transfer : Timeout[x] > 0 => (x \in Submitted ~> completed[x])

\* An accepted cancellation is reported although JavaScript never answers.
CancellationsComplete == \A x \in Transfer : x \in accepted ~> completed[x]

\* Whoever reports a transfer, the thread that waits for it is told: no wakeup
\* is lost between the unlocked write of `completed` and the wait.
WaitersReturn ==
  \A t \in Client, x \in Transfer :
    (job[t] = x /\ completed[x]) ~> job[t] # x

\* If the device ends every JS call, every transfer completes, those without a
\* timeout and those queued behind another one's call included.
TransfersComplete ==
  DeviceAnswers => \A x \in Transfer : x \in Submitted ~> completed[x]
=============================================================================
