# TLA+ models of the Smart Card Connector

The Smart Card Connector brings the PC/SC API to ChromeOS: it runs the
PC/SC-Lite daemon and the CCID driver inside a browser page, gives them USB
through the browser's own USB API, and serves any number of client extensions
that connect to it. What the repository adds to the vendored libraries is
glue between three worlds that block, call back and disappear in different
ways: POSIX-style C threads, one JavaScript event loop, and client applications
that come and go. These modules model that glue: in depth the two places where
its concurrency is hardest, and around them the road of a client's call from the
client's page to the daemon and what the applications themselves do.

1. [Inventory](#1-inventory)
2. [Modules and how they correspond to the code](#2-modules)
3. [Runs, bounds and fairness](#3-runs)
4. [Proofs](#4-proofs)
5. [Findings](#5-findings)
6. [What is not modelled](#6-not-modelled)

## 1. Inventory

Paths are below `src/`; `WEBPORT` stands for `third_party/*/webport`.

### A. libusb web port (`third_party/libusb/webport/src`)

An implementation of libusb's C API over the browser. Every `libusb_transfer`
becomes a JavaScript request, whose answer arrives on another thread.

* *State.* `libusb_context`: transfers in flight, indexed by their object, by
  their destination (device and endpoint) and by their timeout
  (`UsbTransfersParametersStorage`); prepared JavaScript calls; input
  destinations that have a call under way; answers not yet given to anybody;
  transfers to cancel. `libusb_device` and `libusb_device_handle`: reference
  counts, open handles.
* *Operations.* `libusb_submit_transfer`, `libusb_cancel_transfer`, the
  synchronous transfers, `libusb_handle_events[_completed]`, the arrival of an
  answer; the device list, open, close, claim, reset.
* *Interaction.* Called by the CCID driver from several threads of the daemon;
  posts requests to `libusb-proxy-receiver.js`, which calls WebUSB or
  `chrome.usb`.
* *Hard.* Any waiting thread may complete any other thread's transfer; input
  calls cannot be cancelled in the browser, so that their answers are stored and
  given to later transfers; a transfer's owner returns, and destroys it, as soon as it
  sees a flag that is written outside the mutex; timeouts are found by whoever
  happens to be waiting.
* *Correct if* every transfer is reported exactly once, an accepted
  cancellation is final, timeouts are never early and always in the end, answers
  are handed out in order and at most once, at most one input call runs per
  destination, no transfer is left without a call, nobody misses a wakeup, and no
  object is used after its owner returned.

### B. PC/SC clients management (`third_party/pcsc-lite/webport/server_clients_management/src`)

* *Server side, C++.* `PcscLiteServerClientsManager` keeps one
  `PcscLiteClientRequestProcessor` per connected client; a processor keeps a
  `PcscLiteClientHandlesRegistry` of the contexts and card handles it gave to
  its client, and starts one detached thread for each request. Deleting a
  handler starts a thread that cancels what is blocked; the last reference to
  the processor starts a thread that releases what is left.
  `AdminPolicyGetter` holds the administrator's policy and blocks until one came.
  *Hard:* the registry is asked, PC/SC-Lite is called and the registry is updated
  with no lock across the three; a check that fails ends the server for
  everybody; identifiers are global to PC/SC-Lite, so that isolation of clients
  rests on the registry alone. *Correct if* clients are isolated, nothing leaks,
  no check fails for clients that follow the threading rule, and a deleted
  handler ends.
* *Page side, JavaScript.* A `ClientHandler` per client channel has a queue
  (`DeferredProcessor`) that waits for the permission, and a
  `ServerRequestHandler` with a queue that waits for the `ReadinessTracker`; the
  latter creates and deletes the server's handler. *Hard:* every one of the
  channels may be disposed of at any point, also while queued jobs run.
  *Correct if* every call is settled, once, none is executed twice, and no job
  runs against a channel that is gone.
* *Permissions* (`permissions_checking/`): the administrator's policy, the
  config of trusted clients, the user's stored answers, and one prompt per
  origin whose promise is kept for ever. *Hard:* several connections of one
  origin, a policy that changes while a prompt is shown, prompts whose window
  the opener does not know yet. *Correct if* every check ends, and is granted or
  refused for one of the reasons the code's comment lists.

### C. PC/SC-Lite server web port (`third_party/pcsc-lite/webport/server/src`)

Starts and stops the daemon, replaces its sockets by in-memory ones
(`server_sockets_manager`, `winscard_msg_webport`), retries failing readers with
a counter that travels in the device's bus number, and reports readers to the
page (`reader-tracker.js`). *Hard:* a client that arrives, sends or waits while
the daemon shuts down; the retry bound. *Correct if* what one end sends is what
the other receives, and a client that waits for an answer gets it or an error.

### D. C++ base (`common/cpp/src/public`)

`ipc_emulation.cc` (pairs of in-memory files, each with a mutex, a condition and
a buffer, in a map of descriptors with a mutex of its own), `Requester`,
`TypedMessageRouter`, logging and value conversions. *Hard:* a close while the
other end is about to sleep. *Correct if* no wakeup and no byte is lost.

### E. JavaScript base (`common/js/src`)

* *Channels* (`messaging/`): ports and single messages with pings and pongs, the
  pool of the clients' channels, pairs within a page, the delayed channel that
  may be used before the module is there. *Hard:* a client's page that reloads
  or vanishes without a word; messages and timers of two generations of a page.
  *Correct if* a page that answers is kept, one that left is noticed, and nothing
  sent through a channel is lost or overtaken.
* *Requests* (`requesting/`): numbered promises over a channel. *Correct if* a call
  is settled once, with the result of its own execution, or rejected with the channel.
* *Deferred jobs* (`deferred-processor.js`): a queue whose jobs may add jobs or
  dispose of it while it is flushed.
* *Executable modules* (`executable-module/`): the module in an offscreen
  document, loaded in five awaits, each of which may find it disposed of, closed
  or crashed. *Correct if* no document outlives its module and loading ends.
* *Logging* (`logging/`): every page's records go to one collector with a bounded
  buffer; values are dumped recursively; a fatal error reloads the extension
  unless crashes come in a loop, which pages find out through a shared storage
  they read and write asynchronously.
* *Dialogs* (`popup-window/`): windows of the browser with a port back to the
  opener; *page keep-alive*: an iframe's port keeps the background page.

### F. Client libraries; G. the applications

`js_client` and `cpp_client` convert arguments and post requests.
`smart_card_connector_app` wires everything: listeners of connections and
messages (`background.js`), the window with its lists of readers and clients, and
`chrome-api-provider.js`, which turns the browser's Web Smart Card API events
into server calls. *Hard:* conversions that throw after the server has
opened something; a server that goes while events wait. *Correct if* every event is
reported and nothing the server opened is lost. The example clients have
the bridge to `chrome.certificateProvider`, a window fed by the module's tests,
and chains of PC/SC calls that end when the Connector goes.

`PROJECT.json` lists the components with their status and the hazards of each
with their lines and the properties that would catch them.

## 2. Modules

| Module | Role |
|---|---|
| `TransferService` | abstract: what callers of libusb are promised |
| `LibusbContext` | the context, its threads, locks, queues, timeouts, and the transfer functions of `LibusbJsProxy` |
| `LibusbContext_proofs`, `LibusbContext_queues` | safety, and `LibusbContext` implements `TransferService`; nothing stranded and answers in order |
| `ClientRequestProcessor` | manager, processors, registries, their threads, and the PC/SC-Lite they call |
| `ClientRequestProcessor_proofs` | isolation, no leaks, who releases and interrupts, no failed check |
| `EmulatedSockets` | the daemon's sockets: in-memory files, sending and receiving threads, the accepting thread, shutdown |
| `RemoteCalls` | abstract: what a client is promised of its calls |
| `ClientRequests` | the road of a call: both requesters, both queues, permission, readiness, server; implements `RemoteCalls` |
| `DeferredProcessor` | the queue with re-entrant jobs |
| `ClientRequests_proofs` | deferred jobs in order and none stranded; `ClientRequests` implements `RemoteCalls` |
| `ClientChannels` | a client's channel over either transport, with reloads, pings and the pool |
| `Permissions` | policy, trusted clients, stored answers and prompts |
| `Channels_proofs` | `ClientChannels`: a pong establishes, live ends are kept |
| `DelayedChannel`, `ModuleLoading` | the channel as operators on a record; loading the module in an offscreen document |
| `MessageChannelPair` | the two ends within one page |
| `ChromeApiProvider` | the Web Smart Card API requests, each from event to report |
| `CertificateBridge` | the bridge to `chrome.certificateProvider` |
| `Logging`, `DebugDump`, `CrashLoopDetection` | records and their export; dumps of values; reloading after crashes |
| `Arrays` | `Array.prototype.filter`, by what it promises |
| `Dialogs` | modal dialogs in both packaging modes, and the PIN dialogs |
| `WindowDevices`, `WindowApps` | the window's readers, with the lock screen's filter; its client applications |
| `ExampleClients`, `ExampleWindow`, `UnloadPreventing` | the sample clients; page keep-alive |
| `Application_proofs` | permissions, dialogs, sockets |
| `ApplicationPages_proofs` | the Web Smart Card API and the examples, order of messages, crash loops |
| `ApplicationWindow_proofs` | what the window shows: readers, clients, exported logs |
| `MCLibusbContext`, `MCClientRequestProcessor`, `MCChannels`, `MCApplication` | instances for TLC |

### LibusbContext

`mutex_` and `condition_` guard the bookkeeping, so that a critical section is
one action, unless another thread can see what lies between two parts of it.
That happens at three places, which are steps of their own: a thread that found
nothing computes its wakeup time and then sleeps (`Park`, `EnterWait`,
with the mutex held between them, as `SetTransferResult` does not ask for it);
a thread that took a transfer fills it and runs its callback without the mutex (`Take…`,
`FillTransfer`, `RunCallback`, `Signal`, `SignalLocked`); adding a transfer, or receiving an answer, and
starting the next JavaScript call are two critical sections (`Submit`,
`MaybeStart`; `JsAnswers…`, `JsStartsNext`).

| Code | Model |
|---|---|
| `UsbTransfersParametersStorage`, its three indices | `inflight`, `addedAt` (position in the deques), `deadline`, `prepared`; `IsFirst`, `IsMinTimeout` |
| `ongoing_input_js_api_transfers_`, `received_…_result_map_`, `transfers_to_cancel_` | `ongoing`, `results`, `outResults`, `toCancel` |
| JavaScript calls not yet answered; the thread of their answers | `jsCalls`, `jsStart` |
| a thread in `WaitAndProcessAsyncTransferReceivedResults` | `pc`, `job` (the synchronous transfer it waits for), `callDeadline`, `wakeAt`, `taken` |
| the order of `ExtractAsyncTransferStateUpdate` | guards of `TakeCancelled`, `TakeTimedOut`, `TakeOutputResult`, `TakeInputResult` |
| `libusb_transfer::status`, data, `completed` | `status`, `answeredBy` (whose call produced the data), `completed` |

A JavaScript answer is identified by the transfer whose call produced it; its
bytes and error codes are left out, as nothing branches on them. A
result that is an error is an answer like any other. `accepted` is a history
variable. A transfer object is submitted once: its second use after completion
is the first use of another member of `Transfer`. `FillTransfer` writes the status and the data;
`RunCallback` reads the flags and sets `completed`, the last use of the object: from
then on its owner may return and free it. Only synchronous transfers have a lifetime that
another thread ends, so that `LIBUSB_TRANSFER_FREE_TRANSFER` has no counterpart. A transfer without timeout has
the deadline `Forever` (`time_point::max()`).

### ClientRequestProcessor

| Code | Model |
|---|---|
| `handler_map_`, the shared pointers to a processor | `handler`: `none`, `live`, `deleted` (out of the map, held by threads), `gone` |
| `context_to_handles_map_`, `handle_to_context_map_` | `contexts`, `handles` |
| one thread per request | `req`: a program counter, the processor it holds, the call, its argument or its result |
| `ScheduleRunningRequestsCancellation` | `cancelJob`: the snapshot still to be cancelled |
| `ScheduleHandlesCleanup` | `cleanCancel`, then `cleanRelease` |
| `AdminPolicyGetter` | `policyReceived`, `fallbackList` |
| a `GOOGLE_SMART_CARD_CHECK` that fails | `crashed`, after which nothing happens |
| PC/SC-Lite | `coreContexts`, `coreCards`, `owner`, `cardOwner` |

A request takes three steps, since the code holds no lock across them: the
registry is asked (`CheckContext`, `CheckHandle`), PC/SC-Lite is called
(`Core…`), the registry is updated (`Register`, or `Revoke` after
`SCARD_E_INVALID_HANDLE`); `Finish` sends the result and drops the reference to
the processor. `SCardConnect` with the fallback goes round this cycle as
`connect_any`, `disconnect_reset` and `connect_again`. Calls that neither
change nor depend on anything else share an operation (`card_call`,
`context_call`).

PC/SC-Lite is third-party code; it is modelled from `winscard_clnt.c` as far as
the processors can tell: which identifiers live, who holds a context's lock, and
that `SCardGetStatusChange` can be cancelled only in its wait, not while it
compares reader states (`scanning`). It never returns an identifier twice, as the
header of the processor states for its own correctness. `SCardReleaseContext`
makes PC/SC-Lite forget the context in any case; the error it may return
afterwards, with which the registry keeps the context, is allowed by
`CoreMayRevoke`.

`Disciplined` is the threading rule of PC/SC: a client has one call at a time for
a context, but for `SCardCancel`. `ScopedConcurrencyGuard` only logs a breach of
it. `CancelOverlaps` says which calls a client lets an `SCardCancel` overlap; the
code names no restriction, and a finding is about this.

### The page's modules

JavaScript runs a callback to completion, so here an action is one callback
together with every call it makes and the microtasks it sets off; messages, timers,
answers of the browser and `await`s separate actions. A channel is a sequence of
messages in each direction.

| Module | State and its code |
|---|---|
| `ClientRequests` | `promise`: the client's `Requester`; `page`: the handler's two processors (`admitted` waits for the permission, `posting` for readiness), its own requester and what that awaits; `module`, `working`, `fromModule`: the other end. `FlushAdmitted` and `FlushPosting` are a settled queue's jobs, `Drop` what a requester does when its channel goes, `DisposeHandler` the disposal from either side. |
| `DeferredProcessor` | its fields by name; `running` is the job whose function is on the stack, which may act again (`AddJob`, `Dispose`) before the loop goes on. |
| `ClientChannels` | both ends with `prev`, `idle` and `wait` for the peer's identifier and the two timers; `pool` the Connector's channels. `Tick` ages timers and messages and stops at what is due. |
| `ModuleLoading` | `outer.at` is the await `load_` stands at, `inner.at` that of the document's module; both delayed channels are records of `DelayedChannel`. A message for which nobody is registered fails the page (`Unhandled`, `failed`); the script's failure may be reported while `createDocument` is awaited. |
| `Permissions` | `registry` and `prompter` are the two checkers' fields, `check` the promise of each connection, `dialog` an origin's prompt. `Settle` is what the promises of one event set off, in `checkByUserPromptingChecker_`'s `then`s: others of the origin are settled, the prompt is cancelled, the monitoring ends. `Restart` keeps local storage only. |
| `ChromeApiProvider` | one table, `Handlers`, gives for each event the conversions of its arguments and results, as `convert...` and the handlers do; `request` how far each has got, `opened` what the server has open. |
| `CertificateBridge`, `Dialogs`, `Logging`, `CrashLoopDetection`, `WindowDevices`, `WindowApps`, `MessageChannelPair`, `ExampleClients`, `ExampleWindow`, `UnloadPreventing` | the objects of the files their headers name; each action has the name of the function it stands for. A reader is shown by its name; its status indicator, tooltip and error text are left out. |
| `DebugDump` | `dump` as recursive functions over a graph of objects; texts are trees; a number's dump is checked against two's complement, with sums rounded as JavaScript rounds them (`ToNumber`). |

`EmulatedSockets` is threads again. A file is found under the map's mutex and used
under its own; the two are one action, as an end that is forgotten is closed, with
the same outcome. What is visible in between are steps: waiting and reading
(`WaitUntilCanBeRead`, `Read`), and the two ends of a close, which are set
closed one after the other (`CloseInMemoryFile`, `FinishClosing`) while a thread
that has found its file before may still go to sleep at it.

**Parts.** `MCChannels` and `MCApplication` check components that share no
state in one run each: `part` says which one moves, the others keep their initial
state, so the state space is the sum of the parts, not their product. Their
properties are the components' own, and some are conjunctions of two that
belong together: `MessagesInOrder` (loading, pairs), `NoHandleLost` (provider,
samples, the sample's window), `NoReloadLoop` (crashes, keep-alive),
`WindowCurrent` (readers, clients, the export of the logs), `SocketsFaithful` (streams,
wakeups), `RequestsReported` (provider, certificates, permission checks, sockets).
Fairness is restated there, each condition for the part that moves, and the
components' assumptions on their constants are asserted there.

Comments marked `Mutant:` precede operators that no action uses: each is the
next definition with a plausible mistake in it, and a run's property is
expected to break when it takes that definition's place.

## 3. Runs

All `pass` runs explore their whole state space. The systems may come to rest
(everything submitted, answered and reported; a client gone; a module crashed), so
no run looks for deadlocks; what must not stop is stated as liveness.

| Run | Instance | Question |
|---|---|---|
| `libusb_sync` | 2 client threads, 3 synchronous transfers: an input one without timeout, two output ones of one destination with a timeout | exactly-once reporting, lifetime of the transfer object, no stranded output, refinement of `TransferService` |
| `libusb_events` | 1 client, 1 event loop with spurious wakeups, 3 input transfers of one destination, one of them synchronous, two with timeouts | cancellations, timeouts and late answers in every order: finality, pairing, FIFO, no stranded input |
| `libusb_fair` | 2 clients that each wait for an input transfer of one destination, one with a timeout | timeouts fire, cancellations are reported, no lost wakeup, even if JavaScript never answers; if the device ends every call, every transfer completes |
| `clients_isolation` | 2 clients, 2 threads, 2 contexts, 1 card | isolation, no leaked context, no failed check, only owners release and interrupt |
| `clients_gone` | 1 client, 2 threads, 1 context, 2 cards, the fallback allowed, PC/SC-Lite may lose contexts, fair | no leaked handle; what was meant to end ends |
| `clients_blocked` | 1 client, 2 threads, no cards | finding 1 |
| `clients_cancel_release` | 1 client, 2 threads, 1 context | finding 2 |
| `channels` | 2 loads of a client's page; 2 calls; 3 jobs | live pages kept, departed ones noticed, pongs establish; calls settle and implement `RemoteCalls`; jobs in order, none stranded |
| `application` | one component at a time, see below | the applications' JavaScript, permission checks and sockets |
| `requests_after_disposal` | 2 calls | finding 3 |
| `dialogs_cancelled` | 2 dialogs | finding 4 |
| `permissions_withdrawn` | 2 connections of one origin, 2 policies | finding 5 |

**Bounds.** `Horizon` ends the clock. One tick is enough: each of the
timeouts used is 1, so that the states before a deadline and after it both occur,
and a later instant allows nothing new. `PollTime` is the 60 seconds of
`libusb_handle_events`; it is 1 where an event loop has to return in time and
beyond the horizon otherwise. `Forever` is larger than any time a run
can compute, which `TimeAssumption` checks. Three transfers are needed for an answer
to be surplus twice and for a FIFO of two behind it; two threads
are the fewest with which one completes the other's transfer. For the clients,
two threads are what it takes for two calls of one client, or of two, to
interleave, and for a thread to end last; contexts and handles are never
reused, so their number bounds how often a client obtains one. `clients_gone`
has no call overlap an `SCardCancel`, since with a lost context that would
repeat finding 2; its two cards are the two connects of the fallback. `SYMMETRY` is used in runs without liveness only, and only
over sets whose members the constants do not tell apart.

In `channels`, `Timeout` 5, `Interval` 2 and `Delay` 1 are the smallest values with
`Interval + 2 * Delay < Timeout`, under which a live page may be expected to be kept;
the code's own assertion is the weaker `Interval < Timeout`. Two loads of the page
are one reload; two calls are one that waits and one that overtakes it; three jobs are a
job that adds one while another waits. In `application`: two messages in each
direction are enough to be swapped; three requests of the browser over two
contexts and a handle let one be connecting, one be releasing and one wait; five log
records overflow a buffer of three from both of its ends; a crash window of two in a clock
of four has crashes that are inside, at the edge and outside, and `MaxReloads` is
one more than what the property allows; two objects with up to two items each contain themselves,
each other, and one object twice; the integers are dumped in 4, 8 and 16 bits with 13
significant ones, in the place of 8, 32 and 64 with 53: sums of the two smaller widths are exact and those of the
largest are rounded in its last bits (3 here, 11 in the code); two dialogs, two changes of devices or clients and three
tests are the fewest with two in flight; two connections of one origin share its
prompt, and two policies allow and withdraw; two sessions with one request each
let one be served while the other waits in the queue, each request in two parts. (With one
session and two requests the sockets' properties hold too.)

**Fairness.** `LibusbContext!FairSpec`: the operating system runs
every thread and the clock, and the page's answers' thread finishes what it
began. Nobody is obliged to submit or cancel, and JavaScript need not
answer; `TransfersComplete` has the answers as its antecedent (`DeviceAnswers`).
`ClientRequestProcessor!FairSpec`: threads run; the page sends the policy, as it
does once it has read it; after `ShutDown` the main thread destroys the
manager's handlers. It does not let a wait for a reader end: the code passes on the
client's timeout, which may be infinite. `DeletedIsReleased` and `ShutDownEnds`
have finite waits as their antecedent (`WaitsEnd`), with strong fairness, because a
reader event interrupts the wait while its timeout goes on counting.
The page's modules assume the event loop: timers fire, messages on their way
arrive, callbacks run. `ClientRequests` assumes that the permission's promise
settles, that the server becomes ready or goes, and that the module answers or
crashes; `ModuleLoading` that the browser opens or refuses a document, that a
binary loads or fails, and that a closed document goes. `ChromeApiProvider`
assumes that a report is made and that a call that does not block ends;
a blocking one only if the server goes. `Permissions` assumes that storage
answers and that the user ends a prompt that is shown; `EmulatedSockets` that threads
run and that a daemon that shuts down closes what it serves. Nobody is obliged to send, connect,
leave, reload or crash.

## 4. Proofs

TLAPS checks every theorem for any number of threads, transfers, destinations, clients,
pages, messages and any timeouts, from the named assumptions on the constants only
(`TransferAssumption`, `ThreadAssumption`, `TimeAssumption`; `ClientAssumption`;
`CallsAssumption`, `PingAssumption` and `ComponentsAssumption` for the parts that
`MCChannels` and `MCApplication` put together). Only `ChecksHold` has a hypothesis of its own.
The parts share no variable, so that an invariant of one part needs that part's steps only.

**Safety of the context** (`LibusbContext_proofs`). None of the safety properties
is inductive by itself. `IInv` adds to the types

* `LifeInv`: where a transfer is in its life. It is in flight, or carried by one
  thread that is past the mutex and is to fill it or to call its callback, or completed; what is to be
  cancelled is what was accepted and is in flight; a thread carries
  `cancelled` exactly for accepted ones. It gives `ReportedExactlyOnce`,
  `ToCancelInFlight` and `CancellationFinal`.
* `CallInv`: which calls run. Prepared calls are not running ones, an input
  destination has at most one and is then marked, an output result is that of a
  finished call. It gives `NoOverlappingInputCalls` and `OutputResultsCurrent`.
* `OwnerInv`: a synchronous transfer has a submitter that waits for it as long as it
  has not completed. With `LifeInv` it gives `TransferOutlivesUse`.

`NextInductive` has one step per action; actions that leave the conjunct's
variables alone go through `Still…` lemmas.

**Queues of the context** (`LibusbContext_queues`). Calls and transfers of one destination do
not pair up: a transfer may time out before its call is answered, and its
answer then goes to another one. What `QueuesInv` has instead is a balance. The
transfers in flight whose calls were started are no more than the answers in stock and the
call that runs; the calls that were not started are no more than the threads
that are about to start one. It gives `NoStrandedInput` and `NoStrandedOutput`. The order of
answers needs a chain, `OrderInv`: what was given to transfers comes before the answers
in stock, those before the call that runs, and that one before those not started.

**Refinement** (`LibusbContext_proofs`, last part). `ImplementsService` states that
`LibusbContext!Spec` implements `TransferService!Spec` under the mapping
`submitted <- Submitted`. Besides `IInv` it needs `AnswerInv` — the answer
of one JavaScript call is awaited, stored, taken or reported, at one of these
places only, and was asked for by a submitted transfer of the same destination —
and `DueInv` — a transfer that is taken as timed out has a timeout, and its
deadline has passed. Then `Submit`, `CancelTransfer` and `Tick` map to the
actions of the same meaning, `FillTransfer` to `Cancelled`, `TimedOut` or
`Answered`, and every other step leaves the mapped variables unchanged.
The abstract actions describe the moment a transfer is filled, so the race
between a timeout, a cancellation and an answer is decided there.

**Clients** (`ClientRequestProcessor_proofs`). Isolation says of a request that is
inside PC/SC-Lite whose identifier it uses; to be preserved, it needs to know
whose identifiers a registry names, and for how long the check made earlier is
good. `IInv` therefore adds to the types and to the two leak properties

* `RequestInv`, of each thread: it holds its processor alive (`ShapeOK`); what it
  was admitted with, or obtained, belongs to its client (`OwnOK`); what
  it is about to remove from the registry is already gone from PC/SC-Lite (`GoneOK`);
* `RegistryInv`: registries and the background threads' lists name only what was
  given to their own client, and the cleanup's lists are empty until the processor is gone;
* `CoreInv`: what was never given to anybody does not exist, and a handle's
  context does.

`MoveStep` covers every step that leaves the registries alone (threads that
move, contexts that PC/SC-Lite forgets, lists that shrink), `RegistryStep` every
update of one registry, `DestroyStep` the end of a processor; creation and
deletion of handlers and the two calls that obtain an identifier have lemmas of
their own. The same invariant gives the action properties `OnlyOwnersRelease`
and `OnlyOwnersInterrupt`. None of this depends on `Disciplined`, on
`CancelOverlaps` or on `CoreMayRevoke`: clients are isolated however they break the
threading rule, and a failed check ends the server without breaking the invariant.

`ChecksHold` does depend on them. Its hypothesis `ThreadingRule` says that an
`SCardCancel` overlaps an `SCardGetStatusChange` at most, and nothing at all where PC/SC-Lite may
lose a context by itself: finding 2 is what happens when it overlaps a release. The runs
`clients_isolation` and `clients_gone` satisfy it. `CInv` adds to `IInv` that
a request that is going to remove something from a registry is the only one that may,
and still finds it there.

**Deferred jobs** (`ClientRequests_proofs`). For any set of jobs, which may add
one another and dispose of the processor: `RunInOrder` and `NothingStranded`. The
invariant adds to the types `QueueFollows` (until disposal, the jobs that were added are those that were
started followed by the queue), `PendingIsHeld` (a pending promise belongs to the
running job or to one in the queue) and `LoopRuns` (the loop runs while a job does, and until the
queue is empty). `ClientRequests` and `CertificateBridge` use this: between two
callbacks a processor is a queue that waits, or empty.

**Calls** (`ClientRequests_proofs`). `RoadImplementsRemoteCalls`: under the mapping of
`CallsImplemented`, every step of the road is one of `RemoteCalls` or a stutter. `executed` counts, and the abstract `Execute`
needs a call that was not executed yet, so that a second execution would be no step of `RemoteCalls`. `CallsInv`
says where a call can be: at one place of the road (`CallsApart`), with what is on
its way back being its own result (`ResultsOwn`). Each function of the page that moves several calls at
once (`PostToServer`, `FlushPosting`, `FlushAdmitted`, `HandleRequest`, `DisposeHandler`)
has a lemma that it only passes them on; the steps are then put together per action.

**Channels** (`Channels_proofs`). `PongsEstablish` follows from the types: what a page
sends bears its identifier. `PingersNeverGiveUp` needs a timed argument. While an
end waits, a message that will reset its timer is due early enough; `Expected` says where it is: not
sent yet, a ping on its way out, or a pong on its way back, each with the time it has left.
An end that does not know the other one's identifier yet needs two of them, since the
first pong resets nothing (`Met`). Under `PingAssumption`, `Interval + 2 * Delay < Timeout`,
this is preserved by every reload, and it is this sum that the bound of the run comes from.

**The application** (`Application_proofs`). *Permissions:* a check ends with its origin's
prompt or with what the registry says when it loads or changes, and a prompt can be closed by the latter;
`PermissionsInv` says of each promise why it may be what it is, and that who is asked
on behalf of a connection still is. *Dialogs:* `DialogsInv` relates a dialog's window, what its
user did, what is in its port and how its promise was settled. *Sockets:*
`SocketsInv` counts. What an end has received and what lies in its file are all
that the other end has written, which is known from the request it is at and how far it is with it, so
that the contents of a file are determined although a thread knows nothing of the other one.

**The pages** (`ApplicationPages_proofs`). *The API and the examples:* `ProviderInv` says at which stages
a request may have a handle of the server's; `SamplesInv` and `WindowInv` do the
same for the samples' contexts and the example's output. *Messages:* what is on its way is numbered, and
the messages that one place of the road holds follow those of the next one, from
the binary's back to the page's (`LoadingInv`, `Flow`); this needs to know that the page's port has been connected
before anything is passed on to it. In the pair of channels a callback has a number as well
(`PairInv`, `Coming`). *Crash loops:* `CrashInv` says that whatever a page has read from the storage, or
written to it, knows of the crashes that caused the last two reloads (`Covers`), unless they have left the
window, so that the page whose crash would be the third finds them (`MayReload`).
The list of recent crashes is chosen by its defining property (`Arrays!Filter`), not with the recursive
`SelectSeq`, of which the prover knows nothing.

**The window** (`ApplicationWindow_proofs`). `WindowIsCurrent` puts together three invariants. *Clients:* `AppsInv`
says that the list of clients is the last one in the window's port, or else what the last lookup will show or has
shown, so that lookups that end late are harmless; the crash is shown or in its port. *Logs:* `LogsInv` says
what the buffer keeps of all records (`Kept`: the first ones, the last ones, and how many there were), and that what a window
has read of an export, followed by what is in its port, is all that was to be said of the records at the
moment it asked. *Devices:* `DevicesInv` says that a hook that listens, and is owed no answer, has last heard
the session's state (`HookRight`), that the list of readers, if listed since something changed, is right for
what the hooks let through, and that it is in the window's port or shown. That each
reader is shown once is a bijection between the devices and the places of the filtered list
(`ListShows`), with the spurious twins of working readers left out; it takes that devices have different names,
as the server gives readers of one kind different numbers (`DevicesAssumption`).

**Only model-checked.** All liveness properties (fairness and `ENABLED` are
beyond the prover), and `DumpsFaithful`: it says what a recursive function over values
computes, which takes an induction over data. Every other invariant that a passing run checks is a theorem.

## 5. Findings

1. **A deleted handler may be blocked for ever** (`clients_blocked`).
   `clients_manager.cc:176-182` promises that a potentially infinite request does
   not block the resources of a deleted handler for ever. The cancellation
   thread calls `SCardCancel` once for each context of a snapshot; PC/SC-Lite
   ignores it unless the call is in its wait at that moment. A request
   that has passed the registry's check and not yet entered its wait, or
   is comparing reader states after an event, waits for ever afterwards.
2. **A cancel that overlaps a release aborts the server**
   (`clients_cancel_release`). `client_request_processor.cc:1149-1150` and the header
   allow `SCardCancel` at any time. If `SCardReleaseContext` completes in PC/SC-Lite
   between the registry check and the core call of `SCardCancel`, both
   remove the context from the registry, and the second removal fails a
   `GOOGLE_SMART_CARD_CHECK`, for all clients.
3. **A client that leaves while its calls wait fails a fatal check**
   (`requests_after_disposal`). `server-request-handler.js:183-211` disposes of the handler but
   not of its queue; when the server becomes ready afterwards, the jobs run without a message
   channel, and the check at `:294` fails, which in a release reloads the Connector.
4. **A dialog is rejected when another window is closed** (`dialogs_cancelled`).
   `in-popup-main-script.js:170-174` speaks of the dialog's own window; in an extension the
   listener at `:180` is told of every window and does not compare identifiers.
5. **A withdrawn policy still grants** (`permissions_withdrawn`). The promise of a
   prompt that was closed because the policy allowed its origin is resolved
   (`user-prompting-checker.js:425`) and remembered for as long as the page runs; a connection
   after the policy was withdrawn meets none of the criteria in
   `policy-or-prompting-permissions-checker.js:52-63` and is granted.

Met while modelling, without a run of their own: `popup-opener.js:119-121` deletes
from `windowIdMap` by a key that it does not have; `chrome-login-state-hook.js:82`
removes a listener other than the one added at `:97`; `chrome-api-provider.js:240` shifts a
signed number, so that an event count of 2^15 or more comes out negative; the
resolver that `managed-registry.js:128` stores for an origin is that of its latest connection, so that a
policy change settles the earlier ones only through the prompt it closes; a
closing that comes before the opener knows the prompt's window is lost, and the prompt stays;
a first policy that cannot be read makes `getByOrigin` reject until the page is reloaded; a session
that is still queued when the daemon shuts down is never served nor closed; a script that fails to load in the
offscreen document may send "disposed" before `createDocument` is fulfilled, and then no `MessageWaiter` is
registered for it: `port-message-channel.js:202-207` fails the page and the load promise stays pending, where
`executable-module.js:83-89` says that it is rejected if the loading failed (`LoadingEnds` excludes just this);
and `debug-dump.js:117-118` rounds at 64 bits, so that -2147483649 is shown as 0xFFFFFFFF80000000, the
two's complement of -2147483648 (`NumberShown` demands the nearest number only).

## 6. Not modelled

* *Reader errors* (`pcsc_lite_server_web_port_service.cc`,
  `readerfactory_webport.cc`): the count of retries is printed into a device name and
  parsed again by the vendored daemon, and what makes a reader fail is outside
  the repository; a model would consist of assumptions about hotplug code that is not in `src/`'s own
  part. `reader-tracker.js` is seen by `WindowDevices` as a list that follows the server's.
* *Devices, descriptors and handles of `LibusbJsProxy`*: a counted reference per object, where
  every function pairs its own calls, and conversions of descriptors.
* *The overlap of two calls of one client for one context*, against PC/SC's
  threading rule: `ClientRequestProcessor` stops at `Disciplined`, since what follows
  depends on the global lock of the vendored client library. `PROJECT.json` keeps the hazard.
* *`AdminPolicyService`*: posts the policy when it changes; its receiver is modelled.
* *C++ `Requester` and `TypedMessageRouter`*: the module's end of a call is `ModuleTakes` and
  `ModuleAnswers` in `ClientRequests`, and a client request's thread in `ClientRequestProcessor`.
* *Client libraries*, conversions between C++ values, JavaScript values and
  messages, the adaptors to WebUSB and `chrome.usb` (one call each), localization,
  clipboard, testing helpers, build files: functions of their arguments, without state.
* *Vendored libraries*, but for what `ClientRequestProcessor` needs of `winscard_clnt.c` and
  `EmulatedSockets` of `ContextThread`.
