--------------------------- MODULE ClientRequests ---------------------------
(***************************************************************************)
(* The way of a client's calls through the Connector's page and back:      *)
(* the client's Requester and the page's RequestReceiver (requester.js,    *)
(* request-receiver.js) over their channel; the ClientHandler's and the    *)
(* ServerRequestHandler's queues (deferred-processor.js), which wait for   *)
(* the permission and for the server; and the page's own Requester over    *)
(* the delayed channel to the executable module.                           *)
(*                                                                         *)
(* Callbacks of the page run to completion, so each action is one callback *)
(* with everything it calls.  The client may leave, send nonsense, and the *)
(* module may crash, between any two of them.                              *)
(***************************************************************************)
EXTENDS Naturals, Sequences, FiniteSets, DelayedChannel

CONSTANTS
  Calls,
  Bye,          \* a port's disconnection
  Junk,         \* a request no RequestMessageData can be parsed from, or a
                \* message of a service nobody has registered
  Create, Delete  \* the messages that create and delete the module's handler

CallsAssumption ==
  /\ {Bye, Junk, Create, Delete} \cap Calls = {}
  /\ Bye \notin [call : Calls, ok : BOOLEAN]

VARIABLES
  promise,      \* the client's Requester: the promise of each call
  clientOpen,   \* the client's end of its channel, and so its Requester
  toPage,       \* messages from the client to the page
  toClient,     \* messages from the page to the client
  page,         \* what the page keeps for the client
  module,       \* the executable module: "loading", "running" or "gone"
  working,      \* the calls the module is executing
  fromModule,   \* its answers on their way
  executed      \* history: how often it has executed each call

vars == <<promise, clientOpen, toPage, toClient, page, module, working,
          fromModule, executed>>

\* A ResponseMessageData: the result or the error of a request.
Answer(c, ok) == [call |-> c, ok |-> ok]

\* RequestMessageData.parseMessageData and its counterpart for answers.
IsRequest(m) == m \in Calls
IsAnswer(m) == m \in [call : Calls, ok : BOOLEAN]

\* RemoteCallMessage.parseRequestPayload: a request may hold something else.
Payloads == {"call", "other"}
IsRemoteCall(payload) == payload = "call"

\* A DeferredProcessor between two callbacks: it is not flushing.
NewProcessor == [settled |-> FALSE, disposed |-> FALSE, queue |-> <<>>]

Init ==
  /\ promise = [c \in Calls |-> "none"]
  /\ clientOpen = TRUE
  /\ toPage = <<>> /\ toClient = <<>>
  /\ page = [live |-> TRUE,             \* the ClientHandler and its channel
             admitted |-> NewProcessor, \* its queue, which awaits permission
             posting |-> NewProcessor,  \* the ServerRequestHandler's queue
             requester |-> "none",      \* its Requester, and what it awaits
             pending |-> {},
             answers |-> {},            \* settled, not passed on yet
             delayed |-> NewDelayed,
             failed |-> FALSE]          \* a check of the page has failed
  /\ module = "loading"
  /\ working = {} /\ fromModule = <<>> /\ executed = [c \in Calls |-> 0]

-----------------------------------------------------------------------------
\* postRequestToServer_ for the jobs js in turn: the first one creates the
\* module's handler and the Requester.  Without the server's channel, which a
\* disposed ServerRequestHandler has let go of, the check fails and throws.
PostToServer(pg, js) ==
  CASE js = <<>> -> pg
    [] js # <<>> /\ ~pg.live -> [pg EXCEPT !.failed = TRUE]
    [] OTHER ->
         [pg EXCEPT
            !.requester = "live",
            !.pending = @ \cup {js[i] : i \in DOMAIN js},
            !.delayed = DelayedSend(@,
               IF pg.requester = "none" THEN <<Create>> \o js ELSE js)]

Rejected(js) == {Answer(js[i], FALSE) : i \in DOMAIN js}

\* Mutant: the jobs that are run stay in the queue.
FlushKeeping(pg) ==
  IF pg.posting.settled /\ ~pg.posting.disposed
  THEN PostToServer(pg, pg.posting.queue) ELSE pg

\* DeferredProcessor.flushEnqueuedJobs_: everything queued is run in turn, or
\* rejected once the processor is disposed of.
FlushPosting(pg) ==
  LET js == pg.posting.queue
      flushed == [pg EXCEPT !.posting.queue = <<>>]
  IN CASE ~pg.posting.settled -> pg
       [] pg.posting.disposed -> [flushed EXCEPT !.answers = @ \cup Rejected(js)]
       [] OTHER -> PostToServer(flushed, js)

\* The jobs of the ClientHandler add jobs to the ServerRequestHandler.
FlushAdmitted(pg) ==
  LET js == pg.admitted.queue
      flushed == [pg EXCEPT !.admitted.queue = <<>>]
  IN CASE ~pg.admitted.settled -> pg
       [] pg.admitted.disposed -> [flushed EXCEPT !.answers = @ \cup Rejected(js)]
       [] OTHER -> FlushPosting([flushed EXCEPT !.posting.queue = @ \o js])

\* DeferredProcessor.addJob of the ClientHandler.
AddJob(pg, c) == FlushAdmitted([pg EXCEPT !.admitted.queue = Append(@, c)])

\* ClientHandler.handleRequest_.
HandleRequest(pg, c, payload) ==
  IF IsRemoteCall(payload)
  THEN AddJob(pg, c)
  ELSE [pg EXCEPT !.answers = @ \cup {Answer(c, FALSE)}]

\* The disposal of the ClientHandler: its queue is rejected, the Requester is
\* disposed of and rejects what it awaits, the module's handler is deleted, the
\* client's channel is closed.  The ServerRequestHandler's queue stays.
DisposeHandler(pg) ==
  [pg EXCEPT
     !.live = FALSE,
     !.admitted = [settled |-> TRUE, disposed |-> TRUE, queue |-> <<>>],
     !.requester = "gone", !.pending = {}, !.answers = {},
     !.delayed = IF pg.requester = "live" THEN DelayedSend(@, <<Delete>>) ELSE @]

\* nonFatalDefaultServiceCallback, and the answer to an invalid request: the
\* client's channel is disposed of.
DefaultServiceCallback(pg) == DisposeHandler(pg)

\* Mutant: the Requester's disposal forgets what it awaits.
DropNothing(p) == p

\* The client's Requester rejects everything it awaits.
Drop(p) == [c \in Calls |-> IF p[c] = "pending" THEN "rejected" ELSE p[c]]

-----------------------------------------------------------------------------
\* Requester.postRequest of the client.
Post(c) ==
  /\ promise[c] = "none"
  /\ promise' = [promise EXCEPT ![c] = IF clientOpen THEN "pending" ELSE "rejected"]
  /\ toPage' = IF clientOpen THEN Append(toPage, c) ELSE toPage
  /\ UNCHANGED <<clientOpen, toClient, page, module, working, fromModule, executed>>

\* The client's channel and its Requester are disposed of.
ClientLeaves ==
  /\ clientOpen
  /\ clientOpen' = FALSE /\ promise' = Drop(promise)
  /\ toPage' = Append(toPage, Bye)
  /\ UNCHANGED <<toClient, page, module, working, fromModule, executed>>

ClientSendsJunk ==
  /\ clientOpen /\ toPage = <<>>
  /\ toPage' = <<Junk>>
  /\ UNCHANGED <<promise, clientOpen, toClient, page, module, working,
                 fromModule, executed>>

\* responseMessageReceivedListener_ of the client, or its disconnected port.
ClientReceives ==
  /\ toClient # <<>>
  /\ toClient' = Tail(toClient)
  /\ LET m == Head(toClient)
     IN IF IsAnswer(m)
        THEN /\ promise' = IF clientOpen
                           THEN [promise EXCEPT ![m.call] =
                                   IF m.ok THEN "resolved" ELSE "rejected"]
                           ELSE promise
             /\ UNCHANGED clientOpen
        ELSE clientOpen' = FALSE /\ promise' = Drop(promise)
  /\ UNCHANGED <<toPage, page, module, working, fromModule, executed>>

-----------------------------------------------------------------------------
\* requestMessageReceivedListener_ of the page's RequestReceiver, or the
\* client's disconnected port.  A disposed channel has stopped listening.
PageReceives(payload) ==
  /\ toPage # <<>>
  /\ toPage' = Tail(toPage)
  /\ LET m == Head(toPage)
     IN \/ ~page.live /\ UNCHANGED <<page, toClient>>
        \/ /\ page.live /\ IsRequest(m)
           /\ page' = HandleRequest(page, m, payload) /\ UNCHANGED toClient
        \/ /\ page.live /\ m = Junk
           /\ page' = DefaultServiceCallback(page) /\ toClient' = Append(toClient, Bye)
        \/ /\ page.live /\ ~IsRequest(m) /\ m # Junk
           /\ page' = DisposeHandler(page) /\ UNCHANGED toClient
  /\ UNCHANGED <<promise, clientOpen, module, working, fromModule, executed>>

\* The permission check's promise settles: DeferredProcessor's listeners.
PermissionSettles(granted) ==
  /\ page.live /\ ~page.admitted.settled
  /\ page' = FlushAdmitted([page EXCEPT !.admitted.settled = TRUE,
                                        !.admitted.disposed = ~granted])
  /\ UNCHANGED <<promise, clientOpen, toPage, toClient, module, working,
                 fromModule, executed>>

\* The readiness tracker's promise is resolved by the server's message, or
\* rejected with the module's channel.
ServerSettles ==
  /\ ~page.posting.settled /\ module # "loading"
  /\ page' = FlushPosting([page EXCEPT !.posting.settled = TRUE,
                                       !.posting.disposed = module = "gone"])
  /\ UNCHANGED <<promise, clientOpen, toPage, toClient, module, working,
                 fromModule, executed>>

\* The page's Requester gets an answer of the module.
PageHears ==
  /\ fromModule # <<>>
  /\ fromModule' = Tail(fromModule)
  /\ LET a == Head(fromModule)
     IN page' = CASE page.requester # "live" -> page
                  [] page.requester = "live" /\ a.call \notin page.pending ->
                       [page EXCEPT !.failed = TRUE]
                  [] OTHER -> [page EXCEPT !.pending = @ \ {a.call},
                                           !.answers = @ \cup {a}]
  /\ UNCHANGED <<promise, clientOpen, toPage, toClient, module, working, executed>>

\* RequestReceiver's listeners of a handled request: sendResponse_.
Respond(a) ==
  /\ a \in page.answers
  /\ page' = [page EXCEPT !.answers = @ \ {a}]
  /\ toClient' = Append(toClient, a)
  /\ UNCHANGED <<promise, clientOpen, toPage, module, working, fromModule, executed>>

-----------------------------------------------------------------------------
ModuleLoads ==
  /\ module = "loading"
  /\ module' = "running"
  /\ page' = [page EXCEPT !.delayed = SetReady(SetUnderlyingChannel(@))]
  /\ UNCHANGED <<promise, clientOpen, toPage, toClient, working, fromModule, executed>>

\* The module takes the next message; it executes a call for its handler.
ModuleTakes ==
  /\ module = "running" /\ page.delayed.passed # <<>>
  /\ LET m == Head(page.delayed.passed)
     IN /\ working' = IF m \in Calls THEN working \cup {m} ELSE working
        /\ executed' = IF m \in Calls THEN [executed EXCEPT ![m] = @ + 1] ELSE executed
  /\ page' = [page EXCEPT !.delayed.passed = Tail(@)]
  /\ UNCHANGED <<promise, clientOpen, toPage, toClient, module, fromModule>>

ModuleAnswers(c, ok) ==
  /\ c \in working
  /\ working' = working \ {c}
  /\ fromModule' = Append(fromModule, Answer(c, ok))
  /\ UNCHANGED <<promise, clientOpen, toPage, toClient, page, module, executed>>

\* The module crashes or fails to load, and its channel is disposed of: the
\* ServerRequestHandler has no channel any more to send anything through.
ModuleCrashes ==
  /\ module # "gone"
  /\ module' = "gone"
  /\ page' = LET pg == [page EXCEPT !.delayed = DisposeDelayed(@)]
             IN IF page.live THEN DisposeHandler(pg) ELSE pg
  /\ toClient' = IF page.live THEN Append(toClient, Bye) ELSE toClient
  /\ working' = {} /\ fromModule' = <<>>
  /\ UNCHANGED <<promise, clientOpen, toPage, executed>>

Next ==
  \/ \E c \in Calls : Post(c)
  \/ ClientLeaves \/ ClientSendsJunk \/ ClientReceives
  \/ \E payload \in Payloads : PageReceives(payload)
  \/ ServerSettles \/ PageHears
  \/ \E ok \in BOOLEAN : PermissionSettles(ok)
  \/ \E a \in page.answers : Respond(a)
  \/ ModuleLoads \/ ModuleTakes \/ ModuleCrashes
  \/ \E c \in working, ok \in BOOLEAN : ModuleAnswers(c, ok)

\* The event loop runs what is due, the user answers
\* the permission prompt, the module loads and answers.  Nobody has to post,
\* leave or crash.
Fairness ==
  /\ WF_vars(ClientReceives) /\ WF_vars(PageHears)
  /\ WF_vars(\E payload \in Payloads : PageReceives(payload))
  /\ WF_vars(ServerSettles \/ ModuleLoads \/ ModuleTakes)
  /\ WF_vars(\E ok \in BOOLEAN : PermissionSettles(ok))
  /\ WF_vars(\E a \in page.answers : Respond(a))
  /\ WF_vars(\E c \in working, ok \in BOOLEAN : ModuleAnswers(c, ok))

Spec == Init /\ [][Next]_vars /\ Fairness

-----------------------------------------------------------------------------
\* The road keeps what RemoteCalls promises: at most one settlement of each
\* call, at most one execution, and no result without its own execution.
Abstract == INSTANCE RemoteCalls
CallsImplemented == Abstract!Spec

\* Every call of a client is settled in the end, whichever of the parts on its
\* road is disposed of, denies, fails or crashes in between.
CallsSettle ==
  \A c \in Calls : promise[c] = "pending" ~> promise[c] \in {"resolved", "rejected"}

\* server-request-handler.js:292 and requester.js:214: a job is only run while
\* there is a channel to the server, and each response belongs to a request
\* that is awaited.
ChecksHold == ~page.failed
=============================================================================
