-------------------------- MODULE ChromeApiProvider --------------------------
(***************************************************************************)
(* chrome-api-provider.js: the browser's Web Smart Card API requests,      *)
(* which arrive as events, are turned into calls of the PC/SC server, and  *)
(* are answered by reporting a result for the event's request id.          *)
(*                                                                         *)
(* The events of several web pages interleave; each waits for the server   *)
(* to be ready, for the server, and for its conversions, any of which may  *)
(* fail.  The server, which runs every call on a thread of its own, is     *)
(* modelled by the contexts and card handles it opens and closes.          *)
(***************************************************************************)
EXTENDS Naturals, Sequences, FiniteSets

CONSTANTS
  Requests,             \* the request ids of the browser's events
  Contexts, Handles,    \* what the server may hand out
  Nothing

NothingAssumption ==
  Nothing \notin Contexts \cup Handles /\ Contexts \cap Handles = {}

VARIABLES
  request,      \* each request: its event, its answer, how far it has got
  server,       \* "starting", "ready" or "gone"
  opened        \* the server's open contexts and handles, with their contexts

vars == <<request, server, opened>>

-----------------------------------------------------------------------------
\* The conversions.  A bit mask is the set of its flags; "other" is a value that
\* is none of those the code knows; Throws is the exception.
Throws == "throws"
Within(known, value) == IF value \in known THEN value ELSE Throws

ShareMode(value)   == Within({"exclusive", "shared", "direct"}, value)
Disposition(value) == Within({"leave", "reset", "unpower", "eject"}, value)
Pci(value)         == Within({"t0", "t1", "raw"}, value)
\* (Mutant: no value for an undefined protocol.)
ProtocolNoUndefined(value) == Within({"t0", "t1", "raw"}, value)
Protocol(value)    == Within({"undefined", "t0", "t1", "raw"}, value)
Protocols(chosen)  == chosen \cap {"t0", "t1", "raw"}
Buffer(value)      == Within({"bytes"}, value)

ErrorCode(value) ==
  Within({"removedCard", "resetCard", "unpoweredCard", "unresponsiveCard",
    "unsupportedCard", "readerUnavailable", "sharingViolation", "notTransacted",
    "noSmartcard", "protoMismatch", "systemCancelled", "notReady", "cancelled",
    "insufficientBuffer", "invalidHandle", "invalidParameter", "invalidValue",
    "noMemory", "timeout", "unknownReader", "unsupportedFeature",
    "noReadersAvailable", "serviceStopped", "noService", "commError",
    "internalError", "unknownError", "serverTooBusy", "unexpected", "shutdown"}, value)

\* The flags of a state are looked at from the most specific one.
ConnectionState(flags) ==
  LET order == <<"specific", "negotiable", "powered", "swallowed", "present", "absent">>
      set == {i \in DOMAIN order : order[i] \in flags}
  IN IF set = {} THEN Throws ELSE order[CHOOSE i \in set : \A j \in set : i <= j]

\* A reader's state: the flags, and the number of events in the upper half of a
\* 32-bit word, which JavaScript's shifts read as signed.
ReaderFlags ==
  {"ignore", "changed", "unknown", "unavailable", "empty", "present",
   "exclusive", "inuse", "mute", "unpowered"}
Negative(count) == count % 2^16 >= 2^15
ReaderStateIn(state) ==
  [flags |-> state.flags \cap ReaderFlags, count |-> state.count % 2^16,
   negative |-> Negative(state.count)]
ReaderStateOut(word) ==
  [flags |-> IF word.flags = {} THEN {"unaware"} ELSE word.flags \cap ReaderFlags,
   count |-> word.count, negative |-> Negative(word.count), atr |-> Buffer(word.atr)]

\* The server takes the state as an unsigned number.
Accepted(word) == ~word.negative

-----------------------------------------------------------------------------
\* The handlers of the events: what the call is about, how the arguments that
\* need it are converted, and the results in the order of their conversion.
Handler(on, arguments, results) ==
  [on |-> on, arguments |-> arguments, results |-> results]

EstablishContext == Handler("nothing", {}, <<"opened">>)
ReleaseContext   == Handler("context", {}, <<>>)
ListReaders      == Handler("context", {}, <<"readers">>)
GetStatusChange  == Handler("context", {"readerState"}, <<"readerState">>)
Cancel           == Handler("context", {}, <<>>)
Connect          == Handler("context", {"shareMode", "protocols"}, <<"opened", "protocol">>)
Disconnect       == Handler("handle", {"disposition"}, <<>>)
Transmit         == Handler("handle", {"pci"}, <<"data">>)
Control          == Handler("handle", {}, <<"data">>)
GetAttrib        == Handler("handle", {}, <<"data">>)
SetAttrib        == Handler("handle", {}, <<>>)
Status           == Handler("handle", {}, <<"readers", "state", "protocol", "data">>)
BeginTransaction == Handler("handle", {}, <<>>)
EndTransaction   == Handler("handle", {"disposition"}, <<>>)

\* subscribeToChromeApiEvents_
Handlers ==
  [establishContext |-> EstablishContext, releaseContext |-> ReleaseContext,
   listReaders |-> ListReaders, getStatusChange |-> GetStatusChange,
   cancel |-> Cancel, connect |-> Connect, disconnect |-> Disconnect,
   transmit |-> Transmit, control |-> Control, getAttrib |-> GetAttrib,
   setAttrib |-> SetAttrib, status |-> Status,
   beginTransaction |-> BeginTransaction, endTransaction |-> EndTransaction]

\* What the browser may pass: a page that asks to transmit may name the protocol
\* of a direct connection, one that waits for a change any count of events.
Arguments ==
  [shareMode : {"shared"}, protocols : {{"t1"}}, disposition : {"leave"},
   pci : {"t1", "undefined"},
   readerState : [flags : {{"present"}}, count : {0, 2^15}]]

Converts(kinds, a) ==
  /\ "shareMode" \in kinds => ShareMode(a.shareMode) # Throws
  /\ "disposition" \in kinds => Disposition(a.disposition) # Throws
  /\ "pci" \in kinds => Pci(a.pci) # Throws
IsAccepted(kinds, a) ==
  /\ "readerState" \in kinds => Accepted(ReaderStateIn(a.readerState))
  /\ "protocols" \in kinds => Protocols(a.protocols) # {}

\* What the server may answer when it succeeds, and opens `id`.
Results(results, id) ==
  LET protocols == {"undefined", "t1"}
      states == {{"present", "powered", "specific"}, {"other"}}
      readerStates == {[flags |-> {"present"}, count |-> 1, atr |-> "bytes"]}
  IN CASE results = <<>> -> {<<>>}
       [] results = <<"opened">> -> {<<id>>}
       [] results = <<"opened", "protocol">> -> {id} \X protocols
       [] results = <<"readerState">> -> {<<s>> : s \in readerStates}
       [] results = <<"readers", "state", "protocol", "data">> ->
            {"bytes"} \X states \X protocols \X {"bytes"}
       [] OTHER -> {<<"bytes">>}

Throwing(kind, value) ==
  CASE kind = "protocol" -> Protocol(value) = Throws
    [] kind = "state" -> ConnectionState(value) = Throws
    [] kind = "data" -> Buffer(value) = Throws
    [] kind = "readerState" -> ReaderStateOut(value).atr = Throws
    [] OTHER -> FALSE

Answer(code, results) == [code |-> code, results |-> results]
Rejected == Answer("rejected", <<>>)

\* What a handler makes of the server's answer.  The code stays INTERNAL_ERROR
\* unless everything has been converted; a handle that came first is kept.
Outcome(handler, answer) ==
  LET throws == \E i \in DOMAIN answer.results :
                  Throwing(handler.results[i], answer.results[i])
  IN [code |-> CASE answer.code = "rejected" \/ throws -> "internalError"
                 [] answer.code = "success" /\ ~throws -> "success"
                 [] OTHER -> IF ErrorCode(answer.code) = Throws THEN "internalError"
                             ELSE ErrorCode(answer.code),
      id |-> IF answer.results # <<>> /\ handler.results[1] = "opened"
             THEN answer.results[1] ELSE Nothing]

-----------------------------------------------------------------------------
NoOutcome == [code |-> "none", id |-> Nothing]
Unsent ==
  [event |-> "none", target |-> Nothing, accepted |-> TRUE, stage |-> "unsent",
   answer |-> Rejected, outcome |-> NoOutcome]

Init ==
  /\ request = [r \in Requests |-> Unsent]
  /\ server = "starting" /\ opened = {}

Stage(r) == request[r].stage

\* The contexts or handles the browser has been given, and what it may name.
Given == {request[r].outcome.id : r \in {q \in Requests : request[q].outcome.code = "success"}}
Nameable(on) ==
  CASE on = "nothing" -> {Nothing}
    [] on = "context" -> Given \cap Contexts
    [] OTHER -> Given \cap Handles

Answered(q, answer) == [q EXCEPT !.stage = "answered", !.answer = answer]

\* The browser's events are listened to as long as the server is there.
Subscribed == server # "gone"

\* An event arrives: the arguments are converted and the call is posted, or
\* waits for the server.
Request(r, event, target, a) ==
  /\ Subscribed /\ Stage(r) = "unsent"
  /\ LET kinds == Handlers[event].arguments
         q == [Unsent EXCEPT !.event = event, !.target = target, !.stage = "waiting",
                             !.accepted = IsAccepted(kinds, a)]
     IN request' = [request EXCEPT ![r] = IF Converts(kinds, a) THEN q
                                          ELSE Answered(q, Rejected)]
  /\ UNCHANGED <<server, opened>>

ServerReady ==
  /\ server = "starting"
  /\ server' = "ready"
  /\ UNCHANGED <<request, opened>>

\* Mutant: the requester rejects nothing.
DisposeProviderOnly(requests) == requests

\* The requester, and with it every promise that has not been settled, goes
\* with the provider.
DisposeProvider(requests) ==
  [r \in Requests |->
     IF requests[r].stage \in {"waiting", "answered"}
     THEN Answered(requests[r], Rejected) ELSE requests[r]]

\* The server fails to start, or crashes.
ServerGone ==
  /\ server # "gone"
  /\ server' = "gone" /\ opened' = {}
  /\ request' = DisposeProvider(request)

\* What the promise was settled with is reported for the event's request id.
Report(r) ==
  /\ Stage(r) = "answered"
  /\ request' = [request EXCEPT ![r].stage = "reported", ![r].answer = Rejected,
                   ![r].outcome = Outcome(Handlers[request[r].event], request[r].answer)]
  /\ UNCHANGED <<server, opened>>

-----------------------------------------------------------------------------
\* The server, which is not in JavaScript.  A call fails with any code, ...
Fail(r, code) ==
  /\ server = "ready" /\ Stage(r) = "waiting"
  /\ request' = [request EXCEPT ![r] = Answered(@,
                   IF @.accepted THEN Answer(code, <<>>) ELSE Rejected)]
  /\ UNCHANGED <<server, opened>>

Closed(q) ==
  CASE q.event = "disconnect" -> {o \in opened : o.id = q.target}
    [] q.event = "releaseContext" -> {o \in opened : q.target \in {o.id, o.context}}
    [] OTHER -> {}
Fresh(q) ==
  CASE q.event = "establishContext" -> Contexts \ {o.id : o \in opened}
    [] q.event = "connect" -> Handles \ {o.id : o \in opened}
    [] OTHER -> {Nothing}
Opened(q, id) ==
  IF id = Nothing THEN {}
  ELSE {[id |-> id, context |-> IF q.event = "connect" THEN q.target ELSE id]}

\* ... or succeeds, if what it is about is open.
Execute(r) ==
  LET q == request[r]
      handler == Handlers[q.event]
  IN /\ server = "ready" /\ q.stage = "waiting" /\ q.accepted
     /\ q.target = Nothing \/ \E o \in opened : o.id = q.target
     /\ \E id \in Fresh(q) :
          /\ opened' = (opened \ Closed(q)) \cup Opened(q, id)
          /\ \E results \in Results(handler.results, id) :
               request' = [request EXCEPT ![r] = Answered(@, Answer("success", results))]
     /\ UNCHANGED server

Next ==
  \/ \E r \in Requests, event \in DOMAIN Handlers :
       \E target \in Nameable(Handlers[event].on), a \in Arguments :
         Request(r, event, target, a)
  \/ ServerReady \/ ServerGone
  \/ \E r \in Requests : Report(r) \/ Execute(r)
  \/ \E r \in Requests, code \in {"invalidHandle", "other"} : Fail(r, code)

\* The server starts or fails, calls that do not wait for a reader or for another
\* client's transaction return, promises are settled.
Blocking == {"getStatusChange", "beginTransaction"}
Fairness ==
  /\ WF_vars(ServerReady \/ ServerGone)
  /\ \A r \in Requests :
       /\ WF_vars(Report(r))
       /\ WF_vars(request[r].event \notin Blocking /\ Fail(r, "invalidHandle"))

Spec == Init /\ [][Next]_vars /\ Fairness

-----------------------------------------------------------------------------
\* Nothing is opened in the server that nobody can close: the browser has been
\* given each open context and handle as a success, or its answer is on the way
\* there.  A conversion that fails after the call has done its work loses it.
NoHandleLost ==
  \A o \in opened :
    \/ o.id \in Given
    \/ \E r \in Requests :
         /\ Stage(r) = "answered"
         /\ Outcome(Handlers[request[r].event], request[r].answer)
              = [code |-> "success", id |-> o.id]

\* Every event is answered in the end: whatever the conversions and the server
\* do, and if the server goes away, even what was blocked in it.
RequestsReported ==
  \A r \in Requests :
    \/ Stage(r) = "answered"
    \/ Stage(r) = "waiting" /\ (request[r].event \notin Blocking \/ server = "gone")
    ~> Stage(r) = "reported"
=============================================================================
