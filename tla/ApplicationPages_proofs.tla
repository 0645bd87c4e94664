----------------------- MODULE ApplicationPages_proofs ------------------------
(***************************************************************************)
(* The Web Smart Card API, the examples, the message channels and the      *)
(* crash loops, as parts of MCApplication, for any number of requests,     *)
(* messages, tests and crashes.                                            *)
(*                                                                         *)
(* The API.  ProviderInv says at which stages a request may have a handle  *)
(* of the server's, so that what has been opened is held, reported or      *)
(* being given back.                                                       *)
(*                                                                         *)
(* Channels.  What is on its way is numbered (Numbered): the messages that *)
(* one place of the road holds follow those that the next one holds, from  *)
(* the binary's back to the page's (Flow).  This needs to know that the    *)
(* page's port has been connected before anything is passed on to it       *)
(* (OuterRight, MessagesFirst).  A callback of the channel pair has a      *)
(* number as well (Coming).                                                *)
(*                                                                         *)
(* Crash loops.  Whatever has been read from the storage, or written to it *)
(* and not yet read, knows of the crashes that caused the last two reloads *)
(* (Covers), unless they have left the window, so that a page whose crash  *)
(* would be the third finds three timestamps (MayReload).                  *)
(***************************************************************************)
EXTENDS Application_proofs

-----------------------------------------------------------------------------
\* The Web Smart Card API.
\* A request has no outcome until it is reported, and an event that has
\* arrived is one of those the code handles.
IsRequest(q) ==
  q \in [event : {q.event}, target : {q.target}, accepted : {q.accepted}, stage : {q.stage},
         answer : {q.answer}, outcome : {q.outcome}]
ProviderInv ==
  /\ request = [r \in Requests |-> request[r]]
  /\ \A r \in Requests :
       /\ IsRequest(request[r])
       /\ request[r].stage \in {"unsent", "waiting", "answered", "reported"}
       /\ request[r].stage # "reported" => request[r].outcome = Provider!NoOutcome
       /\ request[r].stage = "waiting" => request[r].event \in DOMAIN Provider!Handlers
  /\ Provider!NoHandleLost

\* What the call of a request opens is what its handler reports.
LEMMA OpenedIsReported ==
  ASSUME NEW q, q.event \in DOMAIN Provider!Handlers, NEW id \in Provider!Fresh(q), id # Nothing,
         NEW results \in Provider!Results(Provider!Handlers[q.event].results, id)
  PROVE  Provider!Outcome(Provider!Handlers[q.event], Provider!Answer("success", results))
           = [code |-> "success", id |-> id]
<1> DEFINE handler == Provider!Handlers[q.event]
           answer == Provider!Answer("success", results)
<1>1. answer.code = "success" /\ answer.results = results
  BY DEF Provider!Answer
<1>2. CASE q.event = "establishContext"
  <2>1. handler.results = <<"opened">>
    BY <1>2 DEF Provider!Handlers, Provider!EstablishContext, Provider!Handler
  <2>2. results = <<id>>
    BY <2>1 DEF Provider!Results
  <2>3. \A i \in DOMAIN results : ~Provider!Throwing(handler.results[i], results[i])
    BY <2>1, <2>2 DEF Provider!Throwing
  <2> QED BY <1>1, <2>1, <2>2, <2>3 DEF Provider!Outcome
<1>3. CASE q.event = "connect"
  <2>1. handler.results = <<"opened", "protocol">>
    BY <1>3 DEF Provider!Handlers, Provider!Connect, Provider!Handler
  <2>2. \E protocol \in {"undefined", "t1"} : results = <<id, protocol>>
    BY <2>1 DEF Provider!Results
  <2>3. \A i \in DOMAIN results : ~Provider!Throwing(handler.results[i], results[i])
    BY <2>1, <2>2 DEF Provider!Throwing, Provider!Protocol, Provider!Within, Provider!Throws
  <2> QED BY <1>1, <2>1, <2>2, <2>3 DEF Provider!Outcome
<1>4. q.event \in {"establishContext", "connect"}
  BY DEF Provider!Fresh
<1> QED BY <1>2, <1>3, <1>4

\* What a step may do to the requests: settle some that wait, report some that
\* are answered.
LEMMA RequestsMove ==
  ASSUME ProviderInv, opened' \subseteq opened,
         request' = [r \in Requests |-> request'[r]],
         \A r \in Requests :
           \/ request'[r] = request[r]
           \/ /\ IsRequest(request'[r])
              /\ request[r].stage \in {"unsent", "waiting"}
              /\ request'[r].stage \in {"waiting", "answered"}
              /\ request'[r].outcome = Provider!NoOutcome
              /\ request'[r].stage = "waiting" => request'[r].event \in DOMAIN Provider!Handlers
           \/ /\ IsRequest(request'[r])
              /\ request[r].stage = "answered" /\ request'[r].stage = "reported"
              /\ request'[r].outcome = Provider!Outcome(Provider!Handlers[request[r].event], request[r].answer)
  PROVE  ProviderInv'
<1>1. ASSUME NEW o \in opened'
      PROVE  \/ \E r \in Requests : request'[r].outcome.code = "success" /\ request'[r].outcome.id = o.id
             \/ \E r \in Requests :
                  /\ request'[r].stage = "answered"
                  /\ Provider!Outcome(Provider!Handlers[request'[r].event], request'[r].answer)
                       = [code |-> "success", id |-> o.id]
  <2>1. o \in opened
    OBVIOUS
  <2>2. CASE \E r \in Requests : request[r].outcome.code = "success" /\ request[r].outcome.id = o.id
    <3>1. PICK r \in Requests : request[r].outcome.code = "success" /\ request[r].outcome.id = o.id
      BY <2>2
    <3>2. request[r].stage = "reported"
      BY <3>1 DEF ProviderInv, Provider!NoOutcome
    <3> QED BY <3>1, <3>2
  <2>3. CASE \E r \in Requests :
               /\ request[r].stage = "answered"
               /\ Provider!Outcome(Provider!Handlers[request[r].event], request[r].answer)
                    = [code |-> "success", id |-> o.id]
    <3>1. PICK r \in Requests :
            /\ request[r].stage = "answered"
            /\ Provider!Outcome(Provider!Handlers[request[r].event], request[r].answer)
                 = [code |-> "success", id |-> o.id]
      BY <2>3
    <3>2. request'[r] = request[r] \/ request'[r].outcome = [code |-> "success", id |-> o.id]
      BY <3>1
    <3> QED BY <3>1, <3>2
  <2> QED BY <2>1, <2>2, <2>3
            DEF ProviderInv, Provider!NoHandleLost, Provider!Given, Provider!Stage
<1>2. Provider!NoHandleLost'
  BY <1>1 DEF Provider!NoHandleLost, Provider!Given, Provider!Stage
<1> QED BY <1>2 DEF ProviderInv

LEMMA ExecuteKeeps ==
  ASSUME Provider!NothingAssumption, ProviderInv, NEW r \in Requests, Provider!Execute(r)
  PROVE  ProviderInv'
<1> DEFINE q == request[r]
           handler == Provider!Handlers[q.event]
<1>1. q.stage = "waiting" /\ q.event \in DOMAIN Provider!Handlers
      /\ q.outcome = Provider!NoOutcome
  BY DEF Provider!Execute, ProviderInv
<1>2. PICK id \in Provider!Fresh(q) : \E results \in Provider!Results(handler.results, id) :
        /\ opened' = (opened \ Provider!Closed(q)) \cup Provider!Opened(q, id)
        /\ request' = [request EXCEPT ![r] =
             Provider!Answered(q, Provider!Answer("success", results))]
  BY DEF Provider!Execute
<1>7. PICK results \in Provider!Results(handler.results, id) :
        /\ opened' = (opened \ Provider!Closed(q)) \cup Provider!Opened(q, id)
        /\ request' = [request EXCEPT ![r] =
             Provider!Answered(q, Provider!Answer("success", results))]
  BY <1>2
<1> DEFINE answer == Provider!Answer("success", results)
           next == Provider!Answered(q, answer)
<1>3. next = [q EXCEPT !.stage = "answered", !.answer = answer]
  BY DEF Provider!Answered
<1>4. /\ request' = [x \in Requests |-> request'[x]] /\ request'[r] = next
      /\ \A x \in Requests : x # r => request'[x] = request[x]
  BY <1>7 DEF ProviderInv
<1> SUFFICES ASSUME NEW o \in opened'
             PROVE  \/ \E x \in Requests : request'[x].outcome.code = "success" /\ request'[x].outcome.id = o.id
                    \/ \E x \in Requests :
                         /\ request'[x].stage = "answered"
                         /\ Provider!Outcome(Provider!Handlers[request'[x].event], request'[x].answer)
                              = [code |-> "success", id |-> o.id]
  <2>1. Provider!NoHandleLost'
    BY DEF Provider!NoHandleLost, Provider!Given, Provider!Stage
  <2>2. /\ IsRequest(next) /\ next.stage = "answered" /\ next.outcome = Provider!NoOutcome
    BY <1>1, <1>3 DEF ProviderInv, IsRequest
  <2> HIDE DEF next
  <2> QED BY <1>4, <2>1, <2>2 DEF ProviderInv
<1>5. CASE o \in opened
  <2>1. CASE \E x \in Requests : request[x].outcome.code = "success" /\ request[x].outcome.id = o.id
    <3>1. PICK x \in Requests : request[x].outcome.code = "success" /\ request[x].outcome.id = o.id
      BY <2>1
    <3>2. x # r
      BY <1>1, <3>1 DEF Provider!NoOutcome
    <3> QED BY <1>4, <3>1, <3>2
  <2>2. CASE \E x \in Requests :
               /\ request[x].stage = "answered"
               /\ Provider!Outcome(Provider!Handlers[request[x].event], request[x].answer)
                    = [code |-> "success", id |-> o.id]
    BY <1>1, <1>4, <2>2
  <2> QED BY <1>5, <2>1, <2>2
            DEF ProviderInv, Provider!NoHandleLost, Provider!Given, Provider!Stage
<1>6. CASE o \in Provider!Opened(q, id)
  <2>1. id # Nothing /\ o.id = id
    BY <1>6 DEF Provider!Opened
  <2>2. Provider!Outcome(handler, answer) = [code |-> "success", id |-> id]
    BY <1>1, <2>1, OpenedIsReported
  <2>3. next.stage = "answered" /\ next.event = q.event /\ next.answer = answer
    BY <1>3 DEF ProviderInv, IsRequest
  <2> QED BY <1>4, <2>1, <2>2, <2>3
<1> QED BY <1>7, <1>5, <1>6

LEMMA ProviderStepKeeps ==
  ASSUME Provider!NothingAssumption, ProviderInv, Provider!Next
  PROVE  ProviderInv'
<1>1. ASSUME NEW r \in Requests, NEW event \in DOMAIN Provider!Handlers,
             NEW target, NEW a, Provider!Request(r, event, target, a)
      PROVE  ProviderInv'
  <2> DEFINE q == [Provider!Unsent EXCEPT !.event = event, !.target = target, !.stage = "waiting",
                     !.accepted = Provider!IsAccepted(Provider!Handlers[event].arguments, a)]
             next == IF Provider!Converts(Provider!Handlers[event].arguments, a) THEN q
                     ELSE Provider!Answered(q, Provider!Rejected)
  <2>1. request[r].stage = "unsent" /\ request' = [request EXCEPT ![r] = next] /\ UNCHANGED opened
    BY <1>1 DEF Provider!Request, Provider!Stage
  <2>2. /\ next.stage \in {"waiting", "answered"} /\ next.outcome = Provider!NoOutcome
        /\ next.event = event /\ IsRequest(next)
    BY DEF Provider!Unsent, Provider!Answered, IsRequest
  <2> HIDE DEF next
  <2>3. /\ request' = [x \in Requests |-> request'[x]] /\ request'[r] = next
        /\ \A x \in Requests : x # r => request'[x] = request[x]
    BY <2>1 DEF ProviderInv
  <2> QED BY <2>1, <2>2, <2>3, RequestsMove
<1>2. CASE Provider!ServerReady
  BY <1>2, RequestsMove DEF Provider!ServerReady, ProviderInv
<1>3. CASE Provider!ServerGone
  <2>1. /\ opened' = {}
        /\ request' = [r \in Requests |->
             IF request[r].stage \in {"waiting", "answered"}
             THEN [request[r] EXCEPT !.stage = "answered", !.answer = Provider!Rejected] ELSE request[r]]
    BY <1>3 DEF Provider!ServerGone, Provider!DisposeProvider, Provider!Answered
  <2>2. Provider!NoHandleLost'
    BY <2>1 DEF Provider!NoHandleLost
  <2>3. ASSUME NEW r \in Requests, request[r].stage \in {"waiting", "answered"},
               NEW q, q = [request[r] EXCEPT !.stage = "answered", !.answer = Provider!Rejected]
        PROVE  IsRequest(q) /\ q.stage = "answered" /\ q.outcome = Provider!NoOutcome
    BY <2>3 DEF ProviderInv, IsRequest
  <2>4. ASSUME NEW r \in Requests
        PROVE  \/ request'[r] = request[r] /\ request[r].stage \in {"unsent", "reported"}
               \/ /\ IsRequest(request'[r]) /\ request'[r].stage = "answered"
                  /\ request'[r].outcome = Provider!NoOutcome
    <3>1. CASE request[r].stage \in {"waiting", "answered"}
      BY <2>1, <2>3, <3>1
    <3>2. CASE request[r].stage \notin {"waiting", "answered"}
      BY <2>1, <3>2 DEF ProviderInv
    <3> QED BY <3>1, <3>2
  <2>5. request' = [r \in Requests |-> request'[r]]
    BY <2>1
  <2> QED BY <2>2, <2>4, <2>5 DEF ProviderInv
<1>4. ASSUME NEW r \in Requests, Provider!Report(r)
      PROVE  ProviderInv'
  <2> DEFINE out == Provider!Outcome(Provider!Handlers[request[r].event], request[r].answer)
             next == [request[r] EXCEPT !.stage = "reported", !.answer = Provider!Rejected,
                                        !.outcome = out]
  <2>1. /\ request[r].stage = "answered" /\ UNCHANGED opened
        /\ request' = [request EXCEPT ![r].stage = "reported", ![r].answer = Provider!Rejected,
                         ![r].outcome = out]
    BY <1>4 DEF Provider!Report, Provider!Stage
  <2> HIDE DEF out
  <2>2. /\ request' = [x \in Requests |-> request'[x]]
        /\ request'[r].stage = "reported" /\ request'[r].outcome = out
        /\ IsRequest(request'[r])
        /\ \A x \in Requests : x # r => request'[x] = request[x]
    <3>1. request' = [request EXCEPT ![r] = next]
      BY <2>1
    <3>2. IsRequest(next) /\ next.stage = "reported" /\ next.outcome = out
      BY DEF ProviderInv, IsRequest
    <3> HIDE DEF next
    <3> QED BY <3>1, <3>2 DEF ProviderInv
  <2> QED BY <2>1, <2>2, RequestsMove DEF out
<1>5. ASSUME NEW r \in Requests, NEW code, Provider!Fail(r, code)
      PROVE  ProviderInv'
  <2> DEFINE a == IF request[r].accepted THEN Provider!Answer(code, <<>>) ELSE Provider!Rejected
             next == [request[r] EXCEPT !.stage = "answered", !.answer = a]
  <2>1. /\ request[r].stage = "waiting" /\ UNCHANGED opened
        /\ request' = [request EXCEPT ![r] = next]
    BY <1>5 DEF Provider!Fail, Provider!Stage, Provider!Answered
  <2>2. /\ request' = [x \in Requests |-> request'[x]] /\ request'[r] = next
        /\ \A x \in Requests : x # r => request'[x] = request[x]
    BY <2>1 DEF ProviderInv
  <2>3. next.stage = "answered" /\ next.outcome = Provider!NoOutcome /\ IsRequest(next)
    BY <2>1 DEF ProviderInv, IsRequest
  <2> HIDE DEF next
  <2> QED BY <2>1, <2>2, <2>3, RequestsMove
<1> QED BY <1>1, <1>2, <1>3, <1>4, <1>5, ExecuteKeeps DEF Provider!Next

-----------------------------------------------------------------------------
\* The example clients.
\* The pending call was made with the context that the sample has, which is one
\* of the connection's; so is the one that the next call will be made with.
CallNames == {"none", "SCardEstablishContext", "SCardListReaders",
              "first SCardGetStatusChange", "second SCardGetStatusChange"}
SampleRight(s, l, contexts) ==
  /\ s \in [apiContext : {"live", "null"}, api : {"live", "null"},
            sCardContext : SCardContexts \cup {NoContext},
            call : [name : CallNames, sCardContext : SCardContexts \cup {NoContext}],
            failed : {FALSE}]
  /\ l = "open" => s.api = "live"
  /\ s.call.name \notin {"none", "SCardEstablishContext"} =>
       s.call.sCardContext \in contexts /\ s.sCardContext \in contexts
  /\ l = "opening" => s.call = Samples!NoCall
  /\ l = "shut" => s.call = Samples!NoCall /\ s.sCardContext = NoContext
AppRight(a, l) ==
  /\ a \in [context : {"live", "null"}, demo : {"none", "running", "over"}, pinDialogs : {0, 1}]
  /\ a.pinDialogs = IF a.demo = "over" THEN 1 ELSE 0
  /\ l = "opening" => a.demo = "none"
  /\ l = "shut" => a.demo # "running"
SamplesInv ==
  /\ link \in [Samples!Clients -> {"opening", "open", "shut"}]
  /\ SampleRight(sample, link["sample"], valid) /\ AppRight(app, link["app"])

\* What the callbacks of the sample leave, which call the API while it is there.
LEMMA SampleCalls ==
  ASSUME NEW contexts, NEW l, SampleRight(sample, l, contexts), sample.api = "live",
         sample.sCardContext \in contexts,
         NEW name \in CallNames, l = "open"
  PROVE  SampleRight(Samples!Call(sample, name), l, contexts)
BY DEF SampleRight, Samples!Call, CallNames

LEMMA SampleIdles ==
  ASSUME NEW contexts, NEW l, SampleRight(sample, l, contexts), l = "open"
  PROVE  SampleRight(Samples!Idle(sample), l, contexts)
BY DEF SampleRight, Samples!Idle, Samples!NoCall, CallNames

LEMMA SamplesStepKeeps ==
  ASSUME SamplesInv, Samples!Next
  PROVE  SamplesInv'
<1>1. /\ link \in [Samples!Clients -> {"opening", "open", "shut"}]
      /\ SampleRight(sample, link["sample"], valid) /\ AppRight(app, link["app"])
  BY DEF SamplesInv
<1>2. \A c \in Samples!Clients, l \in {"open", "shut"} :
        link' = [link EXCEPT ![c] = l] =>
          /\ link' \in [Samples!Clients -> {"opening", "open", "shut"}] /\ link'[c] = l
          /\ \A d \in Samples!Clients : d # c => link'[d] = link[d]
  BY <1>1
<1>3. "sample" \in Samples!Clients /\ "app" \in Samples!Clients /\ "sample" # "app"
  BY DEF Samples!Clients
<1>4. CASE Samples!SampleConnects
  <2>1. /\ link["sample"] = "opening" /\ link' = [link EXCEPT !["sample"] = "open"]
        /\ UNCHANGED <<valid, app>>
        /\ sample' = Samples!Call([sample EXCEPT !.api = "live"], "SCardEstablishContext")
    BY <1>4 DEF Samples!SampleConnects, Samples!Connect, Samples!OnInitializationSucceeded,
                Samples!EstablishContext
  <2>2. SampleRight(sample', "open", valid)
    BY <1>1, <2>1 DEF SampleRight, Samples!Call, CallNames
  <2> QED BY <1>1, <1>2, <1>3, <2>1, <2>2 DEF SamplesInv
<1>5. CASE Samples!SampleShutDown
  <2> DEFINE s == [sample EXCEPT !.sCardContext = NoContext, !.api = "null", !.apiContext = "null"]
  <2>1. /\ link' = [link EXCEPT !["sample"] = "shut"] /\ UNCHANGED app
        /\ sample' = IF s.call = Samples!NoCall THEN s ELSE [s EXCEPT !.call = Samples!NoCall]
    BY <1>5 DEF Samples!SampleShutDown, Samples!Shut, Samples!SampleDisposed,
                Samples!OnRequestFailed, Samples!Idle
  <2>2. s \in [apiContext : {"live", "null"}, api : {"live", "null"},
               sCardContext : {NoContext},
               call : [name : CallNames, sCardContext : SCardContexts \cup {NoContext}],
               failed : {FALSE}]
    BY <1>1 DEF SampleRight
  <2> HIDE DEF s
  <2>3. SampleRight(sample', "shut", {})
    <3>1. sample' \in [apiContext : {"live", "null"}, api : {"live", "null"},
                      sCardContext : {NoContext}, call : {Samples!NoCall}, failed : {FALSE}]
      BY <2>1, <2>2
    <3>2. Samples!NoCall \in [name : CallNames, sCardContext : SCardContexts \cup {NoContext}]
          /\ Samples!NoCall.name = "none"
      BY DEF Samples!NoCall, CallNames
    <3> QED BY <3>1, <3>2 DEF SampleRight
  <2>4. SampleRight(sample', "shut", valid')
    BY <2>3 DEF SampleRight
  <2> QED BY <1>1, <1>2, <1>3, <2>1, <2>4 DEF SamplesInv
<1>6. CASE Samples!ContextInitialized
  <2>1. /\ link["app"] = "opening" /\ link' = [link EXCEPT !["app"] = "open"]
        /\ UNCHANGED <<valid, sample>> /\ app' = [app EXCEPT !.demo = "running"]
    BY <1>6 DEF Samples!ContextInitialized, Samples!Connect, Samples!RunPcscLiteDemo
  <2>2. AppRight(app', "open")
    BY <1>1, <2>1 DEF AppRight
  <2> QED BY <1>1, <1>2, <1>3, <2>1, <2>2 DEF SamplesInv
<1>7. ASSUME app.demo = "running"
      PROVE  /\ AppRight(Samples!RunPinDialogDemo(app), link["app"])
             /\ \A l \in {"open", "shut"} : AppRight(Samples!RunPinDialogDemo(app), l)
  <2>1. app.pinDialogs + 1 = 1 /\ link["app"] # "opening"
    BY <1>1, <1>7 DEF AppRight
  <2>2. Samples!RunPinDialogDemo(app) = [app EXCEPT !.demo = "over", !.pinDialogs = 1]
    BY <2>1 DEF Samples!RunPinDialogDemo
  <2> QED BY <1>1, <2>1, <2>2 DEF AppRight
<1>8. CASE Samples!DemoEnds
  <2>1. app.demo = "running" /\ app' = Samples!RunPinDialogDemo(app) /\ UNCHANGED <<link, sample, valid>>
    BY <1>8 DEF Samples!DemoEnds
  <2> QED BY <1>1, <1>7, <2>1 DEF SamplesInv
<1>9. CASE Samples!ContextDisposed
  <2> DEFINE a == [app EXCEPT !.context = "null"]
  <2>1. /\ link' = [link EXCEPT !["app"] = "shut"] /\ UNCHANGED <<sample, valid>>
        /\ app' = IF a.demo = "running" THEN Samples!RunPinDialogDemo(a) ELSE a
    BY <1>9 DEF Samples!ContextDisposed, Samples!Shut
  <2>2. a \in [context : {"live", "null"}, demo : {app.demo}, pinDialogs : {app.pinDialogs}]
    BY <1>1 DEF AppRight
  <2> HIDE DEF a
  <2>3. CASE a.demo = "running"
    <3>1. a.pinDialogs + 1 = 1
      BY <1>1, <2>2, <2>3 DEF AppRight
    <3>2. app' = [a EXCEPT !.demo = "over", !.pinDialogs = 1]
      BY <2>1, <2>3, <3>1 DEF Samples!RunPinDialogDemo
    <3>3. AppRight(app', "shut")
      BY <2>2, <3>2 DEF AppRight
    <3> QED BY <1>1, <1>2, <1>3, <2>1, <3>3 DEF SamplesInv
  <2>4. CASE a.demo # "running"
    <3>1. AppRight(app', "shut")
      BY <1>1, <2>1, <2>2, <2>4 DEF AppRight
    <3> QED BY <1>1, <1>2, <1>3, <2>1, <3>1 DEF SamplesInv
  <2> QED BY <2>3, <2>4
<1>10. CASE Samples!SampleAnswered
  <2>1. link["sample"] = "open" /\ sample.api = "live" /\ UNCHANGED <<link, app>>
    BY <1>1, <1>10 DEF SampleRight, Samples!SampleAnswered
  <2>2. ASSUME NEW c \in SCardContexts, sample' = Samples!OnContextEstablished(sample, c),
               valid' = valid \cup {c}
        PROVE  SampleRight(sample', "open", valid')
    BY <1>1, <2>1, <2>2 DEF SampleRight, Samples!OnContextEstablished, Samples!ListReaders,
                            Samples!Call, CallNames
  <2>3. ASSUME sample.call.name \in {"SCardListReaders", "first SCardGetStatusChange"}
        PROVE  sample.sCardContext \in valid
    BY <1>1, <2>3 DEF SampleRight
  <2>4. CASE /\ sample.call.name = "SCardListReaders"
             /\ \E rs \in SUBSET Readers : sample' = Samples!OnReadersListed(sample, rs)
             /\ UNCHANGED valid
    <3>1. sample' = Samples!Idle(sample) \/ sample' = Samples!Call(sample, "first SCardGetStatusChange")
      BY <2>4 DEF Samples!OnReadersListed, Samples!GetReaderState
    <3>2. SampleRight(Samples!Idle(sample), "open", valid)
      BY <1>1, <2>1, SampleIdles
    <3>3. SampleRight(Samples!Call(sample, "first SCardGetStatusChange"), "open", valid)
      <4>1. "first SCardGetStatusChange" \in CallNames
        BY DEF CallNames
      <4> QED BY <1>1, <2>1, <2>3, <2>4, <4>1, SampleCalls
    <3> QED BY <1>1, <2>1, <2>4, <3>1, <3>2, <3>3 DEF SamplesInv
  <2>5. CASE /\ sample.call.name = "first SCardGetStatusChange"
             /\ sample' = Samples!OnReaderStateGot(sample) /\ UNCHANGED valid
    <3>1. SampleRight(Samples!Call(sample, "second SCardGetStatusChange"), "open", valid)
      <4>1. "second SCardGetStatusChange" \in CallNames
        BY DEF CallNames
      <4> QED BY <1>1, <2>1, <2>3, <2>5, <4>1, SampleCalls
    <3> QED BY <1>1, <2>1, <2>5, <3>1 DEF SamplesInv, Samples!OnReaderStateGot
  <2>6. CASE sample' = Samples!Idle(sample) /\ UNCHANGED valid
    <3>1. SampleRight(Samples!Idle(sample), "open", valid)
      BY <1>1, <2>1, SampleIdles
    <3> QED BY <1>1, <2>1, <2>6, <3>1 DEF SamplesInv
  <2>7. CASE \E c \in SCardContexts : /\ sample' = Samples!OnContextEstablished(sample, c)
                                      /\ valid' = valid \cup {c}
    BY <1>1, <2>1, <2>2, <2>7 DEF SamplesInv
  <2> QED BY <1>10, <2>4, <2>5, <2>6, <2>7
          DEF Samples!SampleAnswered, Samples!OnReaderStateChanged, Samples!OnPcscLiteError
<1> QED BY <1>4, <1>5, <1>6, <1>8, <1>9, <1>10 DEF Samples!Next

-----------------------------------------------------------------------------
\* Numbers in order.
Numbered(s, n) == \A i \in DOMAIN s : s[i] = n + i

LEMMA NumberedIs ==
  ASSUME NEW s \in Seq(Nat), NEW n \in Nat, Numbered(s, n)
  PROVE  /\ Len(s) \in Nat
         /\ s # <<>> => /\ Head(s) = n + 1 /\ Tail(s) \in Seq(Nat) /\ Numbered(Tail(s), n + 1)
                        /\ Len(Tail(s)) \in Nat /\ Len(s) = 1 + Len(Tail(s))
         /\ \A x \in Nat : x = n + Len(s) + 1 =>
              Append(s, x) \in Seq(Nat) /\ Len(Append(s, x)) = Len(s) + 1 /\ Numbered(Append(s, x), n)
         /\ \A t \in Seq(Nat) : Numbered(t, n + Len(s)) =>
              s \o t \in Seq(Nat) /\ Len(s \o t) = Len(s) + Len(t) /\ Numbered(s \o t, n)
<1>1. Len(s) \in Nat
  OBVIOUS
<1>2. ASSUME s # <<>>
      PROVE  /\ Head(s) = n + 1 /\ Tail(s) \in Seq(Nat) /\ Numbered(Tail(s), n + 1)
             /\ Len(Tail(s)) \in Nat /\ Len(s) = 1 + Len(Tail(s))
  <2>1. /\ Head(s) = s[1] /\ 1 \in DOMAIN s /\ Tail(s) \in Seq(Nat) /\ Len(Tail(s)) = Len(s) - 1
        /\ \A i \in DOMAIN Tail(s) : i + 1 \in DOMAIN s /\ Tail(s)[i] = s[i + 1]
    BY <1>2, TailIs
  <2>2. Head(s) = n + 1
    BY <2>1 DEF Numbered
  <2>3. Numbered(Tail(s), n + 1)
    <3> SUFFICES ASSUME NEW i \in DOMAIN Tail(s) PROVE Tail(s)[i] = (n + 1) + i
      BY DEF Numbered
    <3>1. Tail(s)[i] = n + (i + 1)
      BY <2>1 DEF Numbered
    <3>2. i \in Nat
      BY <2>1
    <3>3. n + (i + 1) = (n + 1) + i
      BY <3>2
    <3> QED BY <3>1, <3>3
  <2>4. Len(Tail(s)) \in Nat
    BY <2>1
  <2> QED BY <1>1, <2>1, <2>2, <2>3, <2>4
<1>3. ASSUME NEW x \in Nat, x = n + Len(s) + 1
      PROVE  Append(s, x) \in Seq(Nat) /\ Len(Append(s, x)) = Len(s) + 1 /\ Numbered(Append(s, x), n)
  <2>1. /\ Append(s, x) \in Seq(Nat) /\ Len(Append(s, x)) = Len(s) + 1
        /\ \A i \in DOMAIN Append(s, x) :
             (i \in DOMAIN s /\ Append(s, x)[i] = s[i]) \/ (i = Len(s) + 1 /\ Append(s, x)[i] = x)
    OBVIOUS
  <2>2. x = n + (Len(s) + 1)
    BY <1>1, <1>3
  <2> QED BY <2>1, <2>2 DEF Numbered
<1>4. ASSUME NEW t \in Seq(Nat), Numbered(t, n + Len(s))
      PROVE  s \o t \in Seq(Nat) /\ Len(s \o t) = Len(s) + Len(t) /\ Numbered(s \o t, n)
  <2>1. s \o t \in Seq(Nat) /\ Len(s \o t) = Len(s) + Len(t) /\ Len(t) \in Nat
    OBVIOUS
  <2>2. ASSUME NEW i \in DOMAIN (s \o t)
        PROVE  (s \o t)[i] = n + i
    <3>1. i \in Nat /\ i <= Len(s) + Len(t) /\ i >= 1
      BY <2>1
    <3>2. CASE i <= Len(s)
      <4>1. i \in DOMAIN s /\ (s \o t)[i] = s[i]
        BY <3>1, <3>2
      <4> QED BY <4>1 DEF Numbered
    <3>3. CASE i > Len(s)
      <4>1. i - Len(s) \in DOMAIN t /\ (s \o t)[i] = t[i - Len(s)]
        BY <2>1, <3>1, <3>3
      <4>2. t[i - Len(s)] = (n + Len(s)) + (i - Len(s))
        BY <1>4, <4>1 DEF Numbered
      <4>3. \A a, b, c \in Nat : (a + b) + (c - b) = a + c
        OBVIOUS
      <4> QED BY <1>1, <3>1, <4>1, <4>2, <4>3
    <3> QED BY <1>1, <3>1, <3>2, <3>3
  <2> QED BY <2>1, <2>2 DEF Numbered
<1> QED BY <1>1, <1>2, <1>3, <1>4

-----------------------------------------------------------------------------
\* The C++ sample's window.
\* What is on its way and what is shown are the latest lines, unless the module
\* is gone: then nothing comes any more.
WindowInv ==
  /\ cppModule \in {"loading", "running", "gone"} /\ service \in {"page", "window"}
  /\ output \in Seq(Nat)
  /\ main \in [open : BOOLEAN, text : Seq(Nat)]
  /\ tests \in [sent : Nat, taken : Nat]
  /\ service = IF main.open THEN "window" ELSE "page"
  /\ ~main.open => main.text = <<>>
  /\ cppModule = "loading" => tests.taken = 0
  /\ cppModule = "gone" => output = <<>>
  /\ \E n \in Nat : /\ Numbered(main.text, n) /\ Numbered(output, n + Len(main.text))
                    /\ cppModule # "gone" => n + Len(main.text) + Len(output) = 2 * tests.taken

LEMMA WindowStepKeeps ==
  ASSUME WindowInv, CppWindow!Next
  PROVE  WindowInv'
<1>1. PICK n \in Nat :
        /\ Numbered(main.text, n) /\ Numbered(output, n + Len(main.text))
        /\ cppModule # "gone" => n + Len(main.text) + Len(output) = 2 * tests.taken
  BY DEF WindowInv
<1> DEFINE text == main.text
           m == n + Len(text)
<1>2. /\ output \in Seq(Nat) /\ text \in Seq(Nat) /\ main \in [open : BOOLEAN, text : Seq(Nat)]
      /\ tests \in [sent : Nat, taken : Nat]
      /\ Len(text) \in Nat /\ m \in Nat /\ Len(output) \in Nat /\ tests.taken \in Nat
      /\ Len(<<>>) = 0 /\ <<>> \in Seq(Nat)
      /\ \A k \in Nat : Numbered(<<>>, k) /\ k + 0 = k
  BY DEF WindowInv, Numbered
\* The invariant, of what a step leaves.
<1>3. ASSUME NEW k \in Nat, NEW t \in Seq(Nat), NEW o \in Seq(Nat), NEW open \in BOOLEAN,
             main' = [open |-> open, text |-> t], output' = o,
             Numbered(t, k), Numbered(o, k + Len(t)),
             cppModule' # "gone" => k + Len(t) + Len(o) = 2 * tests'.taken,
             cppModule' \in {"loading", "running", "gone"},
             tests' \in [sent : Nat, taken : Nat],
             service' = IF open THEN "window" ELSE "page", ~open => t = <<>>,
             cppModule' = "loading" => tests'.taken = 0,
             cppModule' = "gone" => o = <<>>
      PROVE  WindowInv'
  BY <1>3 DEF WindowInv
<1>4. main = [open |-> main.open, text |-> text] /\ main.open \in BOOLEAN
  BY <1>2
<1>5. CASE CppWindow!Launch
  <2>1. /\ ~main.open /\ main' = [open |-> TRUE, text |-> <<>>] /\ service' = "window"
        /\ UNCHANGED <<cppModule, tests, output>>
    BY <1>5 DEF CppWindow!Launch, CppWindow!ClosedMain
  <2>2. text = <<>>
    BY <2>1 DEF WindowInv
  <2> QED BY <1>1, <1>2, <1>3, <2>1, <2>2 DEF WindowInv
<1>6. CASE CppWindow!RunTestClicked
  <2>1. /\ tests' \in [sent : Nat, taken : {tests.taken}] /\ UNCHANGED <<cppModule, service, output, main>>
    BY <1>2, <1>6 DEF CppWindow!RunTestClicked
  <2> QED BY <1>1, <1>2, <2>1 DEF WindowInv
<1>7. CASE CppWindow!ModuleLoads
  BY <1>1, <1>7 DEF WindowInv, CppWindow!ModuleLoads
<1>8. CASE CppWindow!ModuleTests
  <2> DEFINE k == tests.taken
             lines == <<2 * k + 1, 2 * k + 2>>
  <2>1. /\ cppModule = "running" /\ tests' = [tests EXCEPT !.taken = k + 1]
        /\ output' = output \o lines /\ UNCHANGED <<cppModule, service, main>>
    BY <1>8 DEF CppWindow!ModuleTests
  <2>2. k \in Nat /\ m + Len(output) = 2 * k
    BY <1>1, <1>2, <2>1
  <2>3. lines \in Seq(Nat) /\ Numbered(lines, 2 * k) /\ Len(lines) = 2
    BY <2>2 DEF Numbered
  <2> HIDE DEF lines, m
  <2>4. /\ output \o lines \in Seq(Nat) /\ Len(output \o lines) = Len(output) + Len(lines)
        /\ Numbered(output \o lines, m)
    BY <1>1, <1>2, <2>2, <2>3, NumberedIs DEF m
  <2>5. m + Len(output \o lines) = 2 * (k + 1)
    <3>1. \A a, b, c \in Nat : a + b = 2 * c => a + (b + 2) = 2 * (c + 1)
      OBVIOUS
    <3> HIDE DEF k
    <3> DEFINE b == Len(output)
    <3>2. b \in Nat /\ k \in Nat /\ m \in Nat /\ m + b = 2 * k
      BY <1>2, <2>2
    <3>3. Len(output \o lines) = b + 2
      BY <2>3, <2>4
    <3> HIDE DEF b
    <3>4. m + (b + 2) = 2 * (k + 1)
      BY <3>1, <3>2
    <3> QED BY <3>3, <3>4
  <2>6. tests'.taken = k + 1 /\ tests' \in [sent : Nat, taken : Nat]
    <3>1. k + 1 \in Nat
      BY <2>2
    <3> HIDE DEF k
    <3> QED BY <1>2, <2>1, <3>1
  <2> QED BY <1>1, <1>2, <2>1, <2>4, <2>5, <2>6 DEF WindowInv, m
<1>9. CASE CppWindow!UiHears
  <2>1. /\ output # <<>> /\ output' = Tail(output) /\ UNCHANGED <<cppModule, service, tests>>
        /\ main' = IF service = "window" THEN [main EXCEPT !.text = Append(text, Head(output))] ELSE main
    BY <1>9 DEF CppWindow!UiHears, CppWindow!DisplayOutputMessage
  <2> HIDE DEF m
  <2>2. /\ Head(output) = m + 1 /\ Tail(output) \in Seq(Nat) /\ Numbered(Tail(output), m + 1)
        /\ Len(Tail(output)) \in Nat /\ Len(output) = 1 + Len(Tail(output))
    BY <1>1, <1>2, <2>1, NumberedIs DEF m
  <2>3. m + Len(output) = (m + 1) + Len(Tail(output))
    BY <1>2, <2>2
  <2>4. /\ cppModule \in {"loading", "running"} /\ (cppModule = "loading" => tests.taken = 0)
        /\ service = IF main.open THEN "window" ELSE "page"
    BY <2>1 DEF WindowInv
  <2>5. (m + 1) + Len(Tail(output)) = 2 * tests.taken
    BY <1>1, <2>3, <2>4 DEF m
  <2>6. CASE main.open
    <3> DEFINE t == Append(text, m + 1)
    <3>1. main' = [open |-> TRUE, text |-> t]
      BY <1>2, <2>1, <2>2, <2>4, <2>6
    <3>2. t \in Seq(Nat) /\ Len(t) = Len(text) + 1 /\ Numbered(t, n)
      <4>1. m + 1 \in Nat /\ m + 1 = n + Len(text) + 1
        BY <1>2 DEF m
      <4> QED BY <1>1, <1>2, <4>1, NumberedIs
    <3>3. n + Len(t) = m + 1
      BY <1>2, <3>2 DEF m
    <3> HIDE DEF t
    <3> QED BY <1>2, <1>3, <2>1, <2>2, <2>4, <2>5, <2>6, <3>1, <3>2, <3>3
  <2>7. CASE ~main.open
    <3>1. main' = [open |-> FALSE, text |-> <<>>] /\ text = <<>>
      BY <1>4, <2>1, <2>4, <2>7 DEF WindowInv
    <3>2. (m + 1) + 0 = m + 1 /\ m + 1 \in Nat
      BY <1>2
    <3>3. /\ Numbered(<<>>, m + 1) /\ Numbered(Tail(output), (m + 1) + Len(<<>>))
          /\ (m + 1) + Len(<<>>) + Len(Tail(output)) = 2 * tests.taken
      BY <1>2, <2>2, <2>5, <3>2
    <3> QED BY <1>2, <2>1, <2>2, <2>4, <2>7, <3>1, <3>2, <3>3 DEF WindowInv
  <2> QED BY <1>4, <2>6, <2>7
<1>10. CASE CppWindow!CloseClicked
  <2>1. /\ main' = [open |-> FALSE, text |-> <<>>] /\ service' = "page"
        /\ UNCHANGED <<cppModule, tests, output>>
    BY <1>10 DEF CppWindow!CloseClicked, CppWindow!ClosedMain, CppWindow!RegisterIgnoring
  <2>2. m + 0 = m /\ Numbered(output, m + 0)
    BY <1>1, <1>2
  <2> QED BY <1>1, <1>2, <1>3, <2>1, <2>2 DEF WindowInv
<1>11. CASE CppWindow!ModuleDisposed
  <2>1. output' = <<>> /\
        \/ cppModule' = "gone" /\ UNCHANGED <<service, tests, main>>
        \/ /\ cppModule' = "loading" /\ service' = "page"
           /\ tests' = [sent |-> 0, taken |-> 0] /\ main' = [open |-> FALSE, text |-> <<>>]
    BY <1>11 DEF CppWindow!ModuleDisposed, CppWindow!ClosedMain
  <2>2. CASE cppModule' = "gone" /\ UNCHANGED <<service, tests, main>>
    BY <1>1, <1>2, <2>1, <2>2 DEF WindowInv
  <2>3. CASE /\ cppModule' = "loading" /\ service' = "page"
             /\ tests' = [sent |-> 0, taken |-> 0] /\ main' = [open |-> FALSE, text |-> <<>>]
    <3>1. tests' \in [sent : Nat, taken : Nat] /\ tests'.taken = 0 /\ 0 + 0 = 0 /\ 2 * 0 = 0 /\ 0 \in Nat
      BY <2>3
    <3>2. /\ Numbered(<<>>, 0) /\ Numbered(<<>>, 0 + Len(<<>>)) /\ 0 + Len(<<>>) + Len(<<>>) = 2 * 0
      BY <1>2, <3>1
    <3> QED BY <1>2, <2>1, <2>3, <3>1, <3>2 DEF WindowInv
  <2> QED BY <2>1, <2>2, <2>3
<1> QED BY <1>5, <1>6, <1>7, <1>8, <1>9, <1>10, <1>11 DEF CppWindow!Next

\* Nothing is opened in the server that nobody can close, however the requests of
\* the browser's events interleave, fail and are converted (chrome-api-provider.js);
\* no sample client calls what is gone, or with a context of an earlier connection,
\* and what the C++ sample's window shows has no gaps (the example clients).
THEOREM HandlesAreKept == Spec => []NoHandleLost
<1> DEFINE Inv == ProviderInv /\ SamplesInv /\ WindowInv
<1>1. Provider!NothingAssumption
  BY ComponentsAssumption
<1>2. Init => Inv
  <2> SUFFICES ASSUME Init PROVE Inv
    OBVIOUS
  <2>1. ProviderInv
    <3>1. request = [r \in Requests |-> Provider!Unsent] /\ opened = {}
      BY DEF Init, Provider!Init
    <3>2. /\ IsRequest(Provider!Unsent) /\ Provider!Unsent.stage = "unsent"
          /\ Provider!Unsent.outcome = Provider!NoOutcome
      BY DEF Provider!Unsent, IsRequest
    <3>3. Provider!NoHandleLost
      BY <3>1 DEF Provider!NoHandleLost
    <3>4. \A r \in Requests : request[r] = Provider!Unsent
      BY <3>1
    <3>5. request = [r \in Requests |-> request[r]]
      BY <3>1
    <3> QED BY <3>2, <3>3, <3>4, <3>5 DEF ProviderInv
  <2>2. SamplesInv
    <3>1. /\ link = [c \in Samples!Clients |-> "opening"] /\ sample = Samples!Initialize
          /\ app = Samples!InitializeContext
      BY DEF Init, Samples!Init
    <3>2. link["sample"] = "opening" /\ link["app"] = "opening"
      BY <3>1 DEF Samples!Clients
    <3>3. SampleRight(Samples!Initialize, "opening", valid)
      BY DEF SampleRight, Samples!Initialize, Samples!NoCall, CallNames
    <3>4. AppRight(Samples!InitializeContext, "opening")
      BY DEF AppRight, Samples!InitializeContext
    <3> QED BY <3>1, <3>2, <3>3, <3>4 DEF SamplesInv
  <2>3. WindowInv
    <3>1. /\ cppModule = "loading" /\ service = "page" /\ tests = [sent |-> 0, taken |-> 0]
          /\ output = <<>> /\ main = [open |-> FALSE, text |-> <<>>]
      BY DEF Init, CppWindow!Init, CppWindow!ClosedMain
    <3>2. /\ <<>> \in Seq(Nat) /\ Numbered(<<>>, 0) /\ Numbered(<<>>, 0 + Len(<<>>))
          /\ 0 + Len(<<>>) + Len(<<>>) = 2 * 0 /\ 0 \in Nat
      BY DEF Numbered
    <3> QED BY <3>1, <3>2 DEF WindowInv
  <2> QED BY <2>1, <2>2, <2>3
<1>3. Inv /\ [Next]_vars => Inv'
  <2> SUFFICES ASSUME Inv, [Next]_vars PROVE Inv'
    OBVIOUS
  <2>1. UNCHANGED providerVars \/ Provider!Next
    BY DEF Next, vars
  <2>2. UNCHANGED samplesVars \/ Samples!Next
    BY DEF Next, vars
  <2>3. UNCHANGED cppVars \/ CppWindow!Next
    BY DEF Next, vars
  <2>4. ProviderInv'
    <3>1. CASE UNCHANGED providerVars
      BY <3>1 DEF providerVars, ProviderInv, Provider!NoHandleLost, Provider!Given, Provider!Stage
    <3> QED BY <1>1, <2>1, <3>1, ProviderStepKeeps
  <2>5. SamplesInv'
    <3>1. CASE UNCHANGED samplesVars
      BY <3>1 DEF samplesVars, SamplesInv
    <3> QED BY <2>2, <3>1, SamplesStepKeeps
  <2>6. WindowInv'
    <3>1. CASE UNCHANGED cppVars
      BY <3>1 DEF cppVars, WindowInv
    <3> QED BY <2>3, <3>1, WindowStepKeeps
  <2> QED BY <2>4, <2>5, <2>6
<1>4. Inv => NoHandleLost
  <2> SUFFICES ASSUME Inv PROVE NoHandleLost
    OBVIOUS
  <2>1. Samples!SamplesConnected
    BY DEF SamplesInv, SampleRight, AppRight, Samples!SamplesConnected
  <2>2. CppWindow!OutputShown
    <3> DEFINE lines == main.text \o output
    <3> SUFFICES ASSUME main.open
                 PROVE  /\ \A i \in 1 .. Len(lines) - 1 : lines[i + 1] = lines[i] + 1
                        /\ cppModule = "running" /\ lines # <<>> => lines[Len(lines)] = 2 * tests.taken
                        /\ service = "window"
      BY DEF CppWindow!OutputShown
    <3>1. PICK n \in Nat :
            /\ Numbered(main.text, n) /\ Numbered(output, n + Len(main.text))
            /\ cppModule # "gone" => n + Len(main.text) + Len(output) = 2 * tests.taken
      BY DEF WindowInv
    <3>2. main.text \in Seq(Nat) /\ output \in Seq(Nat)
      BY DEF WindowInv
    <3>3. lines \in Seq(Nat) /\ Len(lines) = Len(main.text) + Len(output) /\ Numbered(lines, n)
      BY <3>1, <3>2, NumberedIs
    <3>4. n + Len(main.text) + Len(output) = n + Len(lines)
      <4>1. Len(main.text) \in Nat /\ Len(output) \in Nat
        BY <3>2
      <4>2. \A a, b, c \in Nat : a + b + c = a + (b + c)
        OBVIOUS
      <4> QED BY <3>3, <4>1, <4>2
    <3> HIDE DEF lines
    <3>5. lines # <<>> => Len(lines) \in DOMAIN lines
      BY <3>3
    <3>6. \A i \in 1 .. Len(lines) - 1 : lines[i + 1] = lines[i] + 1
      <4> TAKE i \in 1 .. Len(lines) - 1
      <4>1. i \in DOMAIN lines /\ i + 1 \in DOMAIN lines /\ i \in Nat
        BY <3>3
      <4>2. lines[i] = n + i /\ lines[i + 1] = n + (i + 1)
        BY <3>3, <4>1 DEF Numbered
      <4>3. n + (i + 1) = (n + i) + 1
        BY <4>1
      <4> QED BY <4>2, <4>3
    <3>7. cppModule = "running" /\ lines # <<>> => lines[Len(lines)] = 2 * tests.taken
      BY <3>1, <3>3, <3>4, <3>5 DEF Numbered
    <3>8. service = "window"
      BY DEF WindowInv
    <3> QED BY <3>6, <3>7, <3>8
  <2> QED BY <2>1, <2>2 DEF NoHandleLost, ProviderInv
<1> QED BY <1>2, <1>3, <1>4, PTL DEF Spec

-----------------------------------------------------------------------------
\* The channel pair within one page.
\* The callbacks q that are to deliver what item i has sent after its first d
\* messages, up to its last one: each once, and in order.
Coming(q, i, d, last) ==
  /\ d \in Nat /\ last \in Nat /\ d <= last
  /\ \A n \in DOMAIN q : q[n].from = i => d < q[n].message /\ q[n].message <= last
  /\ \A k \in Nat : d < k /\ k <= last => \E n \in DOMAIN q : q[n].from = i /\ q[n].message = k
  /\ \A n, m \in DOMAIN q :
       n < m /\ q[n].from = i /\ q[m].from = i => q[n].message < q[m].message

Ticks == [from : {0, 1}, message : Nat]

PairInv ==
  /\ itemSent \in [{0, 1} -> Nat] /\ delivered \in [{0, 1} -> Seq(Nat)]
  /\ ticks \in Seq(Ticks)
  /\ \/ pair = [items |-> <<0, 1>>, disposed |-> FALSE] /\ items = {}
     \/ pair = [items |-> <<>>, disposed |-> TRUE] /\ items = {0, 1}
  /\ \A i \in {0, 1} : Numbered(delivered[i], 0)
  /\ items = {} => \A i \in {0, 1} : Coming(ticks, i, Len(delivered[1 - i]), itemSent[i])

LEMMA ComingAppend ==
  ASSUME NEW q \in Seq(Ticks), NEW i \in {0, 1}, NEW d, NEW last, Coming(q, i, d, last),
         NEW t \in Ticks
  PROVE  /\ t.from = i /\ t.message = last + 1 => Coming(Append(q, t), i, d, last + 1)
         /\ t.from # i => Coming(Append(q, t), i, d, last)
<1> DEFINE p == Append(q, t)
<1>1. /\ \A n \in DOMAIN q : n \in DOMAIN p /\ p[n] = q[n]
      /\ Len(q) + 1 \in DOMAIN p /\ p[Len(q) + 1] = t
      /\ \A n \in DOMAIN p : n \in DOMAIN q \/ n = Len(q) + 1
      /\ \A n \in DOMAIN q : n \in Nat /\ n < Len(q) + 1
      /\ Len(q) + 1 \in Nat
  OBVIOUS
<1> HIDE DEF p
<1>2. ASSUME t.from # i PROVE Coming(p, i, d, last)
  BY <1>1, <1>2 DEF Coming
<1>3. ASSUME t.from = i, t.message = last + 1 PROVE Coming(p, i, d, last + 1)
  <2>1. d \in Nat /\ last \in Nat /\ d <= last /\ last + 1 \in Nat /\ d <= last + 1 /\ d < last + 1
    BY DEF Coming
  <2>2. \A n \in DOMAIN q : q[n] \in Ticks
    OBVIOUS
  <2>3. \A n \in DOMAIN p : p[n].from = i => d < p[n].message /\ p[n].message <= last + 1
    BY <1>1, <1>3, <2>1, <2>2 DEF Coming, Ticks
  <2>4. \A k \in Nat : d < k /\ k <= last + 1 => \E n \in DOMAIN p : p[n].from = i /\ p[n].message = k
    <3> TAKE k \in Nat
    <3>1. k <= last + 1 => k <= last \/ k = last + 1
      BY <2>1
    <3> QED BY <1>1, <1>3, <3>1 DEF Coming
  <2>5. \A n, m \in DOMAIN p :
          n < m /\ p[n].from = i /\ p[m].from = i => p[n].message < p[m].message
    <3> TAKE n, m \in DOMAIN p
    <3> SUFFICES ASSUME n < m, p[n].from = i, p[m].from = i PROVE p[n].message < p[m].message
      OBVIOUS
    <3>1. n \in DOMAIN q
      BY <1>1
    <3>2. CASE m \in DOMAIN q
      BY <1>1, <3>1, <3>2 DEF Coming
    <3>3. CASE m = Len(q) + 1
      <4>1. q[n].message \in Nat /\ q[n].message <= last
        BY <1>1, <2>2, <3>1 DEF Coming, Ticks
      <4> QED BY <1>1, <1>3, <2>1, <3>1, <3>3, <4>1
    <3> QED BY <1>1, <3>2, <3>3
  <2> QED BY <2>1, <2>3, <2>4, <2>5 DEF Coming
<1> QED BY <1>2, <1>3 DEF p

LEMMA ComingTail ==
  ASSUME NEW q \in Seq(Ticks), q # <<>>, NEW i \in {0, 1}, NEW d, NEW last, Coming(q, i, d, last)
  PROVE  /\ Head(q) \in Ticks /\ Tail(q) \in Seq(Ticks)
         /\ Head(q).from = i => Head(q).message = d + 1 /\ Coming(Tail(q), i, d + 1, last)
         /\ Head(q).from # i => Coming(Tail(q), i, d, last)
<1> DEFINE p == Tail(q)
           t == Head(q)
<1>1. /\ t \in Ticks /\ q[1] = t /\ 1 \in DOMAIN q /\ p \in Seq(Ticks)
      /\ \A n \in DOMAIN p : n + 1 \in DOMAIN q /\ p[n] = q[n + 1]
  BY TailIs
<1>2. \A n \in DOMAIN q : n = 1 \/ (n - 1 \in DOMAIN p /\ p[n - 1] = q[n])
  BY TailIs
<1>3. /\ \A n \in DOMAIN p : n \in Nat /\ 1 < n + 1
      /\ \A n, m \in DOMAIN p : n < m => n + 1 < m + 1
      /\ \A n \in DOMAIN q : n \in Nat /\ (n # 1 => 1 < n)
  BY <1>1
<1> HIDE DEF p, t
<1>4. \A n, m \in DOMAIN p :
        n < m /\ p[n].from = i /\ p[m].from = i => p[n].message < p[m].message
  <2> TAKE n, m \in DOMAIN p
  <2>1. n + 1 \in DOMAIN q /\ m + 1 \in DOMAIN q /\ p[n] = q[n + 1] /\ p[m] = q[m + 1]
    BY <1>1
  <2>2. n < m => n + 1 < m + 1
    BY <1>3
  <2>3. n + 1 < m + 1 /\ q[n + 1].from = i /\ q[m + 1].from = i
        => q[n + 1].message < q[m + 1].message
    BY <2>1 DEF Coming
  <2> QED BY <2>1, <2>2, <2>3
<1>5. ASSUME t.from # i PROVE Coming(p, i, d, last)
  <2>1. \A k \in Nat : d < k /\ k <= last => \E n \in DOMAIN p : p[n].from = i /\ p[n].message = k
    <3> TAKE k \in Nat
    <3> SUFFICES ASSUME d < k, k <= last PROVE \E n \in DOMAIN p : p[n].from = i /\ p[n].message = k
      OBVIOUS
    <3>1. PICK n \in DOMAIN q : q[n].from = i /\ q[n].message = k
      BY DEF Coming
    <3>2. n # 1
      BY <1>1, <1>5, <3>1
    <3> QED BY <1>2, <3>1, <3>2
  <2>2. \A n \in DOMAIN p : p[n].from = i => d < p[n].message /\ p[n].message <= last
    <3> TAKE n \in DOMAIN p
    <3>1. n + 1 \in DOMAIN q /\ p[n] = q[n + 1]
      BY <1>1
    <3> QED BY <3>1 DEF Coming
  <2> QED BY <1>4, <2>1, <2>2 DEF Coming
<1>6. ASSUME t.from = i PROVE t.message = d + 1 /\ Coming(p, i, d + 1, last)
  <2>1. /\ d \in Nat /\ last \in Nat /\ d < t.message /\ t.message <= last /\ t.message \in Nat
    BY <1>1, <1>6 DEF Coming, Ticks
  <2>2. d + 1 \in Nat /\ d + 1 <= t.message /\ d + 1 <= last /\ d < d + 1
    BY <2>1
  <2>3. PICK n \in DOMAIN q : q[n].from = i /\ q[n].message = d + 1
    BY <2>2 DEF Coming
  <2>4. t.message = d + 1
    <3>1. CASE n = 1
      BY <1>1, <2>3, <3>1
    <3>2. CASE n # 1
      <4>1. q[1].message < q[n].message
        BY <1>1, <1>3, <1>6, <2>3, <3>2 DEF Coming
      <4> QED BY <1>1, <2>1, <2>2, <2>3, <4>1
    <3> QED BY <3>1, <3>2
  <2>5. \A m \in DOMAIN p : p[m].from = i => d + 1 < p[m].message /\ p[m].message <= last
    <3> TAKE m \in DOMAIN p
    <3> SUFFICES ASSUME p[m].from = i PROVE d + 1 < p[m].message /\ p[m].message <= last
      OBVIOUS
    <3>1. q[1].message < q[m + 1].message /\ q[m + 1].message <= last
      BY <1>1, <1>3, <1>6 DEF Coming
    <3> QED BY <1>1, <2>4, <3>1
  <2>6. \A k \in Nat : d + 1 < k /\ k <= last => \E m \in DOMAIN p : p[m].from = i /\ p[m].message = k
    <3> TAKE k \in Nat
    <3> SUFFICES ASSUME d + 1 < k, k <= last PROVE \E m \in DOMAIN p : p[m].from = i /\ p[m].message = k
      OBVIOUS
    <3>1. d < k /\ k # d + 1
      BY <2>1
    <3>2. PICK m \in DOMAIN q : q[m].from = i /\ q[m].message = k
      BY <3>1 DEF Coming
    <3>3. m # 1
      BY <1>1, <2>4, <3>1, <3>2
    <3> QED BY <1>2, <3>2, <3>3
  <2> QED BY <1>4, <2>1, <2>2, <2>4, <2>5, <2>6 DEF Coming
<1> QED BY <1>1, <1>5, <1>6 DEF p, t

LEMMA PairDisposed ==
  ASSUME PairInv, UNCHANGED <<itemSent, delivered>>, ticks' \in Seq(Ticks), Pair!DisposePair
  PROVE  PairInv'
<1>1. pair' = [items |-> <<>>, disposed |-> TRUE]
      /\ items' = items \cup {pair.items[n] : n \in DOMAIN pair.items}
  BY DEF Pair!DisposePair
<1>2. items' = {0, 1}
  <2>1. CASE pair = [items |-> <<0, 1>>, disposed |-> FALSE] /\ items = {}
    <3>1. /\ pair.items = <<0, 1>> /\ DOMAIN <<0, 1>> = {1, 2}
          /\ <<0, 1>>[1] = 0 /\ <<0, 1>>[2] = 1
      BY <2>1
    <3> QED BY <1>1, <2>1, <3>1
  <2>2. CASE pair = [items |-> <<>>, disposed |-> TRUE] /\ items = {0, 1}
    <3>1. pair.items = <<>> /\ DOMAIN <<>> = {}
      BY <2>2
    <3> QED BY <1>1, <2>2, <3>1
  <2> QED BY <2>1, <2>2 DEF PairInv
<1>3. {0, 1} # {}
  OBVIOUS
<1> QED BY <1>1, <1>2, <1>3 DEF PairInv

LEMMA PairStepKeeps ==
  ASSUME PairInv, Pair!Next
  PROVE  PairInv'
<1>1. /\ itemSent \in [{0, 1} -> Nat] /\ delivered \in [{0, 1} -> Seq(Nat)]
      /\ ticks \in Seq(Ticks) /\ \A i \in {0, 1} : Numbered(delivered[i], 0) /\ 1 - i \in {0, 1}
  BY DEF PairInv
<1>2. ASSUME NEW i \in {0, 1}, Pair!Send(i) PROVE PairInv'
  <2> DEFINE t == [from |-> i, message |-> itemSent[i] + 1]
  <2>1. /\ ticks' = Append(ticks, t) /\ itemSent' = [itemSent EXCEPT ![i] = itemSent[i] + 1]
        /\ UNCHANGED <<pair, items, delivered>>
    BY <1>2 DEF Pair!Send, Pair!SendFrom
  <2>2. t \in Ticks /\ t.from = i /\ t.message = itemSent[i] + 1 /\ itemSent[i] + 1 \in Nat
    BY <1>1 DEF Ticks
  <2> HIDE DEF t
  <2>3. /\ ticks' \in Seq(Ticks) /\ itemSent' \in [{0, 1} -> Nat] /\ itemSent'[i] = itemSent[i] + 1
        /\ \A j \in {0, 1} : j # i => itemSent'[j] = itemSent[j]
    BY <1>1, <2>1, <2>2
  <2>4. ASSUME items = {}, NEW j \in {0, 1}
        PROVE  Coming(ticks', j, Len(delivered'[1 - j]), itemSent'[j])
    <3>1. Coming(ticks, j, Len(delivered[1 - j]), itemSent[j])
      BY <2>4 DEF PairInv
    <3> QED BY <1>1, <2>1, <2>2, <2>3, <3>1, ComingAppend
  <2> QED BY <1>1, <2>1, <2>3, <2>4 DEF PairInv
<1>3. ASSUME NEW i \in {0, 1}, Pair!Dispose(i) PROVE PairInv'
  BY <1>1, <1>3, PairDisposed DEF Pair!Dispose, Pair!DisposeItem
<1>4. ASSUME NEW disposes \in BOOLEAN, Pair!NextTick(disposes) PROVE PairInv'
  <2>1. ticks # <<>> /\ ticks' = Tail(ticks) /\ UNCHANGED itemSent
    BY <1>4 DEF Pair!NextTick
  <2>2. /\ Tail(ticks) \in Seq(Ticks) /\ Head(ticks) \in Ticks
        /\ \A x \in Ticks : x.from \in {0, 1} /\ x.message \in Nat
    BY <1>1, <2>1, TailIs DEF Ticks
  <2>3. CASE pair.disposed
    <3>1. UNCHANGED <<pair, items, delivered>> /\ items = {0, 1} /\ {0, 1} # {}
      BY <1>4, <2>3 DEF Pair!NextTick, PairInv
    <3> QED BY <1>1, <2>1, <2>2, <3>1 DEF PairInv
  <2>4. CASE ~pair.disposed
    <3> DEFINE from == Head(ticks).from
               target == pair.items[(1 - from) + 1]
               m == Head(ticks).message
    <3>1. pair = [items |-> <<0, 1>>, disposed |-> FALSE] /\ items = {}
      BY <2>4 DEF PairInv
    <3>2. /\ delivered' = [delivered EXCEPT ![target] = Append(delivered[target], m)]
          /\ IF disposes THEN Pair!DisposePair ELSE UNCHANGED <<pair, items>>
      BY <1>4, <2>4 DEF Pair!NextTick, Pair!Deliver, Pair!Other, Pair!DisposeItem
    <3>3. from \in {0, 1} /\ target = 1 - from /\ 1 - from \in {0, 1} /\ 1 - (1 - from) = from /\ m \in Nat
      <4>1. from \in {0, 1} /\ m \in Nat
        BY <2>2
      <4>2. pair.items = <<0, 1>> /\ <<0, 1>>[2] = 1 /\ <<0, 1>>[1] = 0
        BY <3>1
      <4> HIDE DEF from
      <4>3. CASE from = 0
        BY <4>1, <4>2, <4>3
      <4>4. CASE from = 1
        BY <4>1, <4>2, <4>4
      <4> QED BY <4>1, <4>3, <4>4
    <3> HIDE DEF target
    <3>4. \A i \in {0, 1} : Coming(ticks, i, Len(delivered[1 - i]), itemSent[i])
      BY <3>1 DEF PairInv
    <3>5. m = Len(delivered[target]) + 1
      BY <1>1, <2>1, <3>3, <3>4, ComingTail
    <3>6. /\ Append(delivered[target], m) \in Seq(Nat)
          /\ Len(Append(delivered[target], m)) = Len(delivered[target]) + 1
          /\ Numbered(Append(delivered[target], m), 0)
      <4>1. delivered[target] \in Seq(Nat) /\ Numbered(delivered[target], 0) /\ Len(delivered[target]) \in Nat
        BY <1>1, <3>3
      <4>2. m = 0 + Len(delivered[target]) + 1 /\ 0 \in Nat
        BY <3>5, <4>1
      <4> QED BY <3>3, <4>1, <4>2, NumberedIs
    <3>7. /\ delivered' \in [{0, 1} -> Seq(Nat)] /\ Len(delivered'[target]) = Len(delivered[target]) + 1
          /\ \A i \in {0, 1} : Numbered(delivered'[i], 0)
          /\ \A i \in {0, 1} : i # target => delivered'[i] = delivered[i]
      BY <1>1, <3>2, <3>3, <3>6
    <3>8. ASSUME NEW i \in {0, 1}
          PROVE  Coming(Tail(ticks), i, Len(delivered'[1 - i]), itemSent[i])
      <4>1. CASE i = from
        <5>1. 1 - i = target /\ Len(delivered'[1 - i]) = Len(delivered[1 - i]) + 1
          BY <3>3, <3>7, <4>1
        <5>2. Coming(ticks, i, Len(delivered[1 - i]), itemSent[i]) /\ Head(ticks).from = i
          BY <3>4, <4>1 DEF from
        <5>3. Coming(Tail(ticks), i, Len(delivered[1 - i]) + 1, itemSent[i])
          BY <1>1, <2>1, <5>2, ComingTail
        <5> QED BY <5>1, <5>3
      <4>2. CASE i # from
        <5>1. 1 - i # target /\ 1 - i \in {0, 1}
          BY <3>3, <4>2
        <5>2. Len(delivered'[1 - i]) = Len(delivered[1 - i])
          BY <3>7, <5>1
        <5> QED BY <1>1, <2>1, <3>4, <4>2, <5>2, ComingTail
      <4> QED BY <4>1, <4>2
    <3>9. CASE disposes
      <4>1. pair' = [items |-> <<>>, disposed |-> TRUE] /\ items' = {0, 1} /\ {0, 1} # {}
        <5>1. pair' = [items |-> <<>>, disposed |-> TRUE]
              /\ items' = items \cup {pair.items[n] : n \in DOMAIN pair.items}
          BY <3>2, <3>9 DEF Pair!DisposePair
        <5>2. /\ pair.items = <<0, 1>> /\ DOMAIN <<0, 1>> = {1, 2}
              /\ <<0, 1>>[1] = 0 /\ <<0, 1>>[2] = 1
          BY <3>1
        <5> QED BY <3>1, <5>1, <5>2
      <4> QED BY <1>1, <2>1, <2>2, <3>7, <4>1 DEF PairInv
    <3>10. CASE ~disposes
      BY <1>1, <2>1, <2>2, <3>2, <3>7, <3>8, <3>10 DEF PairInv
    <3> QED BY <3>9, <3>10
  <2> QED BY <2>3, <2>4
<1> QED BY <1>2, <1>3, <1>4 DEF Pair!Next, Pair!Items

-----------------------------------------------------------------------------
\* The executable module's channel.
\* The messages that wait in a delayed channel and those it has passed on are
\* consecutive, after the first a, up to the n-th.
ChannelRight(c) ==
  /\ c \in [disposed : BOOLEAN, linked : BOOLEAN, ready : BOOLEAN,
            pending : Seq(Nat), passed : Seq(Nat)]
  /\ c.ready => c.pending = <<>>
  /\ ~c.ready => c.passed = <<>>

ChannelNumbers(c, a, n) ==
  /\ Numbered(c.passed, a)
  /\ Numbered(c.pending, a + Len(c.passed))
  /\ n = a + Len(c.passed) + Len(c.pending)

Outers(c) ==
  [at : {"idle", "createDocument", "status", "loaded", "over"},
   load : {"pending", "resolved", "rejected"}, disposed : BOOLEAN,
   active : BOOLEAN, status : {"none", "here", "taken", "disposed"},
   messages : {"none", "here", "disposed"}, channel : {c}, failed : BOOLEAN]

\* Until the messages' port is connected, nothing has been passed on to it.
OuterRight(o) ==
  /\ o \in Outers(o.channel)
  /\ ChannelRight(o.channel)
  /\ o.disposed = o.channel.disposed
  /\ o.channel.linked => o.messages # "none" /\ ~o.channel.disposed
  /\ o.channel.ready => o.messages # "none"
  /\ o.channel.ready /\ ~o.channel.disposed => o.channel.linked
  /\ o.messages = "here" /\ o.channel.disposed => o.channel.passed = <<>>
  /\ o.status # "none" => o.messages # "none"
  /\ o.at = "loaded" => o.status # "none"

Inners(c) ==
  [at : {"idle", "loading", "over"}, disposed : BOOLEAN,
   binary : {"none", "running", "gone"}, channel : {c}]

InnerRight(i) ==
  /\ i \in Inners(i.channel)
  /\ ChannelRight(i.channel)
  /\ i.disposed = i.channel.disposed
  /\ i.disposed => i.at = "over" /\ i.binary = "gone"

\* The events of the document's ports; the messages' one connects first.
Events == {"messages", "status", "loaded", "disposed", "answer", "gone"}
MessagesFirst(q) ==
  \A n \in DOMAIN q : q[n] = "status" => \E k \in DOMAIN q : k < n /\ q[k] = "messages"

\* The document still hands messages to the binary, and the page to the document.
Alive == document # "closed" /\ ~inner.disposed
Posting(o) == o.messages # "disposed" /\ ~o.channel.disposed

\* c is what the document has had of the page's messages.
Flow(c) ==
  /\ ChannelNumbers(inner.channel, Len(received), c)
  /\ Numbered(toDocument, c)
  /\ Posting(outer) => ChannelNumbers(outer.channel, c + Len(toDocument), sent)

LoadingInv ==
  /\ OuterRight(outer) /\ InnerRight(inner)
  /\ document \in {"none", "opening", "open", "closed"}
  /\ toPage \in Seq(Events) /\ toDocument \in Seq(Nat)
  /\ sent \in Nat /\ received \in Seq(Nat)
  /\ outer.messages = "none" => MessagesFirst(toPage)
  /\ outer.at = "idle" => document = "none" /\ toPage = <<>> /\ ~outer.active
  /\ document \in {"none", "opening"} => ~inner.disposed
  /\ Numbered(received, 0)
  /\ Alive => \E c \in Nat : Flow(c)

LEMMA ChannelFields ==
  ASSUME NEW c, ChannelRight(c)
  PROVE  /\ c.disposed \in BOOLEAN /\ c.linked \in BOOLEAN /\ c.ready \in BOOLEAN
         /\ c.pending \in Seq(Nat) /\ c.passed \in Seq(Nat)
         /\ Len(c.pending) \in Nat /\ Len(c.passed) \in Nat
BY DEF ChannelRight

LEMMA ChannelStarts ==
  /\ ChannelRight(Loading!NewDelayed) /\ ChannelNumbers(Loading!NewDelayed, 0, 0)
  /\ ~Loading!NewDelayed.disposed /\ ~Loading!NewDelayed.linked /\ ~Loading!NewDelayed.ready
  /\ Loading!NewDelayed.passed = <<>>
<1> DEFINE c == Loading!NewDelayed
<1>1. /\ c \in [disposed : BOOLEAN, linked : BOOLEAN, ready : BOOLEAN,
                pending : Seq(Nat), passed : Seq(Nat)]
      /\ c.disposed = FALSE /\ c.linked = FALSE /\ c.ready = FALSE
      /\ c.pending = <<>> /\ c.passed = <<>>
  BY DEF Loading!NewDelayed
<1>2. Len(<<>>) = 0 /\ DOMAIN <<>> = {} /\ 0 + 0 = 0 /\ 0 + 0 + 0 = 0
  OBVIOUS
<1> HIDE DEF c
<1>3. ChannelNumbers(c, 0, 0) /\ ChannelRight(c)
  BY <1>1, <1>2 DEF ChannelNumbers, ChannelRight, Numbered
<1> QED BY <1>1, <1>3 DEF c

\* setUnderlyingChannel and setReady lose and reorder nothing.
LEMMA ChannelOpens ==
  ASSUME NEW c, ChannelRight(c)
  PROVE  LET l == Loading!SetUnderlyingChannel(c)
             r == Loading!SetReady(c)
         IN /\ ChannelRight(l) /\ l.disposed = c.disposed
            /\ l.linked = (c.linked \/ ~c.disposed)
            /\ l.ready = c.ready /\ l.passed = c.passed /\ l.pending = c.pending
            /\ ChannelRight(r) /\ r.disposed = c.disposed /\ r.linked = c.linked
            /\ r.ready = (c.ready \/ ~c.disposed)
            /\ \A a, n \in Nat : ChannelNumbers(c, a, n) => ChannelNumbers(r, a, n)
<1> DEFINE l == Loading!SetUnderlyingChannel(c)
           r == Loading!SetReady(c)
           S == [disposed : BOOLEAN, linked : BOOLEAN, ready : BOOLEAN,
                 pending : Seq(Nat), passed : Seq(Nat)]
<1>1. c \in S
  BY DEF ChannelRight
<1>2. /\ ChannelRight(l) /\ l.disposed = c.disposed /\ l.linked = (c.linked \/ ~c.disposed)
      /\ l.ready = c.ready /\ l.passed = c.passed /\ l.pending = c.pending
  <2>1. CASE c.disposed
    <3>1. l = c
      BY <2>1 DEF Loading!SetUnderlyingChannel
    <3> QED BY <1>1, <2>1, <3>1
  <2>2. CASE ~c.disposed
    <3>1. l = [c EXCEPT !.linked = TRUE]
      BY <2>2 DEF Loading!SetUnderlyingChannel
    <3>2. /\ l \in S /\ l.disposed = c.disposed /\ l.linked = TRUE
          /\ l.ready = c.ready /\ l.passed = c.passed /\ l.pending = c.pending
      BY <1>1, <3>1
    <3> HIDE DEF l
    <3> QED BY <1>1, <2>2, <3>2 DEF ChannelRight
  <2> QED BY <2>1, <2>2
<1>3. /\ ChannelRight(r) /\ r.disposed = c.disposed /\ r.linked = c.linked
      /\ r.ready = (c.ready \/ ~c.disposed)
      /\ \A a, n \in Nat : ChannelNumbers(c, a, n) => ChannelNumbers(r, a, n)
  <2>1. CASE c.disposed
    <3>1. r = c
      BY <2>1 DEF Loading!SetReady
    <3> QED BY <1>1, <2>1, <3>1
  <2>2. CASE ~c.disposed
    <3>0. c.pending \in Seq(Nat) /\ c.passed \in Seq(Nat) /\ <<>> \in Seq(Nat)
      BY <1>1
    <3>1. r = [c EXCEPT !.ready = TRUE, !.passed = c.passed \o c.pending, !.pending = <<>>]
      BY <2>2 DEF Loading!SetReady
    <3>2. c.passed \o c.pending \in Seq(Nat)
      BY <3>0
    <3> DEFINE all == c.passed \o c.pending
    <3> HIDE DEF all
    <3>3. /\ r \in S /\ r.disposed = c.disposed /\ r.linked = c.linked /\ r.ready = TRUE
          /\ r.passed = all /\ r.pending = <<>>
      <4>1. r = [c EXCEPT !.ready = TRUE, !.passed = all, !.pending = <<>>] /\ all \in Seq(Nat)
        BY <3>1, <3>2 DEF all
      <4> HIDE DEF r
      <4> QED BY <1>1, <3>0, <4>1
    <3> HIDE DEF r
    <3>4. ASSUME NEW a \in Nat, NEW n \in Nat, ChannelNumbers(c, a, n)
          PROVE  ChannelNumbers(r, a, n)
      <4>1. /\ Numbered(c.passed, a) /\ Numbered(c.pending, a + Len(c.passed))
            /\ n = a + Len(c.passed) + Len(c.pending)
        BY <3>4 DEF ChannelNumbers
      <4>2. /\ Numbered(all, a) /\ Len(all) = Len(c.passed) + Len(c.pending)
        <5>1. \A t \in Seq(Nat) : Numbered(t, a + Len(c.passed)) =>
                Numbered(c.passed \o t, a) /\ Len(c.passed \o t) = Len(c.passed) + Len(t)
          <6>1. /\ c.passed \in Seq(Nat) /\ a \in Nat /\ Numbered(c.passed, a)
            BY <3>0, <4>1
          <6> DEFINE q == c.passed
          <6> HIDE DEF q
          <6>2. q \in Seq(Nat) /\ a \in Nat /\ Numbered(q, a)
            BY <6>1 DEF q
          <6>3. \A t \in Seq(Nat) : Numbered(t, a + Len(q)) =>
                  Numbered(q \o t, a) /\ Len(q \o t) = Len(q) + Len(t)
            BY <6>2, NumberedIs
          <6> QED BY <6>3 DEF q
        <5> QED BY <3>0, <4>1, <5>1 DEF all
      <4>3. n = a + Len(all) + 0
        <5>1. Len(c.passed) \in Nat /\ Len(c.pending) \in Nat
          BY <3>0
        <5>3. n = a + (Len(c.passed) + Len(c.pending)) + 0
          <6> DEFINE p == Len(c.passed)
                     q == Len(c.pending)
          <6>1. n = a + p + q /\ p \in Nat /\ q \in Nat
            BY <4>1, <5>1
          <6> HIDE DEF p, q
          <6>2. n = a + (p + q) + 0
            BY <6>1
          <6> QED BY <6>2 DEF p, q
        <5> QED BY <4>2, <5>3, Zenon
      <4>4. Len(<<>>) = 0 /\ DOMAIN <<>> = {}
        OBVIOUS
      <4>5. Numbered(<<>>, a + Len(all))
        BY <4>4 DEF Numbered
      <4> QED BY <3>3, <4>2, <4>3, <4>4, <4>5 DEF ChannelNumbers
    <3> QED BY <1>1, <2>2, <3>3, <3>4 DEF ChannelRight
  <2> QED BY <2>1, <2>2
<1> QED BY <1>2, <1>3 DEF l, r

\* A message sent is the next one, unless the channel is disposed of.
LEMMA ChannelSends ==
  ASSUME NEW c, ChannelRight(c), NEW m \in Nat
  PROVE  LET s == Loading!DelayedSend(c, <<m>>)
         IN /\ ChannelRight(s) /\ s.disposed = c.disposed /\ s.linked = c.linked
            /\ s.ready = c.ready /\ (c.disposed \/ ~c.ready => s.passed = c.passed)
            /\ \A a, n \in Nat : ChannelNumbers(c, a, n) /\ m = n + 1 /\ ~c.disposed
                                   => ChannelNumbers(s, a, n + 1)
<1> DEFINE s == Loading!DelayedSend(c, <<m>>)
           S == [disposed : BOOLEAN, linked : BOOLEAN, ready : BOOLEAN,
                 pending : Seq(Nat), passed : Seq(Nat)]
<1>1. /\ c \in S /\ c.pending \in Seq(Nat) /\ c.passed \in Seq(Nat)
      /\ Len(c.pending) \in Nat /\ Len(c.passed) \in Nat
  BY DEF ChannelRight
<1>2. CASE c.disposed
  <2>1. s = c
    BY <1>2 DEF Loading!DelayedSend
  <2> QED BY <1>2, <2>1
<1>3. CASE ~c.disposed /\ ~c.ready
  <2> DEFINE p == Append(c.pending, m)
  <2>1. c.pending \o <<m>> = p /\ p \in Seq(Nat) /\ Len(p) = Len(c.pending) + 1
    BY <1>1
  <2>2. s = [c EXCEPT !.pending = p]
    BY <1>3, <2>1 DEF Loading!DelayedSend
  <2> HIDE DEF s, p
  <2>3. /\ s \in S /\ s.disposed = c.disposed /\ s.linked = c.linked /\ s.ready = c.ready
        /\ s.passed = c.passed /\ s.pending = p
    BY <1>1, <2>1, <2>2
  <2>4. ChannelRight(s)
    BY <1>3, <2>3 DEF ChannelRight
  <2>5. ASSUME NEW a \in Nat, NEW n \in Nat, ChannelNumbers(c, a, n), m = n + 1
        PROVE  ChannelNumbers(s, a, n + 1)
    <3>1. /\ Numbered(c.passed, a) /\ Numbered(c.pending, a + Len(c.passed))
          /\ n = a + Len(c.passed) + Len(c.pending)
      BY <2>5 DEF ChannelNumbers
    <3>2. a + Len(c.passed) \in Nat /\ m = (a + Len(c.passed)) + Len(c.pending) + 1
      BY <1>1, <2>5, <3>1
    <3>3. Numbered(p, a + Len(c.passed))
      BY <1>1, <3>1, <3>2, NumberedIs DEF p
    <3>4. n + 1 = a + Len(c.passed) + (Len(c.pending) + 1)
      BY <1>1, <3>1
    <3> QED BY <2>1, <2>3, <3>1, <3>3, <3>4 DEF ChannelNumbers
  <2> QED BY <1>3, <2>3, <2>4, <2>5 DEF s
<1>4. CASE ~c.disposed /\ c.ready
  <2> DEFINE p == Append(c.passed, m)
  <2>0. c.pending = <<>> /\ Len(c.pending) = 0
    BY <1>4 DEF ChannelRight
  <2>1. c.passed \o <<m>> = p /\ p \in Seq(Nat) /\ Len(p) = Len(c.passed) + 1
    BY <1>1
  <2>2. s = [c EXCEPT !.passed = p]
    BY <1>4, <2>0, <2>1 DEF Loading!DelayedSend
  <2> HIDE DEF s, p
  <2>3. /\ s \in S /\ s.disposed = c.disposed /\ s.linked = c.linked /\ s.ready = c.ready
        /\ s.passed = p /\ s.pending = c.pending
    BY <1>1, <2>1, <2>2
  <2>4. ChannelRight(s)
    BY <1>4, <2>0, <2>3 DEF ChannelRight
  <2>5. ASSUME NEW a \in Nat, NEW n \in Nat, ChannelNumbers(c, a, n), m = n + 1
        PROVE  ChannelNumbers(s, a, n + 1)
    <3>1. Numbered(c.passed, a) /\ n = a + Len(c.passed) + 0
      BY <2>0, <2>5 DEF ChannelNumbers
    <3>2. m = a + Len(c.passed) + 1
      BY <1>1, <2>5, <3>1
    <3>3. Numbered(p, a)
      BY <1>1, <3>1, <3>2, NumberedIs DEF p
    <3>4. n + 1 = a + (Len(c.passed) + 1) + 0
      BY <1>1, <3>1
    <3>5. DOMAIN <<>> = {}
      OBVIOUS
    <3>6. Numbered(<<>>, a + Len(p))
      BY <3>5 DEF Numbered
    <3> QED BY <2>0, <2>1, <2>3, <3>3, <3>4, <3>6 DEF ChannelNumbers
  <2> QED BY <1>4, <2>3, <2>4, <2>5 DEF s
<1> QED BY <1>1, <1>2, <1>3, <1>4 DEF s

LEMMA ChannelDisposes ==
  ASSUME NEW c, ChannelRight(c)
  PROVE  LET d == Loading!DisposeDelayed(c)
         IN /\ ChannelRight(d) /\ d.disposed = TRUE /\ d.linked = FALSE
            /\ d.ready = c.ready /\ d.passed = c.passed
<1> DEFINE d == Loading!DisposeDelayed(c)
           S == [disposed : BOOLEAN, linked : BOOLEAN, ready : BOOLEAN,
                 pending : Seq(Nat), passed : Seq(Nat)]
<1>1. c \in S /\ <<>> \in Seq(Nat)
  BY DEF ChannelRight
<1>2. d = [c EXCEPT !.disposed = TRUE, !.linked = FALSE, !.pending = <<>>]
  BY DEF Loading!DisposeDelayed
<1>3. /\ d \in S /\ d.disposed = TRUE /\ d.linked = FALSE /\ d.ready = c.ready
      /\ d.passed = c.passed /\ d.pending = <<>>
  <2> HIDE DEF d
  <2> QED BY <1>1, <1>2
<1> HIDE DEF d
<1>4. ChannelRight(d)
  BY <1>3 DEF ChannelRight
<1> QED BY <1>3, <1>4 DEF d

\* What has been passed on goes its way, from the first on.
LEMMA ChannelHands ==
  ASSUME NEW c, ChannelRight(c), c.passed # <<>>, NEW t, t = [c EXCEPT !.passed = Tail(c.passed)]
  PROVE  /\ ChannelRight(t) /\ t.disposed = c.disposed /\ t.linked = c.linked
         /\ t.ready = c.ready /\ Head(c.passed) \in Nat
         /\ \A a, n \in Nat : ChannelNumbers(c, a, n) =>
              Head(c.passed) = a + 1 /\ ChannelNumbers(t, a + 1, n)
<1> DEFINE S == [disposed : BOOLEAN, linked : BOOLEAN, ready : BOOLEAN,
                 pending : Seq(Nat), passed : Seq(Nat)]
<1>1. /\ c \in S /\ c.pending \in Seq(Nat) /\ c.passed \in Seq(Nat)
      /\ Len(c.pending) \in Nat /\ Len(c.passed) \in Nat
  BY DEF ChannelRight
<1>2. Tail(c.passed) \in Seq(Nat) /\ Head(c.passed) \in Nat
  BY <1>1, TailIs
<1>3. /\ t \in S /\ t.disposed = c.disposed /\ t.linked = c.linked /\ t.ready = c.ready
      /\ t.passed = Tail(c.passed) /\ t.pending = c.pending
  BY <1>1, <1>2
<1>4. ChannelRight(t)
  BY <1>3 DEF ChannelRight
<1>5. ASSUME NEW a \in Nat, NEW n \in Nat, ChannelNumbers(c, a, n)
      PROVE  Head(c.passed) = a + 1 /\ ChannelNumbers(t, a + 1, n)
  <2>1. /\ Numbered(c.passed, a) /\ Numbered(c.pending, a + Len(c.passed))
        /\ n = a + Len(c.passed) + Len(c.pending)
    BY <1>5 DEF ChannelNumbers
  <2>2. /\ Head(c.passed) = a + 1 /\ Numbered(Tail(c.passed), a + 1)
        /\ Len(Tail(c.passed)) \in Nat /\ Len(c.passed) = 1 + Len(Tail(c.passed))
    BY <1>1, <2>1, NumberedIs
  <2>3. a + Len(c.passed) = (a + 1) + Len(Tail(c.passed))
    BY <2>2
  <2> QED BY <1>3, <2>1, <2>2, <2>3 DEF ChannelNumbers
<1> QED BY <1>2, <1>3, <1>4, <1>5

LEMMA OuterDisposed ==
  ASSUME NEW o, OuterRight(o)
  PROVE  LET d == Loading!DisposeOuter(o)
         IN /\ OuterRight(d) /\ d.at = o.at /\ ~d.active /\ ~Posting(d)
            /\ d.messages = "none" => o.messages = "none"
<1> DEFINE d == Loading!DisposeOuter(o)
           c == Loading!DisposeDelayed(o.channel)
           s == IF o.status = "taken" THEN "disposed" ELSE o.status
           m == IF o.channel.linked THEN "disposed" ELSE o.messages
           l == IF o.load = "pending" THEN "rejected" ELSE o.load
<1>1. /\ o \in Outers(o.channel) /\ ChannelRight(o.channel)
      /\ o.channel.linked \in BOOLEAN /\ o.channel.ready \in BOOLEAN
  BY ChannelFields DEF OuterRight, Outers
<1>2. /\ ChannelRight(c) /\ c.disposed = TRUE /\ c.linked = FALSE /\ c.ready = o.channel.ready
      /\ c.passed = o.channel.passed
  BY <1>1, ChannelDisposes
<1>3. d = [o EXCEPT !.disposed = TRUE, !.active = FALSE, !.status = s, !.messages = m,
                    !.channel = c, !.load = l]
  BY DEF Loading!DisposeOuter
<1>4. /\ s \in {"none", "here", "taken", "disposed"} /\ m \in {"none", "here", "disposed"}
      /\ l \in {"pending", "resolved", "rejected"}
      /\ s = "none" => o.status = "none"
      /\ o.status = "none" => s = "none"
      /\ m = "none" => o.messages = "none"
      /\ m = "here" => o.messages = "here" /\ ~o.channel.linked
  BY <1>1 DEF Outers
<1> HIDE DEF c, s, m, l, d
<1>5. /\ d \in Outers(c) /\ d.disposed = TRUE /\ d.active = FALSE /\ d.status = s /\ d.messages = m
      /\ d.channel = c /\ d.at = o.at
  BY <1>1, <1>3, <1>4 DEF Outers
<1>6. OuterRight(d)
  <2>1. m = "here" => c.passed = <<>>
    <3>1. CASE ~o.channel.disposed
      BY <1>1, <1>2, <1>4, <3>1 DEF OuterRight, ChannelRight
    <3>2. CASE o.channel.disposed
      BY <1>1, <1>2, <1>4, <3>2 DEF OuterRight
    <3> QED BY <3>1, <3>2
  <2>2. c.ready => m # "none"
    BY <1>2, <1>4 DEF OuterRight
  <2>3. s # "none" => m # "none"
    BY <1>4 DEF OuterRight
  <2>4. o.at = "loaded" => s # "none"
    BY <1>4 DEF OuterRight
  <2> QED BY <1>2, <1>5, <2>1, <2>2, <2>3, <2>4 DEF OuterRight, Outers
<1>7. ~Posting(d)
  BY <1>2, <1>5 DEF Posting
<1> QED BY <1>4, <1>5, <1>6, <1>7 DEF d

LEMMA OuterAbandoned ==
  ASSUME NEW o, OuterRight(o)
  PROVE  LET a == Loading!Abandon(o)
         IN /\ OuterRight(a) /\ a.at = "over" /\ a.active = o.active /\ a.disposed = o.disposed
            /\ a.messages = o.messages /\ a.channel = o.channel /\ a.status = o.status
<1> DEFINE a == Loading!Abandon(o)
           l == IF o.load = "pending" THEN "rejected" ELSE o.load
<1>1. o \in Outers(o.channel)
  BY DEF OuterRight, Outers
<1>2. a = [o EXCEPT !.at = "over", !.load = l] /\ l \in {"pending", "resolved", "rejected"}
  BY <1>1 DEF Loading!Abandon, Outers
<1> HIDE DEF l, a
<1>3. /\ a \in Outers(o.channel) /\ a.at = "over" /\ a.active = o.active /\ a.disposed = o.disposed
      /\ a.messages = o.messages /\ a.channel = o.channel /\ a.status = o.status
  BY <1>1, <1>2 DEF Outers
<1>4. OuterRight(a)
  BY <1>3 DEF OuterRight, Outers
<1> QED BY <1>3, <1>4 DEF a

\* A step of the page that sends and posts nothing.
LEMMA OuterMoves ==
  ASSUME LoadingInv, UNCHANGED <<inner, toDocument, sent, received>>,
         OuterRight(outer'), outer'.at # "idle",
         outer'.messages = "none" => outer.messages = "none",
         \/ toPage' = toPage
         \/ toPage # <<>> /\ toPage' = Tail(toPage) /\ (outer'.messages = "none" => Head(toPage) # "messages"),
         document' \in {document, "closed"} \/ (document = "none" /\ document' = "opening"),
         Posting(outer') => /\ Posting(outer)
                            /\ \A a, n \in Nat : ChannelNumbers(outer.channel, a, n)
                                                   => ChannelNumbers(outer'.channel, a, n)
  PROVE  LoadingInv'
<1>1. toPage' \in Seq(Events) /\ (outer'.messages = "none" => MessagesFirst(toPage'))
  <2>0. toPage \in Seq(Events) /\ (outer'.messages = "none" => MessagesFirst(toPage))
    BY DEF LoadingInv
  <2>1. CASE toPage' = toPage
    BY <2>0, <2>1
  <2>2. CASE toPage # <<>> /\ toPage' = Tail(toPage) /\ (outer'.messages = "none" => Head(toPage) # "messages")
    <3> DEFINE p == Tail(toPage)
    <3>1. /\ p \in Seq(Events) /\ toPage[1] = Head(toPage)
          /\ \A n \in DOMAIN p : n \in Nat /\ n + 1 \in DOMAIN toPage /\ p[n] = toPage[n + 1]
          /\ \A n \in DOMAIN toPage : n \in Nat /\ (n = 1 \/ n - 1 \in DOMAIN p)
      BY <2>0, <2>2, TailIs
    <3>2. \A n \in DOMAIN toPage : n = 1 \/ p[n - 1] = toPage[n]
      <4> TAKE n \in DOMAIN toPage
      <4>1. CASE n - 1 \in DOMAIN p
        <5>1. p[n - 1] = toPage[(n - 1) + 1] /\ (n - 1) + 1 = n
          BY <3>1, <4>1
        <5> QED BY <5>1
      <4> QED BY <3>1, <4>1
    <3> HIDE DEF p
    <3>3. ASSUME outer'.messages = "none" PROVE MessagesFirst(p)
      <4> SUFFICES ASSUME NEW n \in DOMAIN p, p[n] = "status"
                   PROVE  \E k \in DOMAIN p : k < n /\ p[k] = "messages"
        BY DEF MessagesFirst
      <4>1. PICK k \in DOMAIN toPage : k < n + 1 /\ toPage[k] = "messages"
        BY <2>0, <3>1, <3>3 DEF MessagesFirst
      <4>2. k # 1
        BY <2>2, <3>1, <3>3, <4>1
      <4>3. k - 1 \in DOMAIN p /\ p[k - 1] = "messages" /\ k - 1 < n
        BY <3>1, <3>2, <4>1, <4>2
      <4> QED BY <4>3
    <3> QED BY <2>2, <3>1, <3>3 DEF p
  <2> QED BY <2>1, <2>2
<1>2. Alive' => Alive
  BY DEF Alive, LoadingInv
<1>3. ASSUME NEW c \in Nat, Flow(c) PROVE Flow(c)'
  <2>1. /\ ChannelNumbers(inner.channel, Len(received), c) /\ Numbered(toDocument, c)
        /\ Posting(outer) => ChannelNumbers(outer.channel, c + Len(toDocument), sent)
    BY <1>3 DEF Flow
  <2>2. c + Len(toDocument) \in Nat /\ sent \in Nat
    BY DEF LoadingInv
  <2>3. Posting(outer') => ChannelNumbers(outer'.channel, c + Len(toDocument), sent)
    BY <2>1, <2>2
  <2>4. (Posting(outer))' = Posting(outer')
    BY DEF Posting
  <2> QED BY <2>1, <2>3 DEF Flow, ChannelNumbers, Numbered, Posting
<1>4. Alive' => \E c \in Nat : Flow(c)'
  BY <1>2, <1>3 DEF LoadingInv
<1>5. document' \in {"none", "opening", "open", "closed"}
  BY DEF LoadingInv
<1> QED BY <1>1, <1>4, <1>5 DEF LoadingInv, OuterRight, InnerRight, ChannelRight, MessagesFirst, Numbered

\* A step of the document that neither takes a message nor hands one on.
LEMMA InnerMoves ==
  ASSUME LoadingInv, UNCHANGED <<outer, sent, received>>, document # "none",
         InnerRight(inner'), toDocument' \in Seq(Nat),
         toPage' \in Seq(Events), MessagesFirst(toPage) => MessagesFirst(toPage'),
         document' \in {"open", "closed"},
         Alive' => /\ Alive /\ toDocument' = toDocument
                   /\ \A a, n \in Nat : ChannelNumbers(inner.channel, a, n)
                                          => ChannelNumbers(inner'.channel, a, n)
  PROVE  LoadingInv'
<1>1. ASSUME NEW c \in Nat, Flow(c), Alive' PROVE Flow(c)'
  <2>1. /\ ChannelNumbers(inner.channel, Len(received), c) /\ Numbered(toDocument, c)
        /\ Posting(outer) => ChannelNumbers(outer.channel, c + Len(toDocument), sent)
    BY <1>1 DEF Flow
  <2>2. Len(received) \in Nat
    BY DEF LoadingInv
  <2>3. ChannelNumbers(inner'.channel, Len(received), c) /\ toDocument' = toDocument
    BY <1>1, <2>1, <2>2
  <2> QED BY <2>1, <2>3 DEF Flow, ChannelNumbers, Numbered, Posting
<1>2. Alive' => \E c \in Nat : Flow(c)'
  BY <1>1 DEF LoadingInv
<1> QED BY <1>2 DEF LoadingInv, OuterRight, InnerRight, ChannelRight, MessagesFirst, Numbered

\* Whatever the page hears of the document, its part stays right.
LEMMA PageHearsKeeps ==
  ASSUME LoadingInv, Loading!PageHears
  PROVE  LoadingInv'
<1> DEFINE o == outer
           m == Head(toPage)
<1>1. /\ toPage # <<>> /\ toPage' = Tail(toPage) /\ UNCHANGED <<inner, toDocument, sent, received>>
      /\ document' \in {document, "closed"}
      /\ \/ outer' = Loading!Heard(o, m)
         \/ outer' = [o EXCEPT !.failed = TRUE] /\ m # "messages"
  BY DEF Loading!PageHears, Loading!Unhandled
<1>2. /\ OuterRight(o) /\ o \in Outers(o.channel) /\ m \in Events /\ o.at # "idle"
      /\ ChannelRight(o.channel)
      /\ o.disposed \in BOOLEAN /\ o.channel.disposed \in BOOLEAN
      /\ o.channel.linked \in BOOLEAN /\ o.channel.ready \in BOOLEAN
  BY <1>1, TailIs, ChannelFields DEF LoadingInv, OuterRight, Outers
<1>3. o.messages = "none" => m # "status"
  <2>1. toPage[1] = m /\ 1 \in DOMAIN toPage /\ \A k \in DOMAIN toPage : ~(k < 1)
    BY <1>1, TailIs DEF LoadingInv
  <2> QED BY <2>1 DEF LoadingInv, MessagesFirst
<1>10. m = "messages" \/ Head(toPage) # "messages"
  OBVIOUS
<1> HIDE DEF m
<1>4. CASE outer' = Loading!Heard(o, m) /\ m = "status"
  <2> DEFINE s == IF o.status = "none" THEN "here" ELSE o.status
  <2>1. /\ outer' = [o EXCEPT !.status = s] /\ s \in {"here", "taken", "disposed"}
    BY <1>1, <1>2, <1>4 DEF Loading!Heard, Loading!OnConnect, Outers
  <2> HIDE DEF s
  <2>2. /\ outer' \in Outers(o.channel) /\ outer'.status = s /\ outer'.at = o.at
        /\ outer'.messages = o.messages /\ outer'.channel = o.channel /\ outer'.disposed = o.disposed
    BY <1>2, <2>1 DEF Outers
  <2>3. OuterRight(outer')
    BY <1>2, <1>3, <1>4, <2>1, <2>2 DEF OuterRight
  <2>4. Posting(outer') <=> Posting(outer)
    BY <2>2 DEF Posting
  <2> QED BY <1>1, <1>2, <1>4, <1>10, <2>2, <2>3, <2>4, OuterMoves
<1>5. CASE outer' = Loading!Heard(o, m) /\ m = "messages"
  <2> DEFINE s == IF o.messages = "none" THEN "here" ELSE o.messages
  <2>1. /\ outer' = [o EXCEPT !.messages = s] /\ s \in {"here", "disposed"}
        /\ s = "disposed" => o.messages = "disposed"
        /\ o.messages = "disposed" => s = "disposed"
    BY <1>1, <1>2, <1>5 DEF Loading!Heard, Loading!OnConnect, Outers
  <2>2. s = "here" /\ o.channel.disposed => o.channel.passed = <<>>
    <3>1. s = "here" => o.messages \in {"none", "here"}
      BY <1>2 DEF Outers
    <3> QED BY <1>2, <3>1 DEF OuterRight, ChannelRight
  <2> HIDE DEF s
  <2>3. /\ outer' \in Outers(o.channel) /\ outer'.status = o.status /\ outer'.at = o.at
        /\ outer'.messages = s /\ outer'.channel = o.channel /\ outer'.disposed = o.disposed
    BY <1>2, <2>1 DEF Outers
  <2>4. OuterRight(outer')
    BY <1>2, <2>1, <2>2, <2>3 DEF OuterRight
  <2>5. Posting(outer') <=> Posting(outer)
    BY <2>1, <2>3 DEF Posting
  <2> QED BY <1>1, <1>2, <2>1, <2>3, <2>4, <2>5, OuterMoves
<1>6. CASE outer' = Loading!Heard(o, m) /\ m = "gone"
  <2> DEFINE cut == [o EXCEPT !.status = "disposed", !.messages = "disposed"]
  <2>1. outer' = IF o.at = "loaded" THEN Loading!Abandon(cut) ELSE cut
    BY <1>1, <1>6 DEF Loading!Heard, Loading!OnGone
  <2>2. /\ cut \in Outers(o.channel) /\ cut.status = "disposed" /\ cut.at = o.at
        /\ cut.messages = "disposed" /\ cut.channel = o.channel /\ cut.disposed = o.disposed
    BY <1>2 DEF Outers
  <2> HIDE DEF cut
  <2>3. OuterRight(cut)
    BY <1>2, <2>2 DEF OuterRight
  <2>4. OuterRight(outer') /\ outer'.at # "idle" /\ outer'.messages = "disposed"
    BY <1>2, <2>1, <2>2, <2>3, OuterAbandoned
  <2>5. ~Posting(outer')
    BY <2>4 DEF Posting
  <2> QED BY <1>1, <2>4, <2>5, OuterMoves
<1>7. CASE outer' = Loading!Heard(o, m) /\ m = "loaded" /\ o.at = "loaded" /\ ~o.disposed
  <2> DEFINE l == Loading!SetUnderlyingChannel(o.channel)
             c == Loading!SetReady(l)
             p == IF o.load = "pending" THEN "resolved" ELSE o.load
  <2>1. outer' = [o EXCEPT !.at = "over", !.channel = c, !.load = p]
    BY <1>1, <1>7 DEF Loading!Heard, Loading!OnLoaded
  <2>2. /\ ChannelRight(l) /\ ~l.disposed /\ l.linked /\ o.channel.disposed = FALSE
        /\ l.ready = o.channel.ready /\ l.passed = o.channel.passed /\ l.pending = o.channel.pending
    BY <1>2, <1>7, ChannelOpens DEF OuterRight
  <2> HIDE DEF l
  <2>3. /\ ChannelRight(c) /\ ~c.disposed /\ c.linked /\ c.ready
        /\ \A a, n \in Nat : ChannelNumbers(l, a, n) => ChannelNumbers(c, a, n)
    BY <2>2, ChannelOpens
  <2>4. \A a, n \in Nat : ChannelNumbers(o.channel, a, n) => ChannelNumbers(l, a, n)
    BY <2>2 DEF ChannelNumbers
  <2>5. p \in {"pending", "resolved", "rejected"} /\ o.messages # "none"
    BY <1>2, <1>7 DEF Outers, OuterRight
  <2>6. c.disposed = FALSE
    BY <2>3, ChannelFields
  <2> HIDE DEF c, p
  <2>7. /\ outer' \in Outers(c) /\ outer'.status = o.status /\ outer'.at = "over"
        /\ outer'.messages = o.messages /\ outer'.channel = c /\ outer'.disposed = o.disposed
    BY <1>2, <2>1, <2>5 DEF Outers
  <2>8. OuterRight(outer')
    BY <1>2, <1>7, <2>2, <2>3, <2>5, <2>6, <2>7 DEF OuterRight
  <2>9. Posting(outer') <=> Posting(outer)
    BY <2>2, <2>6, <2>7 DEF Posting
  <2>10. /\ outer'.at # "idle" /\ outer'.messages = o.messages
         /\ \A a, n \in Nat : ChannelNumbers(o.channel, a, n) => ChannelNumbers(outer'.channel, a, n)
    BY <2>3, <2>4, <2>7
  <2> QED BY <1>1, <1>7, <1>10, <2>8, <2>9, <2>10, OuterMoves
<1>8. CASE outer' = Loading!Heard(o, m) /\ m = "disposed" /\ o.status = "taken"
  <2>1. outer' = Loading!DisposeOuter(IF o.at = "loaded" THEN Loading!Abandon(o) ELSE o)
    BY <1>1, <1>8 DEF Loading!Heard, Loading!OnDisposed
  <2>2. PICK x : /\ x = IF o.at = "loaded" THEN Loading!Abandon(o) ELSE o
                 /\ OuterRight(x) /\ x.at # "idle" /\ x.messages = o.messages
    BY <1>2, OuterAbandoned
  <2>3. OuterRight(outer') /\ outer'.at # "idle" /\ ~Posting(outer')
        /\ (outer'.messages = "none" => o.messages = "none")
    BY <2>1, <2>2, OuterDisposed
  <2> QED BY <1>1, <1>8, <1>10, <2>3, OuterMoves
<1>9. CASE outer' = o /\ m # "messages"
  BY <1>1, <1>2, <1>9, OuterMoves DEF m
<1>11. CASE outer' = [o EXCEPT !.failed = TRUE] /\ m # "messages"
  <2>1. /\ outer' \in Outers(o.channel) /\ outer'.status = o.status /\ outer'.at = o.at
        /\ outer'.messages = o.messages /\ outer'.channel = o.channel /\ outer'.disposed = o.disposed
    BY <1>2, <1>11 DEF Outers
  <2>2. OuterRight(outer')
    BY <1>2, <2>1 DEF OuterRight
  <2>3. Posting(outer') <=> Posting(outer)
    BY <2>1 DEF Posting
  <2> QED BY <1>1, <1>2, <1>10, <1>11, <2>1, <2>2, <2>3, OuterMoves
<1>12. outer' = Loading!Heard(o, m) =>
         \/ m \in {"status", "messages", "gone"}
         \/ m = "loaded" /\ o.at = "loaded" /\ ~o.disposed
         \/ m = "disposed" /\ o.status = "taken"
         \/ m # "messages" /\ outer' = o
  BY DEF Loading!Heard
<1> QED BY <1>1, <1>4, <1>5, <1>6, <1>7, <1>8, <1>9, <1>11, <1>12

LEMMA PageSendsKeeps ==
  ASSUME LoadingInv, Loading!PageSends
  PROVE  LoadingInv'
<1> DEFINE o == outer
           s == Loading!DelayedSend(o.channel, <<sent + 1>>)
<1>1. /\ sent' = sent + 1 /\ outer' = [o EXCEPT !.channel = s] /\ o.at # "idle"
      /\ UNCHANGED <<document, inner, toPage, toDocument, received>>
  BY DEF Loading!PageSends
<1>2. /\ OuterRight(o) /\ o \in Outers(o.channel) /\ ChannelRight(o.channel) /\ sent \in Nat /\ sent + 1 \in Nat
  BY DEF LoadingInv, OuterRight
<1>3. /\ ChannelRight(s) /\ s.disposed = o.channel.disposed /\ s.linked = o.channel.linked
      /\ s.ready = o.channel.ready
      /\ o.channel.disposed \/ ~o.channel.ready => s.passed = o.channel.passed
      /\ \A a \in Nat : ChannelNumbers(o.channel, a, sent) /\ ~o.channel.disposed
                          => ChannelNumbers(s, a, sent + 1)
  BY <1>2, ChannelSends
<1> HIDE DEF s
<1>4. /\ outer' \in Outers(s) /\ outer'.channel = s /\ outer'.at = o.at /\ outer'.status = o.status
      /\ outer'.messages = o.messages /\ outer'.disposed = o.disposed
  BY <1>1, <1>2 DEF Outers
<1>5. OuterRight(outer')
  BY <1>2, <1>3, <1>4 DEF OuterRight
<1>6. ASSUME NEW c \in Nat, Flow(c) PROVE Flow(c)'
  <2>1. c + Len(toDocument) \in Nat
    BY DEF LoadingInv
  <2>2. Posting(outer') => ChannelNumbers(s, c + Len(toDocument), sent + 1)
    BY <1>2, <1>3, <1>4, <1>6, <2>1 DEF Flow, Posting
  <2>3. Posting(outer') => ChannelNumbers(outer'.channel, c + Len(toDocument), sent')
    BY <1>1, <1>4, <2>2
  <2> QED BY <1>1, <1>6, <2>3 DEF Flow, ChannelNumbers, Numbered, Posting
<1>7. Alive' => \E c \in Nat : Flow(c)'
  BY <1>1, <1>6 DEF LoadingInv, Alive
<1> QED BY <1>1, <1>2, <1>4, <1>5, <1>7
     DEF LoadingInv, OuterRight, Outers, InnerRight, Inners, ChannelRight, MessagesFirst, Numbered

LEMMA PagePostsKeeps ==
  ASSUME LoadingInv, Loading!PagePosts
  PROVE  LoadingInv'
<1> DEFINE o == outer
           m == Head(o.channel.passed)
           t == [o.channel EXCEPT !.passed = Tail(o.channel.passed)]
<1>1. /\ o.channel.passed # <<>> /\ outer' = [o EXCEPT !.channel = t]
      /\ toDocument' = IF o.messages = "here" THEN Append(toDocument, m) ELSE toDocument
      /\ UNCHANGED <<document, inner, toPage, sent, received>>
  BY DEF Loading!PagePosts
<1>2. /\ OuterRight(o) /\ o \in Outers(o.channel) /\ ChannelRight(o.channel)
      /\ toDocument \in Seq(Nat) /\ sent \in Nat
  BY DEF LoadingInv, OuterRight
<1>3. /\ ChannelRight(t) /\ t.disposed = o.channel.disposed /\ t.linked = o.channel.linked
      /\ t.ready = o.channel.ready /\ m \in Nat
      /\ \A a, n \in Nat : ChannelNumbers(o.channel, a, n) => m = a + 1 /\ ChannelNumbers(t, a + 1, n)
  BY <1>1, <1>2, ChannelHands
<1>4. o.channel.ready /\ o.messages # "none" /\ (o.messages = "here" => ~o.channel.disposed)
  BY <1>1, <1>2 DEF OuterRight, ChannelRight
<1> HIDE DEF m, t
<1>5. /\ outer' \in Outers(t) /\ outer'.channel = t /\ outer'.at = o.at /\ outer'.status = o.status
      /\ outer'.messages = o.messages /\ outer'.disposed = o.disposed /\ outer'.active = o.active
  BY <1>1, <1>2 DEF Outers
<1>6. OuterRight(outer')
  BY <1>2, <1>3, <1>4, <1>5 DEF OuterRight
<1>7. CASE o.messages = "here"
  <2>1. Posting(o) /\ Posting(outer')
    BY <1>3, <1>4, <1>5, <1>7 DEF Posting
  <2>2. ASSUME NEW c \in Nat, Flow(c) PROVE Flow(c)'
    <3>1. /\ Numbered(toDocument, c) /\ ChannelNumbers(o.channel, c + Len(toDocument), sent)
          /\ c + Len(toDocument) \in Nat /\ Len(toDocument) \in Nat
      BY <1>2, <2>1, <2>2 DEF Flow
    <3>2. m = c + Len(toDocument) + 1 /\ ChannelNumbers(t, c + Len(toDocument) + 1, sent)
      BY <1>2, <1>3, <3>1
    <3>3. Numbered(toDocument', c) /\ Len(toDocument') = Len(toDocument) + 1
      BY <1>1, <1>2, <1>3, <1>7, <3>1, <3>2, NumberedIs
    <3>4. c + Len(toDocument) + 1 = c + (Len(toDocument) + 1)
      BY <3>1
    <3>5. ChannelNumbers(outer'.channel, c + Len(toDocument'), sent')
      BY <1>1, <1>5, <3>2, <3>3, <3>4
    <3> QED BY <1>1, <2>2, <3>3, <3>5 DEF Flow, ChannelNumbers, Numbered, Posting
  <2>3. Alive' => \E c \in Nat : Flow(c)'
    BY <1>1, <2>2 DEF LoadingInv, Alive
  <2>4. toDocument' \in Seq(Nat)
    BY <1>1, <1>2, <1>3
  <2> QED BY <1>1, <1>2, <1>5, <1>6, <2>3, <2>4
       DEF LoadingInv, OuterRight, Outers, InnerRight, Inners, ChannelRight, MessagesFirst, Numbered
<1>8. CASE o.messages # "here"
  <2>1. ~Posting(outer') /\ toDocument' = toDocument
    BY <1>1, <1>2, <1>4, <1>5, <1>8 DEF Posting, Outers
  <2>2. ASSUME NEW c \in Nat, Flow(c) PROVE Flow(c)'
    BY <1>1, <2>1, <2>2 DEF Flow, ChannelNumbers, Numbered, Posting
  <2>3. Alive' => \E c \in Nat : Flow(c)'
    BY <1>1, <2>2 DEF LoadingInv, Alive
  <2> QED BY <1>1, <1>2, <1>5, <1>6, <2>1, <2>3
       DEF LoadingInv, OuterRight, Outers, InnerRight, Inners, ChannelRight, MessagesFirst, Numbered
<1> QED BY <1>7, <1>8

\* The document's side: loading, failing, crashing, going away.
LEMMA DocumentStepKeeps ==
  ASSUME LoadingInv,
         \/ Loading!DocumentOpens \/ Loading!BinaryLoads \/ Loading!LoadFails
         \/ Loading!ModuleCrashes \/ Loading!BinarySends \/ Loading!DocumentGoes
  PROVE  LoadingInv'
<1> DEFINE i == inner
<1>1. /\ InnerRight(i) /\ i \in Inners(i.channel) /\ ChannelRight(i.channel)
      /\ toPage \in Seq(Events) /\ toDocument \in Seq(Nat)
      /\ i.disposed \in BOOLEAN /\ i.channel.disposed \in BOOLEAN
  BY ChannelFields DEF LoadingInv, InnerRight, Inners
<1>2. ASSUME NEW e \in Events, e # "status"
      PROVE  /\ Append(toPage, e) \in Seq(Events)
             /\ MessagesFirst(toPage) => MessagesFirst(Append(toPage, e))
  <2>1. /\ Append(toPage, e) \in Seq(Events)
        /\ \A n \in DOMAIN Append(toPage, e) : n \in DOMAIN toPage \/ n = Len(toPage) + 1
        /\ \A n \in DOMAIN toPage : n \in DOMAIN Append(toPage, e) /\ Append(toPage, e)[n] = toPage[n]
        /\ Append(toPage, e)[Len(toPage) + 1] = e
    BY <1>1
  <2> QED BY <1>2, <2>1 DEF MessagesFirst
<1>3. /\ "loaded" \in Events /\ "disposed" \in Events /\ "answer" \in Events /\ "gone" \in Events
  BY DEF Events
<1>4. CASE Loading!DocumentOpens
  <2> DEFINE l == Loading!SetUnderlyingChannel(i.channel)
             q == toPage \o <<"messages", "status">>
  <2>1. /\ document = "opening" /\ document' = "open" /\ toPage' = q
        /\ inner' = [[i EXCEPT !.channel = l] EXCEPT !.at = "loading"]
        /\ UNCHANGED <<outer, toDocument, sent, received>>
    BY <1>4 DEF Loading!DocumentOpens, Loading!StartInner
  <2>2. /\ q \in Seq(Events)
        /\ \A n \in DOMAIN q : n \in DOMAIN toPage \/ n = Len(toPage) + 1 \/ n = Len(toPage) + 2
        /\ \A n \in DOMAIN toPage : n \in DOMAIN q /\ q[n] = toPage[n]
        /\ Len(toPage) + 1 \in DOMAIN q /\ Len(toPage) + 1 < Len(toPage) + 2
        /\ q[Len(toPage) + 1] = "messages" /\ q[Len(toPage) + 2] = "status"
    <3>1. <<"messages", "status">> \in Seq(Events)
      BY DEF Events
    <3> QED BY <1>1, <3>1
  <2> HIDE DEF q
  <2>3. MessagesFirst(toPage) => MessagesFirst(q)
    BY <2>2 DEF MessagesFirst
  <2>4. /\ ChannelRight(l) /\ l.disposed = i.channel.disposed /\ l.passed = i.channel.passed
        /\ l.pending = i.channel.pending
    BY <1>1, ChannelOpens
  <2>5. \A a, n \in Nat : ChannelNumbers(i.channel, a, n) => ChannelNumbers(l, a, n)
    BY <2>4 DEF ChannelNumbers
  <2> HIDE DEF l
  <2>6. /\ inner' \in Inners(l) /\ inner'.channel = l /\ inner'.disposed = i.disposed
        /\ inner'.at = "loading" /\ inner'.binary = i.binary
    BY <1>1, <2>1 DEF Inners
  <2>7. ~i.disposed
    BY <2>1 DEF LoadingInv
  <2>8. InnerRight(inner')
    BY <1>1, <2>4, <2>6, <2>7 DEF InnerRight
  <2>9. Alive
    BY <2>1, <2>7 DEF Alive
  <2> QED BY <1>1, <2>1, <2>2, <2>3, <2>5, <2>6, <2>8, <2>9, InnerMoves
<1>5. CASE Loading!BinaryLoads
  <2> DEFINE r == Loading!SetReady(i.channel)
  <2>1. /\ document = "open" /\ i.at = "loading" /\ toPage' = Append(toPage, "loaded")
        /\ inner' = [i EXCEPT !.at = "over", !.binary = "running", !.channel = r]
        /\ UNCHANGED <<outer, document, toDocument, sent, received>>
    BY <1>5 DEF Loading!BinaryLoads
  <2>2. /\ ChannelRight(r) /\ r.disposed = i.channel.disposed
        /\ \A a, n \in Nat : ChannelNumbers(i.channel, a, n) => ChannelNumbers(r, a, n)
    BY <1>1, ChannelOpens
  <2> HIDE DEF r
  <2>3. /\ inner' \in Inners(r) /\ inner'.channel = r /\ inner'.disposed = i.disposed
        /\ inner'.at = "over" /\ inner'.binary = "running"
    BY <1>1, <2>1 DEF Inners
  <2>4. ~i.disposed
    BY <1>1, <2>1 DEF InnerRight
  <2>5. InnerRight(inner')
    BY <1>1, <2>2, <2>3, <2>4 DEF InnerRight
  <2>6. Alive
    BY <2>1, <2>4 DEF Alive
  <2>7. toPage' \in Seq(Events) /\ (MessagesFirst(toPage) => MessagesFirst(toPage'))
    BY <1>2, <1>3, <2>1
  <2> QED BY <1>1, <2>1, <2>2, <2>3, <2>5, <2>6, <2>7, InnerMoves
<1>6. CASE Loading!LoadFails \/ Loading!ModuleCrashes
  <2> DEFINE d == Loading!DisposeDelayed(i.channel)
  <2>1. /\ document = "open" /\ toPage' = Append(toPage, "disposed")
        /\ inner' = [i EXCEPT !.at = "over", !.disposed = TRUE, !.binary = "gone", !.channel = d]
        /\ UNCHANGED <<outer, document, toDocument, sent, received>>
    BY <1>6 DEF Loading!LoadFails, Loading!ModuleCrashes, Loading!DisposeInner
  <2>2. ChannelRight(d) /\ d.disposed = TRUE
    BY <1>1, ChannelDisposes
  <2> HIDE DEF d
  <2>3. /\ inner' \in Inners(d) /\ inner'.channel = d /\ inner'.disposed = TRUE
        /\ inner'.at = "over" /\ inner'.binary = "gone"
    BY <1>1, <2>1 DEF Inners
  <2>4. InnerRight(inner')
    BY <2>2, <2>3 DEF InnerRight
  <2>5. ~Alive'
    BY <2>3 DEF Alive
  <2>6. toPage' \in Seq(Events) /\ (MessagesFirst(toPage) => MessagesFirst(toPage'))
    BY <1>2, <1>3, <2>1
  <2> QED BY <1>1, <2>1, <2>4, <2>5, <2>6, InnerMoves
<1>7. CASE Loading!BinarySends
  <2>1. /\ document = "open" /\ toPage' = Append(toPage, "answer")
        /\ UNCHANGED <<outer, document, inner, toDocument, sent, received>>
    BY <1>7 DEF Loading!BinarySends
  <2>2. toPage' \in Seq(Events) /\ (MessagesFirst(toPage) => MessagesFirst(toPage'))
    BY <1>2, <1>3, <2>1
  <2>3. Alive' => Alive
    BY <2>1 DEF Alive
  <2> QED BY <1>1, <2>1, <2>2, <2>3, InnerMoves
<1>8. CASE Loading!DocumentGoes
  <2>1. /\ document \in {"open", "closed"} /\ document' = "closed" /\ inner' = Loading!NewInner
        /\ toPage' = Append(toPage, "gone") /\ toDocument' = <<>>
        /\ UNCHANGED <<outer, sent, received>>
    BY <1>8 DEF Loading!DocumentGoes
  <2>2. InnerRight(Loading!NewInner)
    <3> DEFINE c == Loading!NewDelayed
               j == [at |-> "idle", disposed |-> FALSE, binary |-> "none", channel |-> c]
    <3>1. ChannelRight(c) /\ c.disposed = FALSE
      BY ChannelStarts, ChannelFields
    <3> HIDE DEF c
    <3>2. j \in Inners(c) /\ j.at = "idle" /\ j.disposed = FALSE /\ j.channel = c
      BY DEF Inners
    <3> HIDE DEF j
    <3>3. InnerRight(j)
      BY <3>1, <3>2 DEF InnerRight
    <3> QED BY <3>3 DEF j, c, Loading!NewInner
  <2>3. toPage' \in Seq(Events) /\ (MessagesFirst(toPage) => MessagesFirst(toPage'))
    BY <1>2, <1>3, <2>1
  <2>4. ~Alive' /\ toDocument' \in Seq(Nat)
    BY <2>1 DEF Alive
  <2> QED BY <1>1, <2>1, <2>2, <2>3, <2>4, InnerMoves
<1> QED BY <1>4, <1>5, <1>6, <1>7, <1>8

LEMMA DocumentForwardsKeeps ==
  ASSUME LoadingInv, Loading!DocumentForwards
  PROVE  LoadingInv'
<1> DEFINE i == inner
           m == Head(toDocument)
           s == Loading!DelayedSend(i.channel, <<m>>)
<1>1. /\ document = "open" /\ toDocument # <<>> /\ toDocument' = Tail(toDocument)
      /\ inner' = [i EXCEPT !.channel = s]
      /\ UNCHANGED <<outer, document, toPage, sent, received>>
  BY DEF Loading!DocumentForwards
<1>2. /\ InnerRight(i) /\ i \in Inners(i.channel) /\ ChannelRight(i.channel)
      /\ toDocument \in Seq(Nat) /\ received \in Seq(Nat)
  BY DEF LoadingInv, InnerRight
<1>3. m \in Nat /\ toDocument' \in Seq(Nat)
  BY <1>1, <1>2, TailIs
<1>4. /\ ChannelRight(s) /\ s.disposed = i.channel.disposed
      /\ \A a, n \in Nat : ChannelNumbers(i.channel, a, n) /\ m = n + 1 /\ ~i.channel.disposed
                             => ChannelNumbers(s, a, n + 1)
  <2> HIDE DEF m
  <2> QED BY <1>2, <1>3, ChannelSends
<1> HIDE DEF s, m
<1>5. /\ inner' \in Inners(s) /\ inner'.channel = s /\ inner'.disposed = i.disposed
      /\ inner'.at = i.at /\ inner'.binary = i.binary
  BY <1>1, <1>2 DEF Inners
<1>6. InnerRight(inner')
  BY <1>2, <1>4, <1>5 DEF InnerRight
<1>7. ASSUME NEW c \in Nat, Flow(c), Alive' PROVE c + 1 \in Nat /\ Flow(c + 1)'
  <2>1. /\ ChannelNumbers(i.channel, Len(received), c) /\ Numbered(toDocument, c)
        /\ Posting(outer) => ChannelNumbers(outer.channel, c + Len(toDocument), sent)
        /\ Len(received) \in Nat
    BY <1>2, <1>7 DEF Flow
  <2>2. /\ m = c + 1 /\ Numbered(Tail(toDocument), c + 1) /\ Len(Tail(toDocument)) \in Nat
        /\ Len(toDocument) = 1 + Len(Tail(toDocument))
    BY <1>1, <1>2, <2>1, NumberedIs DEF m
  <2>3. ~i.channel.disposed
    BY <1>2, <1>5, <1>7 DEF Alive, InnerRight
  <2>4. ChannelNumbers(inner'.channel, Len(received), c + 1)
    BY <1>4, <1>5, <2>1, <2>2, <2>3
  <2>5. c + Len(toDocument) = c + 1 + Len(Tail(toDocument))
    <3> DEFINE p == Len(Tail(toDocument))
    <3> HIDE DEF p
    <3>1. Len(toDocument) = 1 + p /\ p \in Nat
      BY <2>2 DEF p
    <3>2. c + (1 + p) = c + 1 + p
      BY <1>7, <3>1
    <3> QED BY <3>1, <3>2 DEF p
  <2>6. Posting(outer) => ChannelNumbers(outer.channel, c + 1 + Len(toDocument'), sent)
    BY <1>1, <2>1, <2>5
  <2>7. Numbered(toDocument', c + 1) /\ c + 1 \in Nat
    BY <1>1, <2>2
  <2> QED BY <1>1, <2>4, <2>6, <2>7 DEF Flow, ChannelNumbers, Numbered, Posting
<1>8. Alive' => \E c \in Nat : Flow(c)'
  <2> SUFFICES ASSUME Alive' PROVE \E c \in Nat : Flow(c)'
    OBVIOUS
  <2>1. Alive
    BY <1>1, <1>5 DEF Alive
  <2>2. PICK c \in Nat : Flow(c)
    BY <2>1 DEF LoadingInv
  <2>3. c + 1 \in Nat /\ Flow(c + 1)'
    BY <1>7, <2>2
  <2> QED BY <2>3
<1> QED BY <1>1, <1>3, <1>6, <1>8
     DEF LoadingInv, OuterRight, Outers, InnerRight, Inners, ChannelRight, MessagesFirst, Numbered

LEMMA BinaryReceivesKeeps ==
  ASSUME LoadingInv, Loading!BinaryReceives
  PROVE  LoadingInv'
<1> DEFINE i == inner
           m == Head(i.channel.passed)
           t == [i.channel EXCEPT !.passed = Tail(i.channel.passed)]
<1>1. /\ document = "open" /\ i.binary = "running" /\ i.channel.passed # <<>>
      /\ inner' = [i EXCEPT !.channel = t] /\ received' = Append(received, m)
      /\ UNCHANGED <<outer, document, toPage, toDocument, sent>>
  BY DEF Loading!BinaryReceives
<1>2. /\ InnerRight(i) /\ i \in Inners(i.channel) /\ ChannelRight(i.channel)
      /\ received \in Seq(Nat) /\ Len(received) \in Nat
  BY DEF LoadingInv, InnerRight
<1>3. /\ ChannelRight(t) /\ t.disposed = i.channel.disposed /\ m \in Nat
      /\ \A a, n \in Nat : ChannelNumbers(i.channel, a, n) => m = a + 1 /\ ChannelNumbers(t, a + 1, n)
  BY <1>1, <1>2, ChannelHands
<1> HIDE DEF m, t
<1>4. /\ inner' \in Inners(t) /\ inner'.channel = t /\ inner'.disposed = i.disposed
      /\ inner'.at = i.at /\ inner'.binary = i.binary
  BY <1>1, <1>2 DEF Inners
<1>5. InnerRight(inner')
  BY <1>2, <1>3, <1>4 DEF InnerRight
<1>6. Alive
  BY <1>1, <1>2 DEF Alive, InnerRight
<1>7. PICK c \in Nat : Flow(c)
  BY <1>6 DEF LoadingInv
<1>8. m = Len(received) + 1 /\ ChannelNumbers(t, Len(received) + 1, c)
  BY <1>2, <1>3, <1>7 DEF Flow
<1>9. /\ received' \in Seq(Nat) /\ Len(received') = Len(received) + 1 /\ Numbered(received', 0)
  <2>1. m = 0 + Len(received) + 1 /\ 0 \in Nat /\ Numbered(received, 0)
    BY <1>2, <1>8 DEF LoadingInv
  <2> QED BY <1>1, <1>2, <1>3, <2>1, NumberedIs
<1>10. Flow(c)'
  <2>1. ChannelNumbers(inner'.channel, Len(received'), c)
    BY <1>4, <1>8, <1>9
  <2> QED BY <1>1, <1>7, <2>1 DEF Flow, ChannelNumbers, Numbered, Posting
<1>11. Alive' => \E k \in Nat : Flow(k)'
  BY <1>10
<1>12. (Numbered(received, 0))' /\ (InnerRight(inner))'
  BY <1>5, <1>9 DEF Numbered, InnerRight, Inners, ChannelRight
<1>13. (OuterRight(outer))' /\ (MessagesFirst(toPage) => (MessagesFirst(toPage))')
  BY <1>1 DEF LoadingInv, OuterRight, Outers, ChannelRight, MessagesFirst
<1> QED BY <1>1, <1>9, <1>11, <1>12, <1>13 DEF LoadingInv

LEMMA LoadingStepKeeps ==
  ASSUME LoadingInv, Loading!Next
  PROVE  LoadingInv'
<1> DEFINE o == outer
<1>1. OuterRight(o) /\ o \in Outers(o.channel)
  BY DEF LoadingInv, OuterRight
<1>2. CASE Loading!StartLoading
  <2>1. /\ o.at = "idle" /\ outer' = [o EXCEPT !.at = "createDocument"] /\ document' = "opening"
        /\ UNCHANGED <<inner, toPage, toDocument, sent, received>> /\ document = "none"
    BY <1>2 DEF Loading!StartLoading, LoadingInv
  <2>2. /\ outer' \in Outers(o.channel) /\ outer'.at = "createDocument" /\ outer'.channel = o.channel
        /\ outer'.messages = o.messages /\ outer'.status = o.status /\ outer'.disposed = o.disposed
    BY <1>1, <2>1 DEF Outers
  <2>3. OuterRight(outer')
    BY <1>1, <2>2 DEF OuterRight
  <2>4. Posting(outer') <=> Posting(outer)
    BY <2>2 DEF Posting
  <2> QED BY <2>1, <2>2, <2>3, <2>4, OuterMoves
<1>3. CASE Loading!Dispose
  <2>1. /\ o.at # "idle" /\ outer' = Loading!DisposeOuter(o) /\ document' \in {document, "closed"}
        /\ UNCHANGED <<inner, toPage, toDocument, sent, received>>
    BY <1>3 DEF Loading!Dispose
  <2>2. OuterRight(outer') /\ outer'.at # "idle" /\ ~Posting(outer')
        /\ (outer'.messages = "none" => o.messages = "none")
    BY <1>1, <2>1, OuterDisposed
  <2> QED BY <2>1, <2>2, OuterMoves
<1>4. CASE Loading!DocumentCreated \/ Loading!DocumentRefused \/ Loading!StatusConnected
  <2>1. /\ UNCHANGED <<inner, toPage, toDocument, sent, received>>
        /\ document' \in {document, "closed"}
    BY <1>4 DEF Loading!DocumentCreated, Loading!DocumentRefused, Loading!StatusConnected
  <2>2. ASSUME OuterRight(outer'), outer'.at # "idle", outer'.messages = o.messages,
               outer'.channel = o.channel
        PROVE  LoadingInv'
    <3>1. Posting(outer') <=> Posting(outer)
      BY <2>2 DEF Posting
    <3> QED BY <2>1, <2>2, <3>1, OuterMoves
  <2>3. CASE outer' = Loading!Abandon(o)
    BY <1>1, <2>2, <2>3, OuterAbandoned
  <2>4. CASE outer' = [o EXCEPT !.active = TRUE, !.at = "status"]
    <3>1. /\ outer' \in Outers(o.channel) /\ outer'.at = "status" /\ outer'.channel = o.channel
          /\ outer'.messages = o.messages /\ outer'.status = o.status /\ outer'.disposed = o.disposed
      BY <1>1, <2>4 DEF Outers
    <3>2. OuterRight(outer')
      BY <1>1, <3>1 DEF OuterRight
    <3> QED BY <2>2, <3>1, <3>2
  <2>5. CASE Loading!StatusConnected /\ outer' = [o EXCEPT !.status = "taken", !.at = "loaded"]
    <3>1. /\ outer' \in Outers(o.channel) /\ outer'.at = "loaded" /\ outer'.channel = o.channel
          /\ outer'.messages = o.messages /\ outer'.status = "taken" /\ outer'.disposed = o.disposed
      BY <1>1, <2>5 DEF Outers
    <3>2. o.status # "none"
      BY <2>5 DEF Loading!StatusConnected, Loading!Resumes
    <3>3. OuterRight(outer')
      BY <1>1, <3>1, <3>2 DEF OuterRight
    <3> QED BY <2>2, <3>1, <3>3
  <2>6. CASE Loading!StatusConnected /\ outer' = Loading!Abandon([o EXCEPT !.status = "disposed"])
    <3> DEFINE x == [o EXCEPT !.status = "disposed"]
    <3>1. /\ x \in Outers(o.channel) /\ x.at = o.at /\ x.channel = o.channel
          /\ x.messages = o.messages /\ x.status = "disposed" /\ x.disposed = o.disposed
      BY <1>1 DEF Outers
    <3>2. o.status # "none"
      BY <2>6 DEF Loading!StatusConnected, Loading!Resumes
    <3> HIDE DEF x
    <3>3. OuterRight(x)
      BY <1>1, <3>1, <3>2 DEF OuterRight
    <3>4. outer' = Loading!Abandon(x)
      BY <2>6 DEF x
    <3> QED BY <2>2, <3>1, <3>3, <3>4, OuterAbandoned
  <2> QED BY <1>4, <2>3, <2>4, <2>5, <2>6
       DEF Loading!DocumentCreated, Loading!DocumentRefused, Loading!StatusConnected
<1> QED BY <1>2, <1>3, <1>4, PageHearsKeeps, PageSendsKeeps, PagePostsKeeps, DocumentStepKeeps,
           DocumentForwardsKeeps, BinaryReceivesKeeps DEF Loading!Next

\* Messages are neither reordered, repeated nor skipped: on their way to the
\* binary, through two delayed channels and the port between them, however early
\* they are sent (delayed-message-channel.js, offscreen-doc-emscripten-module.js);
\* and between the two ends of a channel pair, which are disposed of together and
\* until then deliver whatever was sent (message-channel-pair.js).
THEOREM MessagesStayInOrder == Spec => []MessagesInOrder
<1> DEFINE Inv == LoadingInv /\ PairInv
<1>1. Init => Inv
  <2> SUFFICES ASSUME Init PROVE Inv
    OBVIOUS
  <2>1. LoadingInv
    <3> DEFINE c == Loading!NewDelayed
               o == [at |-> "idle", load |-> "pending", disposed |-> FALSE, active |-> FALSE,
                     status |-> "none", messages |-> "none", channel |-> c,
                     failed |-> FALSE]
               i == [at |-> "idle", disposed |-> FALSE, binary |-> "none", channel |-> c]
    <3>1. /\ outer = o /\ inner = i /\ document = "none" /\ toPage = <<>> /\ toDocument = <<>>
          /\ sent = 0 /\ received = <<>>
      BY DEF Init, Loading!Init, Loading!NewOuter, Loading!NewInner
    <3>2. /\ ChannelRight(c) /\ ChannelNumbers(c, 0, 0) /\ c.disposed = FALSE /\ c.linked = FALSE
          /\ c.ready = FALSE
      BY ChannelStarts, ChannelFields
    <3> HIDE DEF c
    <3>3. /\ o \in Outers(c) /\ o.at = "idle" /\ o.channel = c /\ o.disposed = FALSE
          /\ o.active = FALSE /\ o.status = "none" /\ o.messages = "none"
      BY DEF Outers
    <3>4. i \in Inners(c) /\ i.at = "idle" /\ i.channel = c /\ i.disposed = FALSE
      BY DEF Inners
    <3> HIDE DEF o, i
    <3>5. OuterRight(outer) /\ InnerRight(inner)
      BY <3>1, <3>2, <3>3, <3>4 DEF OuterRight, InnerRight
    <3>6. /\ Len(<<>>) = 0 /\ DOMAIN <<>> = {} /\ 0 + 0 = 0 /\ <<>> \in Seq(Nat)
          /\ <<>> \in Seq(Events) /\ 0 \in Nat
      OBVIOUS
    <3>7. Numbered(<<>>, 0) /\ MessagesFirst(<<>>)
      BY <3>6 DEF Numbered, MessagesFirst
    <3>8. Flow(0)
      BY <3>1, <3>2, <3>3, <3>4, <3>6, <3>7 DEF Flow
    <3> QED BY <3>1, <3>3, <3>4, <3>5, <3>6, <3>7, <3>8 DEF LoadingInv
  <2>2. PairInv
    <3>1. /\ pair = [items |-> <<0, 1>>, disposed |-> FALSE] /\ items = {} /\ ticks = <<>>
          /\ itemSent = [i \in {0, 1} |-> 0] /\ delivered = [i \in {0, 1} |-> <<>>]
      BY DEF Init, Pair!Init, Pair!Items
    <3>2. /\ Len(<<>>) = 0 /\ DOMAIN <<>> = {} /\ <<>> \in Seq(Nat) /\ <<>> \in Seq(Ticks)
          /\ 0 \in Nat /\ 0 <= 0 /\ \A k \in Nat : ~(0 < k /\ k <= 0)
      OBVIOUS
    <3>3. \A i \in {0, 1} : /\ itemSent[i] = 0 /\ delivered[i] = <<>>
                            /\ 1 - i \in {0, 1} /\ delivered[1 - i] = <<>>
      BY <3>1
    <3>4. Numbered(<<>>, 0) /\ \A i \in {0, 1} : Coming(<<>>, i, 0, 0)
      BY <3>2 DEF Numbered, Coming
    <3>5. itemSent \in [{0, 1} -> Nat] /\ delivered \in [{0, 1} -> Seq(Nat)]
      BY <3>1, <3>2
    <3> QED BY <3>1, <3>2, <3>3, <3>4, <3>5 DEF PairInv
  <2> QED BY <2>1, <2>2
<1>2. Inv /\ [Next]_vars => Inv'
  <2> SUFFICES ASSUME Inv, [Next]_vars PROVE Inv'
    OBVIOUS
  <2>1. UNCHANGED loadingVars \/ Loading!Next
    BY DEF Next, vars
  <2>2. UNCHANGED pairVars \/ Pair!Next
    BY DEF Next, vars
  <2>3. LoadingInv'
    <3>1. CASE UNCHANGED loadingVars
      <4>1. (OuterRight(outer))' /\ (InnerRight(inner))'
        BY <3>1 DEF loadingVars, LoadingInv, OuterRight, InnerRight, ChannelRight, Outers, Inners
      <4>2. \A c \in Nat : Flow(c) => Flow(c)'
        BY <3>1 DEF loadingVars, Flow, Posting, ChannelNumbers, Numbered
      <4>3. /\ MessagesFirst(toPage) => (MessagesFirst(toPage))'
            /\ Numbered(received, 0) => (Numbered(received, 0))'
            /\ Alive' => Alive
        BY <3>1 DEF loadingVars, MessagesFirst, Numbered, Alive
      <4>4. Alive' => \E c \in Nat : Flow(c)'
        BY <4>2, <4>3 DEF LoadingInv
      <4> QED BY <3>1, <4>1, <4>3, <4>4 DEF loadingVars, LoadingInv
    <3> QED BY <2>1, <3>1, LoadingStepKeeps
  <2>4. PairInv'
    <3>1. CASE UNCHANGED pairVars
      BY <3>1 DEF pairVars, PairInv, Numbered, Coming
    <3> QED BY <2>2, <3>1, PairStepKeeps
  <2> QED BY <2>3, <2>4
<1>3. Inv => MessagesInOrder
  <2> SUFFICES ASSUME Inv PROVE MessagesInOrder
    OBVIOUS
  <2>1. Loading!MessagesInOrder
    <3>1. \A n \in DOMAIN received : received[n] = 0 + n /\ n \in Nat
      BY DEF LoadingInv, Numbered
    <3> QED BY <3>1 DEF Loading!MessagesInOrder
  <2>2. /\ \A i \in {0, 1} : Numbered(delivered[i], 0) /\ delivered[i] \in Seq(Nat)
        /\ items \in {{}, {0, 1}}
    BY DEF PairInv
  <2>3. ASSUME NEW i \in {0, 1}, NEW n \in 1 .. MaxSent, n \in DOMAIN delivered[i]
        PROVE  delivered[i][n] = n
    <3>1. delivered[i][n] = 0 + n /\ n \in Nat
      BY <2>2, <2>3 DEF Numbered
    <3> QED BY <3>1
  <2>4. ASSUME ticks = <<>>, items = {}, NEW i \in {0, 1}
        PROVE  Len(delivered[i]) = itemSent[1 - i]
    <3>1. 1 - i \in {0, 1} /\ 1 - (1 - i) = i
      OBVIOUS
    <3>2. Coming(<<>>, 1 - i, Len(delivered[i]), itemSent[1 - i])
      BY <2>4, <3>1 DEF PairInv
    <3>3. DOMAIN <<>> = {}
      OBVIOUS
    <3> DEFINE d == Len(delivered[i])
               l == itemSent[1 - i]
    <3>4. d \in Nat /\ l \in Nat /\ d <= l /\ ~(d < l /\ l <= l)
      BY <3>2, <3>3 DEF Coming
    <3> HIDE DEF d, l
    <3>5. d = l
      BY <3>4
    <3> QED BY <3>5 DEF d, l
  <2> QED BY <2>1, <2>2, <2>3, <2>4 DEF MessagesInOrder, Pair!PairInOrder, Pair!Items, Pair!Other
<1> QED BY <1>1, <1>2, <1>3, PTL DEF Spec

-----------------------------------------------------------------------------
\* The crash loops.
\* The indices that a filter keeps have an order.
LEMMA OrderExists ==
  ASSUME NEW n \in Nat, NEW I \in SUBSET (1 .. n)
  PROVE  \E f \in UNION {[1 .. m -> I] : m \in 0 .. n} : Crashes!InOrder(I, f)
<1> DEFINE Ordered(k, J) == \E m \in 0 .. k : \E f \in [1 .. m -> J] : Crashes!InOrder(J, f)
           T == {k \in Nat : \E J \in SUBSET (1 .. k) : ~Ordered(k, J)}
<1>1. T = {}
  <2> SUFFICES ASSUME T # {} PROVE FALSE
    OBVIOUS
  <2>1. PICK k \in T : \A j \in T : k <= j
    <3>1. T \in SUBSET Nat
      OBVIOUS
    <3> HIDE DEF T
    <3> QED BY <3>1, LeastNumber
  <2>2. k \in Nat
    BY <2>1
  <2>3. PICK J \in SUBSET (1 .. k) : ~Ordered(k, J)
    BY <2>1
  <2>4. ASSUME NEW K \in SUBSET (1 .. k - 1), k # 0
        PROVE  \E m \in 0 .. k - 1 : \E f \in [1 .. m -> K] : Crashes!InOrder(K, f)
    <3>1. k - 1 \in Nat /\ ~(k <= k - 1)
      BY <2>2, <2>4
    <3>2. k - 1 \notin T
      <4> HIDE DEF T
      <4> QED BY <2>1, <3>1
    <3> QED BY <3>1, <3>2, <2>4
  <2> HIDE DEF T
  <2>5. CASE J = {}
    <3>1. [i \in 1 .. 0 |-> i] \in [1 .. 0 -> J] /\ 0 \in 0 .. k
      BY <2>2
    <3>2. Crashes!InOrder(J, [i \in 1 .. 0 |-> i])
      BY <2>5 DEF Crashes!InOrder
    <3> QED BY <2>3, <3>1, <3>2
  <2>6. CASE k \notin J /\ J # {}
    <3>1. J \in SUBSET (1 .. k - 1) /\ k # 0
      <4>1. PICK j \in J : TRUE
        BY <2>6
      <4>2. k # 0
        BY <2>2, <4>1
      <4>3. \A i \in J : i \in 1 .. k - 1
        <5> SUFFICES ASSUME NEW i \in J PROVE i \in 1 .. k - 1
          OBVIOUS
        <5>1. i \in 1 .. k /\ i # k
          BY <2>6
        <5> QED BY <2>2, <5>1
      <4> QED BY <4>2, <4>3
    <3>2. PICK m \in 0 .. k - 1 : \E f \in [1 .. m -> J] : Crashes!InOrder(J, f)
      BY <2>4, <3>1
    <3>3. m \in 0 .. k
      BY <2>2, <3>2
    <3> QED BY <2>3, <3>2, <3>3
  <2>7. CASE k \in J
    <3> DEFINE K == J \ {k}
    <3>1. K \in SUBSET (1 .. k - 1) /\ k # 0
      BY <2>2, <2>7
    <3>2. PICK m \in 0 .. k - 1 : \E f \in [1 .. m -> K] : Crashes!InOrder(K, f)
      BY <2>4, <3>1
    <3>3. PICK f \in [1 .. m -> K] : Crashes!InOrder(K, f)
      BY <3>2
    <3> DEFINE g == [a \in 1 .. m + 1 |-> IF a = m + 1 THEN k ELSE f[a]]
    <3>4. /\ m \in Nat /\ m + 1 \in 0 .. k /\ m + 1 \in 1 .. m + 1
          /\ \A a \in 1 .. m : a \in 1 .. m + 1 /\ a # m + 1 /\ a \in Nat
          /\ \A a \in 1 .. m + 1 : a = m + 1 \/ a \in 1 .. m
          /\ \A a \in 1 .. m + 1 : ~(m + 1 < a)
      BY <2>2, <3>1, <3>2
    <3>5. /\ \A a \in 1 .. m : f[a] \in K /\ g[a] = f[a] /\ f[a] < k
          /\ g[m + 1] = k /\ DOMAIN g = 1 .. m + 1 /\ DOMAIN f = 1 .. m
      <4>1. g[m + 1] = k /\ DOMAIN g = 1 .. m + 1
        BY <3>4
      <4>2. \A a \in 1 .. m : g[a] = f[a]
        BY <3>4
      <4> HIDE DEF g, K
      <4>3. \A a \in 1 .. m : f[a] \in K /\ DOMAIN f = 1 .. m
        BY <3>3
      <4>4. DOMAIN f = 1 .. m
        BY <3>3
      <4>5. \A i \in K : i < k
        BY <2>2, <3>1
      <4> QED BY <4>1, <4>2, <4>3, <4>4, <4>5
    <3>6. g \in [1 .. m + 1 -> J]
      BY <2>7, <3>3, <3>4, <3>5
    <3> HIDE DEF g
    <3>7. {g[a] : a \in DOMAIN g} = J
      <4>1. ASSUME NEW j \in J PROVE \E a \in DOMAIN g : g[a] = j
        <5>1. CASE j = k
          BY <3>4, <3>5, <5>1
        <5>2. CASE j # k
          <6>1. PICK a \in DOMAIN f : f[a] = j
            BY <3>3, <5>2 DEF Crashes!InOrder
          <6> QED BY <3>4, <3>5, <6>1
        <5> QED BY <5>1, <5>2
      <4>2. \A a \in DOMAIN g : g[a] \in J
        BY <3>5, <3>6
      <4> QED BY <4>1, <4>2
    <3>8. \A a, b \in DOMAIN g : a < b => g[a] < g[b]
      <4> SUFFICES ASSUME NEW a \in DOMAIN g, NEW b \in DOMAIN g, a < b PROVE g[a] < g[b]
        OBVIOUS
      <4>1. a \in 1 .. m
        BY <3>4, <3>5
      <4>2. CASE b = m + 1
        BY <3>5, <4>1, <4>2
      <4>3. CASE b \in 1 .. m
        <5>1. f[a] < f[b]
          BY <3>3, <3>5, <4>1, <4>3 DEF Crashes!InOrder
        <5> QED BY <3>5, <4>1, <4>3, <5>1
      <4> QED BY <3>4, <3>5, <4>2, <4>3
    <3>9. Crashes!InOrder(J, g)
      BY <3>7, <3>8 DEF Crashes!InOrder
    <3> QED BY <2>3, <3>4, <3>6, <3>9
  <2> QED BY <2>5, <2>6, <2>7
<1>2. Ordered(n, I)
  BY <1>1
<1> QED BY <1>2

\* A filter keeps elements of the sequence, the last one in its place, and two
\* that it is to keep as two.
LEMMA FilterIs ==
  ASSUME NEW S, NEW s \in Seq(S), NEW I \in SUBSET DOMAIN s
  PROVE  LET k == Crashes!Filter(s, I)
         IN /\ k \in Seq(S) /\ \A a \in DOMAIN k : \E i \in I : k[a] = s[i]
            /\ Len(s) \in I => k # <<>> /\ k[Len(k)] = s[Len(s)]
            /\ Len(s) \in I /\ Len(s) - 1 \in I => Len(k) > 1
<1> DEFINE order == CHOOSE f \in UNION {[1 .. n -> I] : n \in 0 .. Len(s)} : Crashes!InOrder(I, f)
           k == Crashes!Filter(s, I)
<1>1. Len(s) \in Nat /\ DOMAIN s = 1 .. Len(s)
  OBVIOUS
<1>2. order \in UNION {[1 .. n -> I] : n \in 0 .. Len(s)} /\ Crashes!InOrder(I, order)
  BY <1>1, OrderExists
<1>3. k = [a \in DOMAIN order |-> s[order[a]]]
  BY DEF Crashes!Filter
<1> HIDE DEF order, k
<1>4. PICK m \in 0 .. Len(s) : order \in [1 .. m -> I]
  BY <1>2
<1>5. m \in Nat /\ DOMAIN order = 1 .. m /\ \A a \in 1 .. m : order[a] \in I /\ order[a] \in DOMAIN s
  BY <1>1, <1>4
<1>6. k \in Seq(S) /\ Len(k) = m /\ DOMAIN k = 1 .. m
  BY <1>3, <1>5
<1>7. \A a \in 1 .. m : k[a] = s[order[a]]
  BY <1>3, <1>5
<1>8. ASSUME NEW i \in I PROVE \E a \in 1 .. m : order[a] = i
  BY <1>2, <1>5 DEF Crashes!InOrder
<1>9. ASSUME Len(s) \in I PROVE k # <<>> /\ k[Len(k)] = s[Len(s)]
  <2>1. PICK a \in 1 .. m : order[a] = Len(s)
    BY <1>8, <1>9
  <2>2. a = m
    <3> SUFFICES ASSUME a # m PROVE FALSE
      OBVIOUS
    <3>1. m \in 1 .. m /\ a < m
      BY <1>5, <2>1
    <3>2. order[a] < order[m]
      BY <1>2, <1>5, <3>1 DEF Crashes!InOrder
    <3>3. order[m] <= Len(s) /\ order[m] \in Nat
      BY <1>1, <1>5, <3>1
    <3> QED BY <1>1, <2>1, <3>2, <3>3
  <2>3. m \in 1 .. m /\ Len(k) # 0 /\ Len(<<>>) = 0
    BY <1>6, <2>2
  <2> QED BY <1>6, <1>7, <2>1, <2>2, <2>3
<1>10. ASSUME Len(s) \in I, Len(s) - 1 \in I PROVE Len(k) > 1
  <2>1. PICK a \in 1 .. m : order[a] = Len(s)
    BY <1>8, <1>10
  <2>2. PICK b \in 1 .. m : order[b] = Len(s) - 1
    BY <1>8, <1>10
  <2>3. a # b
    BY <1>1, <2>1, <2>2
  <2> QED BY <1>5, <1>6, <2>3
<1> QED BY <1>5, <1>6, <1>7, <1>9, <1>10 DEF k

\* Last: the end of a sequence, at most n elements of it.
LEMMA LastIs ==
  ASSUME NEW S, NEW s \in Seq(S), NEW n \in Nat, n <= Len(s)
  PROVE  /\ Crashes!Last(s, n) \in Seq(S) /\ Len(Crashes!Last(s, n)) = n
         /\ \A i \in 1 .. n : Crashes!Last(s, n)[i] = s[Len(s) - n + i]
<1> DEFINE m == Len(s)
<1>1. m \in Nat
  OBVIOUS
<1>2. (IF n < m THEN n ELSE m) = n
  BY <1>1
<1>3. Crashes!Last(s, n) = SubSeq(s, m - n + 1, m)
  BY <1>2 DEF Crashes!Last
<1>4. m - n + 1 \in 1 .. m + 1 /\ m - n + 1 \in Int /\ m - (m - n + 1) + 1 = n
  BY <1>1
<1>5. \A i \in 1 .. n : m - n + i \in DOMAIN s
  BY <1>1
<1>6. SubSeq(s, m - n + 1, m) = [i \in 1 .. n |-> s[m - n + i]]
  BY <1>1, <1>4, <1>5
<1>7. \A i \in 1 .. n : s[m - n + i] \in S
  BY <1>5
<1> HIDE DEF m
<1> QED BY <1>3, <1>6, <1>7 DEF m

\* What a page stores at time t: t after what it has read of the window.  Of the
\* last two crashes before it, one that is left out has left the window, and
\* both of them with t make a loop.
UpTo(s, t) == \A i \in DOMAIN s : s[i] <= t /\ s[i] <= s[Len(s)]
LEMMA NewIs ==
  ASSUME NEW s \in Seq(Nat), NEW t \in Nat, Window \in Nat
  PROVE  LET new == Crashes!NewCrashTimestamps(s, t)
         IN /\ new \in Seq(Nat) /\ Len(new) >= 1 /\ new[Len(new)] = t
            /\ UpTo(s, t) =>
                 /\ \A i \in DOMAIN new : new[i] <= t
                 /\ Len(s) > 0 => \/ s[Len(s)] + Window < t
                                  \/ Len(new) > 1 /\ new[Len(new) - 1] = s[Len(s)]
                 /\ Len(s) > 1 => s[Len(s) - 1] + Window < t \/ Len(new) >= 3
<1> DEFINE I == {i \in DOMAIN s : t - Window <= s[i] /\ s[i] <= t}
           k == Crashes!Filter(s, I)
           x == IF Len(k) >= 3 THEN Crashes!Last(k, 2) ELSE k
           new == Crashes!NewCrashTimestamps(s, t)
<1>1. I \in SUBSET DOMAIN s
  OBVIOUS
<1>2. new = Append(x, t)
  BY DEF Crashes!NewCrashTimestamps, Crashes!CRASH_LOOP_THRESHOLD_COUNT
<1>3. \A i \in I : i \in DOMAIN s /\ t - Window <= s[i] /\ s[i] <= t
  OBVIOUS
<1>4. \A i \in DOMAIN s : t - Window <= s[i] /\ s[i] <= t => i \in I
  OBVIOUS
<1> HIDE DEF I, new
<1>5. /\ k \in Seq(Nat) /\ \A a \in DOMAIN k : \E i \in I : k[a] = s[i]
      /\ Len(s) \in I => k # <<>> /\ k[Len(k)] = s[Len(s)]
      /\ Len(s) \in I /\ Len(s) - 1 \in I => Len(k) > 1
  BY <1>1, FilterIs
<1> HIDE DEF k
<1>6. Len(k) \in Nat /\ DOMAIN k = 1 .. Len(k) /\ (k # <<>> => Len(k) > 0)
  BY <1>5
<1>7. /\ x \in Seq(Nat) /\ \A a \in DOMAIN x : \E b \in DOMAIN k : x[a] = k[b]
      /\ Len(k) > 0 => Len(x) > 0 /\ x[Len(x)] = k[Len(k)]
      /\ Len(k) > 1 => Len(x) > 1
  <2>1. CASE Len(k) >= 3
    <3>1. x = Crashes!Last(k, 2)
      BY <2>1
    <3>2. 2 \in Nat /\ 2 <= Len(k)
      BY <1>6, <2>1
    <3>3. /\ Crashes!Last(k, 2) \in Seq(Nat) /\ Len(Crashes!Last(k, 2)) = 2
          /\ \A i \in 1 .. 2 : Crashes!Last(k, 2)[i] = k[Len(k) - 2 + i]
      BY <1>5, <3>2, LastIs
    <3>4. x \in Seq(Nat) /\ Len(x) = 2 /\ DOMAIN x = 1 .. 2
      BY <3>1, <3>3
    <3>5. \A i \in 1 .. 2 : x[i] = k[Len(k) - 2 + i] /\ Len(k) - 2 + i \in DOMAIN k
      BY <1>6, <2>1, <3>1, <3>3
    <3>6. 2 \in 1 .. 2 /\ Len(k) - 2 + 2 = Len(k)
      BY <1>6
    <3> HIDE DEF x
    <3>7. x[2] = k[Len(k)]
      BY <3>5, <3>6
    <3>8. \A a \in 1 .. 2 : \E b \in DOMAIN k : x[a] = k[b]
      BY <3>5
    <3>9. Len(x) > 0 /\ Len(x) > 1
      BY <3>4
    <3> QED BY <3>4, <3>7, <3>8, <3>9
  <2>2. CASE ~(Len(k) >= 3)
    <3>1. x = k
      BY <2>2
    <3> HIDE DEF x
    <3> QED BY <1>5, <1>6, <3>1
  <2> QED BY <2>1, <2>2
<1> HIDE DEF x
<1>8. Len(x) \in Nat /\ DOMAIN x = 1 .. Len(x)
  BY <1>7
<1>9. /\ new \in Seq(Nat) /\ Len(new) = Len(x) + 1 /\ new[Len(x) + 1] = t
      /\ \A a \in 1 .. Len(x) : new[a] = x[a]
  BY <1>2, <1>7
<1>10. DOMAIN new = 1 .. Len(new) /\ Len(new) >= 1 /\ new[Len(new)] = t
  BY <1>8, <1>9
<1>11. ASSUME UpTo(s, t), NEW a \in DOMAIN new PROVE new[a] <= t
  <2>1. CASE a = Len(x) + 1
    BY <1>9, <2>1
  <2>2. CASE a \in 1 .. Len(x)
    <3>1. PICK b \in DOMAIN k : x[a] = k[b]
      BY <1>7, <1>8, <2>2
    <3>2. PICK i \in I : k[b] = s[i]
      BY <1>5
    <3> QED BY <1>3, <1>9, <2>2, <3>1, <3>2
  <2> QED BY <1>8, <1>9, <1>10, <2>1, <2>2
<1>12. ASSUME UpTo(s, t), Len(s) > 0, ~(s[Len(s)] + Window < t)
       PROVE  Len(s) \in I /\ Len(new) > 1 /\ new[Len(new) - 1] = s[Len(s)]
  <2>1. Len(s) \in Nat /\ Len(s) \in DOMAIN s
    BY <1>12
  <2>2. s[Len(s)] \in Nat /\ s[Len(s)] <= t
    BY <1>12, <2>1 DEF UpTo
  <2>3. t - Window <= s[Len(s)]
    BY <1>12, <2>2
  <2>4. Len(s) \in I
    BY <1>4, <2>1, <2>2, <2>3
  <2>5. Len(k) > 0 /\ k[Len(k)] = s[Len(s)]
    BY <1>5, <1>6, <2>4
  <2>6. Len(x) > 0 /\ x[Len(x)] = s[Len(s)]
    BY <1>7, <2>5
  <2>7. Len(new) > 1 /\ Len(new) - 1 = Len(x) /\ Len(x) \in 1 .. Len(x)
    BY <1>8, <1>9, <2>6
  <2> QED BY <1>9, <2>4, <2>6, <2>7
<1>13. ASSUME UpTo(s, t), Len(s) > 1, ~(s[Len(s) - 1] + Window < t)
       PROVE  Len(new) >= 3
  <2>1. Len(s) \in Nat /\ Len(s) - 1 \in DOMAIN s /\ Len(s) \in DOMAIN s
    BY <1>13
  <2>2. /\ s[Len(s) - 1] \in Nat /\ s[Len(s) - 1] <= t /\ s[Len(s)] \in Nat
        /\ s[Len(s) - 1] <= s[Len(s)]
    BY <1>13, <2>1 DEF UpTo
  <2>3. t - Window <= s[Len(s) - 1] /\ ~(s[Len(s)] + Window < t)
    BY <1>13, <2>2
  <2>4. Len(s) - 1 \in I
    BY <1>4, <2>1, <2>2, <2>3
  <2>5. Len(s) > 0
    BY <1>13, <2>1
  <2>6. Len(s) \in I
    BY <1>12, <1>13, <2>3, <2>5
  <2>7. Len(x) > 1
    BY <1>5, <1>7, <2>4, <2>6
  <2> QED BY <1>8, <1>9, <2>7
<1> QED BY <1>9, <1>10, <1>11, <1>12, <1>13 DEF new

-----------------------------------------------------------------------------
\* Reloads.
\* A crash c has left the window, or the n-th crash from the end of s is no older.
Behind(s, n, c) ==
  \/ c + Window < now
  \/ Len(s) > n /\ s[Len(s) - n] >= c

\* What has been read or stored knows of the last two reloads.
Covers(s) ==
  /\ UpTo(s, now)
  /\ Len(reloads) >= 1 => Behind(s, 0, reloads[Len(reloads)])
  /\ Len(reloads) >= 2 => Behind(s, 1, reloads[Len(reloads) - 1])

\* A page that stored s may reload: its crash, the last one of s, is the third
\* in the window or comes after the window of the last reload but one.
MayReload(s) ==
  /\ s[Len(s)] <= now
  /\ storage.timestamps # <<>>
  /\ s[Len(s)] <= storage.timestamps[Len(storage.timestamps)]
  /\ Len(reloads) >= 1 =>
       /\ reloads[Len(reloads)] <= s[Len(s)]
       /\ Behind(storage.timestamps, 1, reloads[Len(reloads)])
  /\ Len(reloads) >= 2 /\ Len(s) < 3 => reloads[Len(reloads) - 1] + Window < s[Len(s)]

Crashing == [at : {"running", "loading", "loaded", "stored", "defunct"}, timestamps : Seq(Nat)]
CrashTypes ==
  /\ crash \in [Pages -> Crashing] /\ storage \in [works : BOOLEAN, timestamps : Seq(Nat)]
  /\ now \in Nat /\ reloads \in Seq(Nat)
  /\ \A p \in Pages : crash[p].at = "stored" => crash[p].timestamps # <<>>
CrashesKnown ==
  /\ Len(reloads) >= 1 => reloads[Len(reloads)] <= now
  /\ Len(reloads) >= 2 => reloads[Len(reloads) - 1] <= reloads[Len(reloads)]
  /\ Covers(storage.timestamps)
  /\ \A p \in Pages :
       /\ crash[p].at = "loaded" => Covers(crash[p].timestamps)
       /\ crash[p].at = "stored" => MayReload(crash[p].timestamps)
CrashInv ==
  /\ CrashTypes
  /\ storage.works => CrashesKnown
  /\ Crashes!NoReloadLoop

\* A page that stops handling its crash, or has not read anything yet, knows
\* nothing that the others depend on.
LEMMA CrashIdles ==
  ASSUME CrashInv, UNCHANGED <<storage, now, reloads>>, NEW p \in Pages, NEW c \in Crashing,
         c.at \notin {"loaded", "stored"}, crash' = [crash EXCEPT ![p] = c]
  PROVE  CrashInv'
<1>1. CrashTypes'
  BY DEF CrashInv, CrashTypes
<1>2. Crashes!NoReloadLoop'
  BY DEF CrashInv, Crashes!NoReloadLoop
<1>3. \A q \in Pages : crash'[q] = crash[q] \/ crash'[q] = c
  BY DEF CrashInv, CrashTypes
<1>4. ASSUME storage.works PROVE CrashesKnown'
  <2>1. CrashesKnown
    BY <1>4 DEF CrashInv
  <2>2. \A s : Covers(s)' <=> Covers(s)
    BY DEF Covers, Behind
  <2> QED BY <1>3, <2>1 DEF CrashesKnown, Covers, MayReload, Behind
<1> QED BY <1>1, <1>2, <1>4 DEF CrashInv

LEMMA CrashLoads ==
  ASSUME CrashInv, NEW p \in Pages, Crashes!LoadRecentCrashTimestamps(p)
  PROVE  CrashInv'
<1> DEFINE s == IF storage.works THEN storage.timestamps ELSE <<>>
           c == [at |-> "loaded", timestamps |-> s]
<1>1. s \in Seq(Nat)
  BY DEF CrashInv, CrashTypes
<1>2. crash' = [crash EXCEPT ![p] = c] /\ UNCHANGED <<storage, now, reloads>>
  BY DEF Crashes!LoadRecentCrashTimestamps, Crashes!Promisify, CrashInv, CrashTypes
<1>3. c \in Crashing /\ c.at = "loaded" /\ c.timestamps = s /\ (storage.works => s = storage.timestamps)
  BY <1>1 DEF Crashing
<1> HIDE DEF c, s
<1>4. CrashTypes'
  BY <1>2, <1>3 DEF CrashInv, CrashTypes
<1>5. Crashes!NoReloadLoop'
  BY <1>2 DEF CrashInv, Crashes!NoReloadLoop
<1>6. \A q \in Pages : crash'[q] = crash[q] \/ crash'[q] = c
  BY <1>2 DEF CrashInv, CrashTypes
<1>7. ASSUME storage.works PROVE CrashesKnown'
  <2>1. CrashesKnown
    BY <1>7 DEF CrashInv
  <2> QED BY <1>2, <1>3, <1>6, <1>7, <2>1 DEF CrashesKnown, Covers, MayReload, Behind
<1> QED BY <1>2, <1>4, <1>5, <1>7 DEF CrashInv

LEMMA CrashTicks ==
  ASSUME CrashInv, Crashes!Tick PROVE CrashInv'
<1>1. now' = now + 1 /\ UNCHANGED <<crash, storage, reloads>> /\ now \in Nat /\ reloads \in Seq(Nat)
  BY DEF Crashes!Tick, CrashInv, CrashTypes
<1>2. CrashTypes'
  BY <1>1 DEF CrashInv, CrashTypes
<1>3. Crashes!NoReloadLoop'
  BY <1>1 DEF CrashInv, Crashes!NoReloadLoop
<1>4. ASSUME storage.works PROVE CrashesKnown'
  <2>1. CrashesKnown
    BY <1>4 DEF CrashInv
  <2>2. ASSUME NEW c \in Nat, NEW s, NEW n PROVE Behind(s, n, c) => Behind(s, n, c)'
    <3>1. Window \in Nat
      BY ComponentsAssumption DEF Crashes!CrashAssumption
    <3> QED BY <1>1, <3>1 DEF Behind
  <2>3. ASSUME NEW s \in Seq(Nat), UpTo(s, now) PROVE UpTo(s, now')
    BY <1>1, <2>3 DEF UpTo
  <2>4. /\ Len(reloads) >= 1 => reloads[Len(reloads)] \in Nat
        /\ Len(reloads) >= 2 => reloads[Len(reloads) - 1] \in Nat
    BY <1>1
  <2>5. ASSUME NEW s \in Seq(Nat), Covers(s) PROVE Covers(s)'
    BY <1>1, <2>2, <2>3, <2>4, <2>5 DEF Covers
  <2>6. storage.timestamps \in Seq(Nat) /\ \A p \in Pages : crash[p].timestamps \in Seq(Nat)
    BY DEF CrashInv, CrashTypes, Crashing
  <2>7. ASSUME NEW s \in Seq(Nat), s # <<>>, MayReload(s) PROVE MayReload(s)'
    <3>1. s[Len(s)] \in Nat
      BY <2>7
    <3>2. s[Len(s)] <= now'
      BY <1>1, <2>7, <3>1 DEF MayReload
    <3> QED BY <1>1, <2>2, <2>4, <2>7, <3>2 DEF MayReload
  <2>8. /\ Len(reloads) >= 1 => reloads[Len(reloads)] <= now'
        /\ Len(reloads) >= 2 => reloads[Len(reloads) - 1] <= reloads[Len(reloads)]
    BY <1>1, <2>1, <2>4 DEF CrashesKnown
  <2>9. Covers(storage.timestamps)'
    BY <1>1, <2>1, <2>5, <2>6 DEF CrashesKnown
  <2>10. ASSUME NEW p \in Pages
         PROVE  /\ crash[p].at = "loaded" => Covers(crash[p].timestamps)'
                /\ crash[p].at = "stored" => MayReload(crash[p].timestamps)'
    BY <1>1, <2>1, <2>5, <2>6, <2>7 DEF CrashesKnown, CrashInv, CrashTypes
  <2> QED BY <1>1, <2>8, <2>9, <2>10 DEF CrashesKnown
<1> QED BY <1>1, <1>2, <1>3, <1>4 DEF CrashInv

LEMMA CrashStores ==
  ASSUME CrashInv, NEW p \in Pages, Crashes!StoreNewCrashTimestamps(p)
  PROVE  CrashInv'
<1> DEFINE s == crash[p].timestamps
           new == Crashes!NewCrashTimestamps(s, now)
           c == [at |-> "stored", timestamps |-> new]
           last == reloads[Len(reloads)]
           before == reloads[Len(reloads) - 1]
<1>1. /\ crash[p].at = "loaded" /\ UNCHANGED <<now, reloads>>
      /\ crash' = [crash EXCEPT ![p] = c]
      /\ storage' = IF storage.works THEN [storage EXCEPT !.timestamps = new] ELSE storage
  BY DEF Crashes!StoreNewCrashTimestamps
<1>2. /\ s \in Seq(Nat) /\ now \in Nat /\ reloads \in Seq(Nat) /\ Window \in Nat
      /\ crash \in [Pages -> Crashing] /\ storage \in [works : BOOLEAN, timestamps : Seq(Nat)]
  BY ComponentsAssumption DEF Crashes!CrashAssumption, CrashInv, CrashTypes, Crashing
<1> HIDE DEF s, new, c
<1>3. /\ new \in Seq(Nat) /\ Len(new) >= 1 /\ new[Len(new)] = now
      /\ UpTo(s, now) =>
           /\ \A i \in DOMAIN new : new[i] <= now
           /\ Len(s) > 0 => \/ s[Len(s)] + Window < now
                            \/ Len(new) > 1 /\ new[Len(new) - 1] = s[Len(s)]
           /\ Len(s) > 1 => s[Len(s) - 1] + Window < now \/ Len(new) >= 3
  BY <1>2, NewIs DEF new
<1>4. c \in Crashing /\ c.at = "stored" /\ c.timestamps = new
  BY <1>3 DEF c, Crashing
<1>5. CrashTypes'
  <2>1. Len(<<>>) = 0 /\ new # <<>>
    BY <1>3
  <2>2. \A q \in Pages : crash[q].at = "stored" => crash[q].timestamps # <<>>
    BY DEF CrashInv, CrashTypes
  <2>3. crash' \in [Pages -> Crashing] /\ storage' \in [works : BOOLEAN, timestamps : Seq(Nat)]
    BY <1>1, <1>2, <1>3, <1>4
  <2>4. \A q \in Pages : crash'[q].at = "stored" => crash'[q].timestamps # <<>>
    BY <1>1, <1>2, <1>4, <2>1, <2>2
  <2> QED BY <1>1, <1>2, <2>3, <2>4 DEF CrashTypes
<1>6. Crashes!NoReloadLoop'
  <2>1. storage'.works = storage.works
    BY <1>1, <1>2
  <2> QED BY <1>1, <2>1 DEF CrashInv, Crashes!NoReloadLoop
<1>7. \A q \in Pages : crash'[q] = crash[q] \/ crash'[q] = c
  BY <1>1, <1>2
<1>8. ASSUME storage.works PROVE CrashesKnown'
  <2>1. CrashesKnown
    BY <1>8 DEF CrashInv
  <2>2. storage'.timestamps = new
    BY <1>1, <1>2, <1>8
  <2>3. Covers(s)
    BY <1>1, <2>1 DEF CrashesKnown, s
  <2>4. /\ Len(reloads) >= 1 => last \in Nat /\ last <= now
        /\ Len(reloads) >= 2 => before \in Nat /\ before <= last
    <3>1. Len(reloads) >= 1 => last \in Nat
      BY <1>2
    <3>2. Len(reloads) >= 2 => before \in Nat
      BY <1>2
    <3> QED BY <2>1, <3>1, <3>2 DEF CrashesKnown
  <2>5. /\ Len(reloads) >= 1 => last + Window < now \/ (Len(s) > 0 /\ s[Len(s)] >= last)
        /\ Len(reloads) >= 2 => before + Window < now \/ (Len(s) > 1 /\ s[Len(s) - 1] >= before)
    <3>1. Len(s) - 0 = Len(s)
      BY <1>2
    <3> QED BY <2>3, <3>1 DEF Covers, Behind
  <2>6. UpTo(s, now)
    BY <2>3 DEF Covers
  <2>7. Len(new) \in Nat /\ Len(new) - 0 = Len(new) /\ DOMAIN new = 1 .. Len(new)
    BY <1>3
  <2> HIDE DEF last, before
  <2>8. ASSUME NEW r \in Nat, r <= now, r + Window < now \/ (Len(s) > 0 /\ s[Len(s)] >= r)
        PROVE  Behind(new, 0, r) /\ Behind(new, 1, r)
    <3>1. Behind(new, 0, r)
      BY <1>3, <2>7, <2>8 DEF Behind
    <3>2. CASE r + Window < now
      BY <3>2 DEF Behind
    <3>3. CASE Len(s) > 0 /\ s[Len(s)] >= r
      <4>1. Len(s) \in DOMAIN s
        BY <1>2, <3>3
      <4>2. s[Len(s)] \in Nat
        BY <1>2, <4>1
      <4>3. CASE s[Len(s)] + Window < now
        BY <1>2, <3>3, <4>2, <4>3 DEF Behind
      <4>4. CASE Len(new) > 1 /\ new[Len(new) - 1] = s[Len(s)]
        BY <3>1, <3>3, <4>4 DEF Behind
      <4> QED BY <1>3, <2>6, <3>3, <4>3, <4>4
    <3> QED BY <2>8, <3>1, <3>2, <3>3
  <2>9. Len(reloads) >= 2 => before <= now /\ (before + Window < now \/ (Len(s) > 0 /\ s[Len(s)] >= before))
    <3> SUFFICES ASSUME Len(reloads) >= 2
                 PROVE before <= now /\ (before + Window < now \/ (Len(s) > 0 /\ s[Len(s)] >= before))
      OBVIOUS
    <3>1. Len(reloads) >= 1
      BY <1>2
    <3>2. before \in Nat /\ last \in Nat /\ before <= last /\ last <= now
      BY <2>4, <3>1
    <3>3. CASE last + Window < now
      BY <1>2, <3>2, <3>3
    <3>4. CASE Len(s) > 0 /\ s[Len(s)] >= last
      <4>1. Len(s) \in DOMAIN s
        BY <1>2, <3>4
      <4>2. s[Len(s)] \in Nat
        BY <1>2, <4>1
      <4> QED BY <1>2, <3>2, <3>4, <4>2
    <3> QED BY <2>5, <3>1, <3>3, <3>4
  <2>10. Covers(new)
    <3>1. UpTo(new, now)
      BY <1>3, <2>6 DEF UpTo
    <3>2. Len(reloads) >= 1 => Behind(new, 0, last)
      BY <2>4, <2>5, <2>8
    <3>3. Len(reloads) >= 2 => Behind(new, 1, before)
      BY <2>4, <2>8, <2>9
    <3> QED BY <3>1, <3>2, <3>3 DEF Covers, last, before
  <2>11. Len(reloads) >= 1 => Behind(new, 1, last)
    BY <2>4, <2>5, <2>8
  <2>12. Len(reloads) >= 2 /\ Len(new) < 3 => before + Window < now
    <3> SUFFICES ASSUME Len(reloads) >= 2, Len(new) < 3, ~(before + Window < now) PROVE FALSE
      BY <1>2, <2>4
    <3>1. Len(s) > 1 /\ s[Len(s) - 1] >= before
      BY <2>5
    <3>2. Len(s) - 1 \in DOMAIN s
      BY <1>2, <3>1
    <3> DEFINE v == s[Len(s) - 1]
    <3>3. v \in Nat /\ v >= before
      BY <1>2, <3>1, <3>2
    <3>6. before \in Nat
      BY <2>4
    <3>4. v + Window < now
      BY <1>3, <2>6, <2>7, <3>1
    <3> HIDE DEF v
    <3>5. before + Window < now
      BY <1>2, <3>3, <3>4, <3>6
    <3> QED BY <3>5
  <2>13. new # <<>> /\ new[Len(new)] <= now
    <3>1. Len(<<>>) = 0
      OBVIOUS
    <3>2. now <= now
      BY <1>2
    <3> QED BY <1>3, <2>7, <3>1, <3>2
  <2>14. ASSUME NEW q \in Pages, (crash[q].at = "loaded")' PROVE Covers(crash[q].timestamps)'
    <3>1. crash'[q] = crash[q]
      BY <1>4, <1>7, <2>14
    <3>2. Covers(crash[q].timestamps)
      BY <2>1, <2>14, <3>1 DEF CrashesKnown
    <3> QED BY <1>1, <3>1, <3>2 DEF Covers, Behind
  <2>15. ASSUME NEW q \in Pages, (crash[q].at = "stored")' PROVE MayReload(crash[q].timestamps)'
    <3> DEFINE z == crash'[q].timestamps
    <3>1. /\ z[Len(z)] <= now
          /\ Len(reloads) >= 1 => last <= z[Len(z)]
          /\ Len(reloads) >= 2 /\ Len(z) < 3 => before + Window < z[Len(z)]
      <4>1. CASE crash'[q] = crash[q]
        BY <2>1, <2>15, <4>1 DEF CrashesKnown, MayReload, last, before
      <4>2. CASE crash'[q] = c
        <5>1. z = new
          BY <1>4, <4>2
        <5> HIDE DEF z
        <5> QED BY <1>3, <2>4, <2>12, <2>13, <5>1
      <4> QED BY <1>7, <4>1, <4>2
    <3>2. new[Len(new)] = now
      BY <1>3
    <3> QED BY <1>1, <2>2, <2>11, <2>13, <3>1, <3>2 DEF MayReload, last, before, Behind
  <2>16. /\ Len(reloads) >= 1 => reloads[Len(reloads)] <= now
         /\ Len(reloads) >= 2 => reloads[Len(reloads) - 1] <= reloads[Len(reloads)]
    BY <2>1 DEF CrashesKnown
  <2>17. Covers(storage.timestamps)'
    BY <1>1, <2>2, <2>10 DEF Covers, Behind
  <2> QED BY <1>1, <2>14, <2>15, <2>16, <2>17 DEF CrashesKnown
<1>9. storage'.works = storage.works
  BY <1>1, <1>2
<1> QED BY <1>5, <1>6, <1>8, <1>9 DEF CrashInv

LEMMA CrashReloads ==
  ASSUME CrashInv, NEW p \in Pages, Crashes!ReloadApp(p)
  PROVE  CrashInv'
<1> DEFINE s == crash[p].timestamps
           K == Len(reloads)
           t == s[Len(s)]
<1>1. /\ crash[p].at = "stored" /\ Len(s) < 3 /\ UNCHANGED <<storage, now>>
      /\ reloads' = Append(reloads, Crashes!Last(s, 1)[1])
      /\ crash' = [q \in Pages |-> Crashes!NotCrashing]
  BY DEF Crashes!ReloadApp, Crashes!CRASH_LOOP_THRESHOLD_COUNT
<1>2. /\ s \in Seq(Nat) /\ s # <<>> /\ now \in Nat /\ reloads \in Seq(Nat) /\ Window \in Nat
      /\ storage \in [works : BOOLEAN, timestamps : Seq(Nat)]
  BY <1>1, ComponentsAssumption DEF Crashes!CrashAssumption, CrashInv, CrashTypes, Crashing
<1>3. t \in Nat /\ reloads' = Append(reloads, t)
  <2>1. 1 <= Len(s) /\ 1 \in 1 .. 1 /\ Len(s) - 1 + 1 = Len(s) /\ Len(s) \in DOMAIN s /\ 1 \in Nat
    BY <1>2
  <2>2. Crashes!Last(s, 1)[1] = s[Len(s) - 1 + 1]
    <3> HIDE DEF s
    <3> QED BY <1>2, <2>1, LastIs
  <2> QED BY <1>1, <1>2, <2>1, <2>2
<1>4. Crashes!NotCrashing \in Crashing /\ Crashes!NotCrashing.at = "running"
  BY DEF Crashes!NotCrashing, Crashing
<1> HIDE DEF s, t
<1>5. CrashTypes'
  BY <1>1, <1>2, <1>3, <1>4 DEF CrashTypes
<1>6. /\ K \in Nat /\ Len(reloads') = K + 1 /\ reloads'[K + 1] = t
      /\ \A i \in 1 .. K : reloads'[i] = reloads[i] /\ reloads[i] \in Nat
      /\ K + 1 - 1 = K /\ K + 1 >= 1
  BY <1>2, <1>3
<1> HIDE DEF K
<1>7. ASSUME storage.works
      PROVE  /\ t <= now /\ UpTo(storage.timestamps, now)
             /\ storage.timestamps # <<>> /\ t <= storage.timestamps[Len(storage.timestamps)]
             /\ K >= 1 => reloads[K] <= t /\ Behind(storage.timestamps, 1, reloads[K])
             /\ K >= 2 => reloads[K - 1] + Window < t
  BY <1>1, <1>7 DEF CrashInv, CrashesKnown, MayReload, Covers, s, t, K
<1>8. K >= 1 => K \in 1 .. K
  BY <1>6
<1>9. ASSUME storage.works PROVE CrashesKnown'
  <2>1. Len(reloads') >= 1 /\ reloads'[Len(reloads')] = t /\ Len(reloads') - 1 = K
    BY <1>6
  <2>2. Len(reloads') >= 2 => K >= 1 /\ reloads'[K] = reloads[K]
    BY <1>6, <1>8
  <2>3. storage.timestamps \in Seq(Nat) /\ Len(storage.timestamps) > 0
    BY <1>2, <1>7, <1>9
  <2>4. Behind(storage.timestamps, 0, t)
    <3>1. Len(storage.timestamps) - 0 = Len(storage.timestamps) /\ Len(storage.timestamps) \in DOMAIN storage.timestamps
      BY <2>3
    <3>2. storage.timestamps[Len(storage.timestamps)] \in Nat
      BY <2>3, <3>1
    <3>3. storage.timestamps[Len(storage.timestamps)] >= t
      BY <1>3, <1>7, <1>9, <3>2
    <3> QED BY <2>3, <3>1, <3>3 DEF Behind
  <2>5. Covers(storage.timestamps)'
    BY <1>1, <1>7, <1>9, <2>1, <2>2, <2>4 DEF Covers, Behind, UpTo
  <2>6. \A q \in Pages : crash'[q].at = "running"
    BY <1>1, <1>4
  <2> QED BY <1>1, <1>7, <1>9, <2>1, <2>2, <2>5, <2>6 DEF CrashesKnown
<1>10. Crashes!NoReloadLoop'
  <2> SUFFICES ASSUME storage.works, NEW i \in 1 .. Len(reloads') - 2
               PROVE  reloads'[i + 2] - reloads'[i] > Window
    BY <1>1 DEF Crashes!NoReloadLoop
  <2>1. i \in 1 .. K /\ i \in Nat
    BY <1>6
  <2>2. CASE i \in 1 .. K - 2
    <3>1. reloads[i + 2] - reloads[i] > Window
      BY <2>2 DEF CrashInv, Crashes!NoReloadLoop, K
    <3>2. i + 2 \in 1 .. K
      BY <1>6, <2>2
    <3> QED BY <1>6, <2>1, <3>1, <3>2
  <2>3. CASE i = K - 1
    <3>1. K >= 2 /\ i + 2 = K + 1
      BY <1>6, <2>1, <2>3
    <3>2. reloads[i] + Window < t
      BY <1>7, <2>3, <3>1
    <3>3. reloads'[i] = reloads[i] /\ reloads[i] \in Nat /\ reloads'[i + 2] = t
      BY <1>6, <2>1, <3>1
    <3> DEFINE r == reloads[i]
    <3> HIDE DEF r
    <3>4. r \in Nat /\ r + Window < t
      BY <3>2, <3>3 DEF r
    <3>5. t - r > Window
      BY <1>2, <1>3, <3>4
    <3> QED BY <3>3, <3>5 DEF r
  <2> QED BY <1>6, <2>1, <2>2, <2>3
<1> QED BY <1>1, <1>5, <1>9, <1>10 DEF CrashInv

LEMMA CrashStepKeeps ==
  ASSUME CrashInv, Crashes!Next PROVE CrashInv'
<1>1. CASE Crashes!Tick
  BY <1>1, CrashTicks
<1>2. ASSUME NEW p \in Pages, NEW condition \in BOOLEAN, Crashes!CheckWithLogger(p, condition)
      PROVE  CrashInv'
  <2> DEFINE c == [crash[p] EXCEPT !.at = "loading"]
  <2>1. crash[p] \in Crashing /\ UNCHANGED <<storage, now, reloads>> /\ crash \in [Pages -> Crashing]
    BY <1>2 DEF CrashInv, CrashTypes, Crashes!CheckWithLogger
  <2>2. c \in Crashing /\ c.at = "loading"
    BY <2>1 DEF Crashing
  <2>3. crash' = crash \/ crash' = [crash EXCEPT ![p] = c]
    BY <1>2, <2>1 DEF Crashes!CheckWithLogger, Crashes!Fail, Crashes!HandleImminentCrash
  <2>4. CASE crash' = crash
    BY <2>1, <2>4
       DEF CrashInv, CrashTypes, CrashesKnown, Covers, MayReload, Behind, Crashes!NoReloadLoop
  <2>5. CASE crash' = [crash EXCEPT ![p] = c]
    <3> HIDE DEF c
    <3> QED BY <2>1, <2>2, <2>5, CrashIdles
  <2> QED BY <2>3, <2>4, <2>5
<1>3. ASSUME NEW p \in Pages, Crashes!CrashLoop(p) PROVE CrashInv'
  <2> DEFINE c == [crash[p] EXCEPT !.at = "defunct"]
  <2>1. crash[p] \in Crashing /\ UNCHANGED <<storage, now, reloads>> /\ crash \in [Pages -> Crashing]
    BY <1>3 DEF CrashInv, CrashTypes, Crashes!CrashLoop
  <2>2. c \in Crashing /\ c.at = "defunct"
    BY <2>1 DEF Crashing
  <2>3. crash' = [crash EXCEPT ![p] = c]
    BY <1>3, <2>1 DEF Crashes!CrashLoop
  <2> HIDE DEF c
  <2> QED BY <2>1, <2>2, <2>3, CrashIdles
<1> QED BY <1>1, <1>2, <1>3, CrashLoads, CrashStores, CrashReloads DEF Crashes!Next

\* NoReloadLoop, for any number of pages, reloads and moments: of three crashes
\* within the window at most two end in a reload.  And a page that keeps itself
\* loaded does so with one iframe.
THEOREM NeverReloadsInALoop == Spec => []NoReloadLoop
<1> DEFINE Kept == iframes = (IF enabled THEN 1 ELSE 0) /\ Keeping!KeptLoaded
           Inv == CrashInv /\ Kept
<1>1. Init => Inv
  <2> SUFFICES ASSUME Init PROVE Inv
    OBVIOUS
  <2>1. /\ crash = [p \in Pages |-> Crashes!NotCrashing] /\ now = 0 /\ reloads = <<>>
        /\ storage \in [works : BOOLEAN, timestamps : {<<>>}]
    BY DEF Init, Crashes!Init
  <2>2. /\ <<>> \in Seq(Nat) /\ Len(<<>>) = 0 /\ 0 \in Nat /\ DOMAIN <<>> = {}
        /\ Crashes!NotCrashing \in Crashing /\ Crashes!NotCrashing.at = "running"
    BY DEF Crashes!NotCrashing, Crashing
  <2>3. /\ storage \in [works : BOOLEAN, timestamps : Seq(Nat)] /\ storage.timestamps = <<>>
    BY <2>1, <2>2
  <2>4. \A p \in Pages : crash[p] = Crashes!NotCrashing
    BY <2>1
  <2>5. CrashTypes
    BY <2>1, <2>2, <2>3, <2>4 DEF CrashTypes
  <2>6. CrashesKnown
    BY <2>1, <2>2, <2>3, <2>4 DEF CrashesKnown, Covers, UpTo
  <2>7. Crashes!NoReloadLoop
    BY <2>1, <2>2 DEF Crashes!NoReloadLoop
  <2>8. Kept
    BY DEF Init, Keeping!Init, Keeping!KeptLoaded
  <2> QED BY <2>5, <2>6, <2>7, <2>8 DEF CrashInv
<1>2. Inv /\ [Next]_vars => Inv'
  <2> SUFFICES ASSUME Inv, [Next]_vars PROVE Inv'
    OBVIOUS
  <2>1. UNCHANGED crashesVars \/ Crashes!Next
    BY DEF Next, vars
  <2>2. UNCHANGED keepingVars \/ Keeping!Next
    BY DEF Next, vars
  <2>3. CrashInv'
    <3>1. CASE UNCHANGED crashesVars
      BY <3>1 DEF crashesVars, CrashInv, CrashTypes, CrashesKnown, Covers, UpTo, MayReload, Behind,
                  Crashes!NoReloadLoop
    <3> QED BY <2>1, <3>1, CrashStepKeeps
  <2>4. Kept'
    <3>1. CASE UNCHANGED keepingVars
      BY <3>1 DEF keepingVars, Keeping!KeptLoaded
    <3>2. CASE Keeping!Next
      BY <3>2 DEF Keeping!Next, Keeping!Enable, Keeping!CreateIFrameElement, Keeping!ConnectListener,
                  Keeping!PortDisconnected, Keeping!Unload, Keeping!Reload, Keeping!KeptLoaded
    <3> QED BY <2>2, <3>1, <3>2
  <2> QED BY <2>3, <2>4
<1>3. Inv => NoReloadLoop
  BY DEF CrashInv, NoReloadLoop
<1> QED BY <1>1, <1>2, <1>3, PTL DEF Spec
=============================================================================
