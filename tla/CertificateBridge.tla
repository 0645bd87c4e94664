--------------------------- MODULE CertificateBridge ---------------------------
(***************************************************************************)
(* bridge-backend.js of the C++ example client: Chrome's requests for the  *)
(* certificates and for signatures are passed on to the executable module, *)
(* once that is loaded, and its answers are reported for the request's id; *)
(* in the other direction the module calls chrome.certificateProvider.     *)
(***************************************************************************)
EXTENDS Naturals, Sequences, FiniteSets

CONSTANT Requests       \* the ids of Chrome's requests

VARIABLES
  api,          \* chrome.certificateProvider: "none", "old" or "current"
  module,       \* "loading", "running" or "gone"
  bridge,       \* the Backend and its DeferredProcessor
  request,      \* each request of Chrome: how far it has got
  call          \* the module's call of the API

vars == <<api, module, bridge, request, call>>

-----------------------------------------------------------------------------
\* toArrayBuffer: the module's bytes are an array or already a buffer.
ToArrayBuffer(value) == IF value \in {"array", "buffer"} THEN "buffer" ELSE "empty"

CreateClientCertificateInfo(info) ==
  [certificateChain |-> <<ToArrayBuffer(info.certificate)>>,
   supportedAlgorithms |-> info.supportedAlgorithms]

\* The certificates of setCertificates are converted, and nothing else.
TransformFunctionArguments(name, arguments) ==
  IF name = "setCertificates"
  THEN {CreateClientCertificateInfo(c) : c \in arguments} ELSE arguments

\* setupApiListeners_
SetupApiListeners == api = "current"

\* The constructor.
NewBackend ==
  [listens |-> SetupApiListeners, settled |-> FALSE, queue |-> <<>>]

NewRequest == [kind |-> "none", stage |-> "none", result |-> "none", reports |-> 0]
NoCall == [name |-> "none", stage |-> "none", result |-> "none"]

Init ==
  /\ api \in {"none", "old", "current"}
  /\ module = "loading"
  /\ bridge = NewBackend
  /\ request = [r \in Requests |-> NewRequest]
  /\ call = NoCall

-----------------------------------------------------------------------------
Post(requests, r) == [requests EXCEPT ![r].stage = "posted"]

\* processCertificatesUpdateRequest_ and processSignatureRequest_, which only
\* differ in what they ask the module for.
ProcessCertificatesUpdateRequest(requests, r) == Post(requests, r)
ProcessSignatureRequest(requests, r) == Post(requests, r)
Process(requests, r) ==
  IF requests[r].kind = "certificates" THEN ProcessCertificatesUpdateRequest(requests, r)
  ELSE ProcessSignatureRequest(requests, r)

\* DeferredProcessor.addJob of a request that is being handled.
AddJob(kind, r) ==
  LET added == [request EXCEPT ![r].kind = kind, ![r].stage = "queued"]
  IN /\ bridge.listens /\ request[r].stage = "none"
     /\ request' = IF bridge.settled THEN Process(added, r) ELSE added
     /\ bridge' = IF bridge.settled THEN bridge
                  ELSE [bridge EXCEPT !.queue = Append(@, r)]
     /\ UNCHANGED <<api, module, call>>

OnCertificatesUpdateRequested(r) == AddJob("certificates", r)
OnSignatureRequested(r) == AddJob("signature", r)

\* The module is loaded; then its promise's listeners run what is queued.
ModuleLoads ==
  /\ module = "loading"
  /\ module' = "running"
  /\ UNCHANGED <<api, bridge, request, call>>

QueueFlushes ==
  /\ module = "running" /\ ~bridge.settled
  /\ bridge' = [bridge EXCEPT !.settled = TRUE, !.queue = <<>>]
  /\ request' = [r \in Requests |->
                   IF \E i \in DOMAIN bridge.queue : bridge.queue[i] = r
                   THEN Process(request, r)[r] ELSE request[r]]
  /\ UNCHANGED <<api, module, call>>

-----------------------------------------------------------------------------
\* disposeInternal: Chrome is not listened to any more, and the requester
\* rejects what has been posted.
DisposeBackend(b) == [b EXCEPT !.listens = FALSE]
RejectPosted(requests) ==
  [r \in Requests |-> IF requests[r].stage = "posted"
                      THEN [requests[r] EXCEPT !.stage = "answered", !.result = "error"]
                      ELSE requests[r]]

\* executableModuleDisposedListener_.  A module that is still loading rejects
\* its promise, and what is queued for it is dropped.
ModuleDisposed ==
  /\ module # "gone"
  /\ module = "running" => bridge.settled
  /\ module' = "gone"
  /\ bridge' = [DisposeBackend(bridge) EXCEPT !.queue = <<>>]
  /\ request' = RejectPosted([r \in Requests |->
                  IF request[r].stage = "queued" THEN [request[r] EXCEPT !.stage = "dropped"]
                  ELSE request[r]])
  /\ call' = NoCall
  /\ UNCHANGED api

ModuleAnswers(r, result) ==
  /\ module = "running" /\ request[r].stage = "posted"
  /\ request' = [request EXCEPT ![r].stage = "answered",
                                ![r].result = result]
  /\ UNCHANGED <<api, module, bridge, call>>

\* The listeners of the posted request's promise: setCertificates and
\* reportSignature, for the request's id, with what the module answered.
Report(r, kind, converted) ==
  /\ request[r].stage = "answered" /\ request[r].kind = kind
  /\ request' = [request EXCEPT
                    ![r].stage = "reported", ![r].reports = @ + 1,
                    ![r].result = IF @ = "error" THEN @ ELSE converted]
  /\ UNCHANGED <<api, module, bridge, call>>

ReportCertificates(r) ==
  LET info == [certificate |-> request[r].result, supportedAlgorithms |-> "all"]
  IN Report(r, "certificates", CreateClientCertificateInfo(info).certificateChain[1])

ReportSignature(r) == Report(r, "signature", ToArrayBuffer(request[r].result))

-----------------------------------------------------------------------------
\* handleRequest_: the module calls a function of the API.
HandleRequest(name) ==
  /\ module = "running" /\ call = NoCall
  /\ LET certificates == {[certificate |-> "array", supportedAlgorithms |-> "all"]}
         calls == api # "none" /\ name = "setCertificates"
     IN call' = [name |-> name,
                 stage |-> IF calls THEN "called" ELSE "over",
                 result |-> IF calls THEN TransformFunctionArguments(name, certificates)
                            ELSE "no such function"]
  /\ UNCHANGED <<api, module, bridge, request>>

\* The API's callback, or an exception of the call.
ApiReturns(result) ==
  /\ call.stage = "called"
  /\ call' = [call EXCEPT !.stage = "over", !.result = result]
  /\ UNCHANGED <<api, module, bridge, request>>

Next ==
  \/ \E r \in Requests :
       \/ OnCertificatesUpdateRequested(r) \/ OnSignatureRequested(r)
       \/ ReportCertificates(r) \/ ReportSignature(r)
       \/ \E result \in {"array", "buffer", "error"} : ModuleAnswers(r, result)
  \/ ModuleLoads \/ QueueFlushes \/ ModuleDisposed
  \/ \E name \in {"setCertificates", "other"} : HandleRequest(name)
  \/ \E result \in {"done", "error"} : ApiReturns(result)

Spec == Init /\ [][Next]_vars

-----------------------------------------------------------------------------
\* Whatever has been posted to the module is answered, at most once, and with
\* buffers: also if the module goes in between.  (What is queued for a module
\* that fails to load is dropped.)
CertificatesReported ==
  /\ \A r \in Requests : request[r].reports <= 1
  /\ \A r \in Requests : request[r].stage = "reported" =>
                           request[r].result \in {"buffer", "error"}
  /\ module = "gone" => \A r \in Requests : request[r].stage \notin {"queued", "posted"}
  /\ call.stage = "called" =>
       \A c \in call.result : c.certificateChain = <<"buffer">>
=============================================================================
