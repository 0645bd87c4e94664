----------------------- MODULE ClientRequestProcessor -----------------------
(***************************************************************************)
(* The clients manager of the PC/SC-Lite server: one request processor per *)
(* connected client, one detached thread per request, and a registry of    *)
(* the contexts and card handles the client obtained                       *)
(* (third_party/pcsc-lite/webport/server_clients_management/src).          *)
(*                                                                         *)
(* The PC/SC-Lite library below is reduced to what the processors can tell *)
(* apart: which contexts and handles live, which call fails, and how       *)
(* SCardGetStatusChange blocks and SCardCancel interrupts it.  It does not *)
(* hand out an identifier twice, which the header of the processor states  *)
(* as its assumption.                                                      *)
(***************************************************************************)
EXTENDS Naturals, FiniteSets

CONSTANTS
  Handler,          \* handler_id: one connection of a client application
  Request,          \* threads that process requests, reused when they end
  Ctx, Card,        \* SCARDCONTEXT and SCARDHANDLE values
  NoHandler, NoCtx, NoCard,
  FallbackPolicy,   \* values of scard_disconnect_fallback_client_app_ids
  CancelOverlaps,   \* client calls that may overlap an SCardCancel of theirs
  CoreMayRevoke     \* PC/SC-Lite may lose a context, on its own or by an error

ContextCall == {"release", "connect", "status", "cancel", "context_call"}
HandleCall == {"disconnect", "card_call"}
Call == {"establish"} \union ContextCall \union HandleCall

\* The three PC/SC calls of the SCardConnect fallback, after the first one
Fallback == {"connect_any", "disconnect_reset", "connect_again"}

ConnectStep == {"connect", "connect_any", "connect_again"}
DisconnectStep == {"disconnect", "disconnect_reset"}

ASSUME ClientAssumption ==
  /\ NoHandler \notin Handler /\ NoCtx \notin Ctx /\ NoCard \notin Card
  /\ FallbackPolicy \subseteq SUBSET Handler
  /\ CancelOverlaps \subseteq Call
  /\ CoreMayRevoke \in BOOLEAN

VARIABLES
  handler,          \* handler_map_ and the life of each request processor
  contexts,         \* context_to_handles_map_: its keys, per processor
  handles,          \* handle_to_context_map_, per processor
  req,              \* what each request thread does
  cancelJob,        \* contexts the cancellation thread still has to cancel
  cleanCancel,      \* contexts the cleanup thread still has to cancel ...
  cleanRelease,     \* ... and to release
  policyReceived,   \* AdminPolicyGetter::admin_policy_ has a value,
  fallbackList,     \* and it allows these clients the SCardConnect fallback
  shutDown,
  crashed,          \* a fatal GOOGLE_SMART_CARD_CHECK failed
  coreContexts,     \* PC/SC-Lite: the contexts that exist,
  coreCards,        \* the context of each handle that exists,
  owner, cardOwner  \* and to which processor each identifier was given

registry == <<contexts, handles>>
jobs == <<cancelJob, cleanCancel, cleanRelease>>
core == <<coreContexts, coreCards, owner, cardOwner>>
global == <<policyReceived, fallbackList, shutDown, crashed>>
vars == <<handler, registry, req, jobs, global, core>>

IdleRequest ==
  [pc |-> "idle", handler |-> NoHandler, op |-> "none", ctx |-> NoCtx, card |-> NoCard]

Init ==
  /\ handler = [h \in Handler |-> "none"]
  /\ contexts = [h \in Handler |-> {}]
  /\ handles = [h \in Handler |-> [k \in Card |-> NoCtx]]
  /\ req = [r \in Request |-> IdleRequest]
  /\ cancelJob = [h \in Handler |-> {}]
  /\ cleanCancel = [h \in Handler |-> {}]
  /\ cleanRelease = [h \in Handler |-> {}]
  /\ policyReceived = FALSE /\ fallbackList = {}
  /\ shutDown = FALSE /\ crashed = FALSE
  /\ coreContexts = {} /\ coreCards = [k \in Card |-> NoCtx]
  /\ owner = [c \in Ctx |-> NoHandler] /\ cardOwner = [k \in Card |-> NoHandler]

Busy(h) == {r \in Request : req[r].handler = h}

-----------------------------------------------------------------------------
(* PcscLiteServerClientsManager, on the main thread                        *)

CreateHandler(h) ==
  /\ ~shutDown /\ handler[h] = "none"
  /\ handler' = [handler EXCEPT ![h] = "live"]
  /\ UNCHANGED <<registry, req, jobs, global, core>>

\* Mutant: what is cleaned up is what the handler's deletion took a snapshot of.
DestroySnapshot(h) ==
  /\ handler' = [handler EXCEPT ![h] = "gone"]
  /\ contexts' = [contexts EXCEPT ![h] = {}]
  /\ handles' = [handles EXCEPT ![h] = [k \in Card |-> NoCtx]]
  /\ cleanCancel' = [cleanCancel EXCEPT ![h] = contexts[h]]
  /\ cleanRelease' = [cleanRelease EXCEPT ![h] = cancelJob[h]]

\* The destructor of the processor: PopAllContexts, and a thread to clean up.
Destroy(h) ==
  /\ handler' = [handler EXCEPT ![h] = "gone"]
  /\ contexts' = [contexts EXCEPT ![h] = {}]
  /\ handles' = [handles EXCEPT ![h] = [k \in Card |-> NoCtx]]
  /\ cleanCancel' = [cleanCancel EXCEPT ![h] = contexts[h]]
  /\ cleanRelease' = [cleanRelease EXCEPT ![h] = contexts[h]]

\* DeleteHandler: the snapshot of ScheduleRunningRequestsCancellation, then no
\* request is received or answered any more; the processor goes with its last
\* request.
DeleteHandler(h) ==
  /\ handler[h] = "live"
  /\ cancelJob' = [cancelJob EXCEPT ![h] = contexts[h]]
  /\ IF Busy(h) = {}
     THEN Destroy(h)
     ELSE /\ handler' = [handler EXCEPT ![h] = "deleted"]
          /\ UNCHANGED <<registry, cleanCancel, cleanRelease>>
  /\ UNCHANGED <<req, global, core>>

\* ShutDown of the manager; the handlers are deleted one after another.
ShutDown ==
  /\ ~shutDown /\ shutDown' = TRUE
  /\ UNCHANGED <<handler, registry, req, jobs, policyReceived, fallbackList,
                 crashed, core>>

\* An update_admin_policy message reaches AdminPolicyGetter.
UpdateAdminPolicy(list) ==
  /\ ~shutDown /\ policyReceived' = TRUE /\ fallbackList' = list
  /\ UNCHANGED <<handler, registry, req, jobs, shutDown, crashed, core>>

\* The context whose threading rule a call of handler h falls under
ContextOf(h, op, c, k) ==
  IF op \in ContextCall \union Fallback THEN c
  ELSE IF op \in HandleCall THEN handles[h][k] ELSE NoCtx

\* A client issues a call for a context after its previous one completed, but
\* for SCardCancel, which may overlap the calls in CancelOverlaps.
Disciplined(h, op, c) ==
  c # NoCtx => \A q \in Busy(h) :
    ContextOf(h, req[q].op, req[q].ctx, req[q].card) = c =>
      \/ op = "cancel" /\ req[q].op \in CancelOverlaps
      \/ req[q].op = "cancel" /\ op \in CancelOverlaps

\* The identifier was returned to some client: no call that obtained it is left.
ReturnedContext(c) ==
  owner[c] # NoHandler /\ \A q \in Request : req[q].op = "establish" => req[q].ctx # c

ReturnedHandle(k) ==
  /\ cardOwner[k] # NoHandler
  /\ \A q \in Request : req[q].op \in ConnectStep \union Fallback => req[q].card # k

\* HandleRequest and AsyncProcessRequest: the client names any identifier that
\* was ever returned, to itself or not.
ReceiveRequest(h, r, op, c, k) ==
  /\ ~shutDown /\ handler[h] = "live" /\ req[r].pc = "idle"
  /\ op \in ContextCall => c # NoCtx /\ ReturnedContext(c)
  /\ op \in HandleCall => k # NoCard /\ ReturnedHandle(k)
  /\ op \notin ContextCall => c = NoCtx
  /\ op \notin HandleCall => k = NoCard
  /\ Disciplined(h, op, ContextOf(h, op, c, k))
  /\ req' = [req EXCEPT ![r] =
               [pc |-> "start", handler |-> h, op |-> op, ctx |-> c, card |-> k]]
  /\ UNCHANGED <<handler, registry, jobs, global, core>>

-----------------------------------------------------------------------------
(* A request thread: the registry is asked, PC/SC-Lite is called, and the  *)
(* registry is updated, each under its own lock or none.                   *)

\* r goes on at point p.
Goto(r, p) == req' = [req EXCEPT ![r].pc = p]

\* r goes on with the call op of the fallback.
Continue(r, op, k) ==
  req' = [req EXCEPT ![r].pc = "start", ![r].op = op, ![r].card = k]

\* Mutant: PC/SC-Lite is trusted to refuse the contexts of other clients.
CheckContextOfAnyone(r) ==
  /\ req[r].pc = "start" /\ req[r].op \in ContextCall \union ConnectStep
  /\ Goto(r, "core")
  /\ UNCHANGED <<handler, registry, jobs, global, core>>

\* ContainsContext
CheckContext(r) ==
  /\ req[r].pc = "start" /\ req[r].op \in ContextCall \union ConnectStep
  /\ Goto(r, IF req[r].ctx \in contexts[req[r].handler] THEN "core" ELSE "done")
  /\ UNCHANGED <<handler, registry, jobs, global, core>>

\* Mutant: the handle is looked up among all clients'.
CheckHandleOfAnyone(r) ==
  /\ req[r].pc = "start" /\ req[r].op \in HandleCall \union DisconnectStep
  /\ Goto(r, IF \E h \in Handler : handles[h][req[r].card] # NoCtx THEN "core" ELSE "done")
  /\ UNCHANGED <<handler, registry, jobs, global, core>>

\* ContainsHandle
CheckHandle(r) ==
  /\ req[r].pc = "start" /\ req[r].op \in HandleCall \union DisconnectStep
  /\ Goto(r, IF handles[req[r].handler][req[r].card] # NoCtx THEN "core" ELSE "done")
  /\ UNCHANGED <<handler, registry, jobs, global, core>>

\* A call that holds the lock of context c in PC/SC-Lite
Holds(q, c) == req[q].pc \in {"scanning", "waiting"} /\ req[q].ctx = c

CoreFree(c) == \A q \in Request : ~Holds(q, c)

\* ::SCardEstablishContext returns a new context, or fails.
CoreEstablish(r) ==
  /\ req[r].pc = "start" /\ req[r].op = "establish"
  /\ \/ \E c \in Ctx :
          /\ owner[c] = NoHandler
          /\ owner' = [owner EXCEPT ![c] = req[r].handler]
          /\ coreContexts' = coreContexts \union {c}
          /\ req' = [req EXCEPT ![r].pc = "register", ![r].ctx = c]
     \/ Goto(r, "done") /\ UNCHANGED <<owner, coreContexts>>
  /\ UNCHANGED <<handler, registry, jobs, global, coreCards, cardOwner>>

\* PC/SC-Lite forgets a context, and with it the handles opened through it.
Forget(c) ==
  /\ coreContexts' = coreContexts \ {c}
  /\ coreCards' = [k \in Card |-> IF coreCards[k] = c THEN NoCtx ELSE coreCards[k]]
  /\ UNCHANGED <<owner, cardOwner>>

\* ::SCardReleaseContext forgets the context even if the daemon reports an
\* error, after which the registry still holds it.
CoreRelease(r) ==
  LET c == req[r].ctx
  IN  /\ req[r].pc = "core" /\ req[r].op = "release" /\ CoreFree(c)
      /\ \/ /\ c \in coreContexts /\ Forget(c)
            /\ Goto(r, "register") \/ (CoreMayRevoke /\ Goto(r, "done"))
         \/ /\ c \notin coreContexts
            /\ Goto(r, "revoke") /\ UNCHANGED core
      /\ UNCHANGED <<handler, registry, jobs, global>>

\* ::SCardConnect: a new handle, a protocol mismatch, another error.  The
\* fallback's connect by any protocol does not mismatch.
CoreConnect(r) ==
  LET c == req[r].ctx
  IN  /\ req[r].pc = "core" /\ req[r].op \in ConnectStep /\ CoreFree(c)
      /\ \/ /\ c \notin coreContexts
            /\ Goto(r, "revoke") /\ UNCHANGED core
         \/ /\ c \in coreContexts
            /\ \E k \in Card :
                 /\ cardOwner[k] = NoHandler
                 /\ cardOwner' = [cardOwner EXCEPT ![k] = req[r].handler]
                 /\ coreCards' = [coreCards EXCEPT ![k] = c]
                 /\ req' = [req EXCEPT ![r].pc = "register", ![r].card = k]
            /\ UNCHANGED <<coreContexts, owner>>
         \/ /\ c \in coreContexts /\ req[r].op = "connect"
            /\ Goto(r, "policy") /\ UNCHANGED core
         \/ c \in coreContexts /\ Goto(r, "done") /\ UNCHANGED core
      /\ UNCHANGED <<handler, registry, jobs, global>>

CoreDisconnect(r) ==
  LET k == req[r].card
  IN  /\ req[r].pc = "core" /\ req[r].op \in DisconnectStep /\ CoreFree(coreCards[k])
      /\ \/ /\ coreCards[k] = NoCtx
            /\ Goto(r, "revoke") /\ UNCHANGED core
         \/ /\ coreCards[k] # NoCtx
            /\ coreCards' = [coreCards EXCEPT ![k] = NoCtx]
            /\ Goto(r, "register") /\ UNCHANGED <<coreContexts, owner, cardOwner>>
         \/ coreCards[k] # NoCtx /\ Goto(r, "done") /\ UNCHANGED core
      /\ UNCHANGED <<handler, registry, jobs, global>>

\* SCardReconnect, -BeginTransaction, -EndTransaction, -Status, -Control,
\* -GetAttrib, -SetAttrib, -Transmit
CoreCardCall(r) ==
  LET k == req[r].card
  IN  /\ req[r].pc = "core" /\ req[r].op = "card_call" /\ CoreFree(coreCards[k])
      /\ Goto(r, IF coreCards[k] = NoCtx THEN "revoke" ELSE "done")
      /\ UNCHANGED <<handler, registry, jobs, global, core>>

\* SCardListReaders, -ListReaderGroups, -IsValidContext
CoreContextCall(r) ==
  LET c == req[r].ctx
  IN  /\ req[r].pc = "core" /\ req[r].op = "context_call" /\ CoreFree(c)
      /\ Goto(r, IF c \notin coreContexts THEN "revoke" ELSE "done")
      /\ UNCHANGED <<handler, registry, jobs, global, core>>

\* ::SCardGetStatusChange takes the context's lock and compares the readers'
\* states; only then does it wait, and can be cancelled.
CoreStatus(r) ==
  LET c == req[r].ctx
  IN  /\ req[r].pc = "core" /\ req[r].op = "status" /\ CoreFree(c)
      /\ Goto(r, IF c \in coreContexts THEN "scanning" ELSE "revoke")
      /\ UNCHANGED <<handler, registry, jobs, global, core>>

StatusScanned(r) ==
  /\ req[r].pc = "scanning"
  /\ Goto(r, "waiting") \/ Goto(r, "done")
  /\ UNCHANGED <<handler, registry, jobs, global, core>>

\* Some reader changed: the states are compared again.
ReaderEvent(r) ==
  /\ req[r].pc = "waiting" /\ Goto(r, "scanning")
  /\ UNCHANGED <<handler, registry, jobs, global, core>>

\* The call's timeout, which may be infinite
StatusTimeout(r) ==
  /\ req[r].pc = "waiting" /\ Goto(r, "done")
  /\ UNCHANGED <<handler, registry, jobs, global, core>>

\* Mutant: only a wait on a context of a live handler is interrupted.
InterruptedIfLive(q, c) ==
  IF req[q].pc = "waiting" /\ req[q].ctx = c /\ handler[owner[c]] = "live"
  THEN [req[q] EXCEPT !.pc = "done"] ELSE req[q]

\* What ::SCardCancel does to the thread q: nothing unless it is waiting.
Interrupted(q, c) ==
  IF req[q].pc = "waiting" /\ req[q].ctx = c THEN [req[q] EXCEPT !.pc = "done"] ELSE req[q]

CoreCancel(r) ==
  LET c == req[r].ctx
  IN  /\ req[r].pc = "core" /\ req[r].op = "cancel"
      /\ IF c \in coreContexts
         THEN req' = [[q \in Request |-> Interrupted(q, c)] EXCEPT ![r].pc = "done"]
         ELSE Goto(r, "revoke")
      /\ UNCHANGED <<handler, registry, jobs, global, core>>

\* GOOGLE_SMART_CARD_CHECK(holds), and step if it does; the process dies if not.
Check(holds, step) ==
  \/ holds /\ step /\ UNCHANGED crashed
  \/ ~holds /\ crashed' = TRUE /\ UNCHANGED <<registry, req>>

AddContext(h, c) ==
  contexts' = [contexts EXCEPT ![h] = @ \union {c}] /\ UNCHANGED handles

\* Mutant: the handles of a removed context stay.
RemoveContextOnly(h, c) ==
  contexts' = [contexts EXCEPT ![h] = @ \ {c}] /\ UNCHANGED handles

RemoveContext(h, c) ==
  /\ contexts' = [contexts EXCEPT ![h] = @ \ {c}]
  /\ handles' = [handles EXCEPT ![h] =
                   [k \in Card |-> IF @[k] = c THEN NoCtx ELSE @[k]]]

\* Mutant: a handle of the fallback, which the client never sees, is not kept.
AddReturnedHandle(h, c, k) ==
  /\ handles' = IF \E r \in Busy(h) : req[r].op = "connect_any"
                THEN handles ELSE [handles EXCEPT ![h][k] = c]
  /\ UNCHANGED contexts

AddHandle(h, c, k) ==
  handles' = [handles EXCEPT ![h][k] = c] /\ UNCHANGED contexts

RemoveHandle(h, k) ==
  handles' = [handles EXCEPT ![h][k] = NoCtx] /\ UNCHANGED contexts

\* The registry is brought up to date after a successful call.
RegisterEstablished(r, h, c) ==
  /\ req[r].op = "establish"
  /\ Check(c \notin contexts[h], AddContext(h, c) /\ Goto(r, "done"))

RegisterReleased(r, h, c) ==
  /\ req[r].op = "release"
  /\ Check(c \in contexts[h], RemoveContext(h, c) /\ Goto(r, "done"))

RegisterConnected(r, h, c, k) ==
  /\ req[r].op \in ConnectStep
  /\ Check(handles[h][k] = NoCtx /\ c \in contexts[h],
           /\ AddHandle(h, c, k)
           /\ IF req[r].op = "connect_any"
              THEN Continue(r, "disconnect_reset", k)
              ELSE Goto(r, "done"))

RegisterDisconnected(r, h, k) ==
  /\ req[r].op \in DisconnectStep
  /\ Check(handles[h][k] \in contexts[h],
           /\ RemoveHandle(h, k)
           /\ IF req[r].op = "disconnect_reset"
              THEN Continue(r, "connect_again", NoCard)
              ELSE Goto(r, "done"))

Register(r) ==
  LET h == req[r].handler  c == req[r].ctx  k == req[r].card
  IN  /\ req[r].pc = "register"
      /\ \/ RegisterEstablished(r, h, c) \/ RegisterReleased(r, h, c)
         \/ RegisterConnected(r, h, c, k) \/ RegisterDisconnected(r, h, k)
      /\ UNCHANGED <<handler, jobs, policyReceived, fallbackList, shutDown, core>>

\* OnSCardContextRevoked, OnSCardHandleRevoked: PC/SC-Lite returned
\* SCARD_E_INVALID_HANDLE for an identifier of the registry.
Revoke(r) ==
  LET h == req[r].handler  c == req[r].ctx  k == req[r].card
  IN  /\ req[r].pc = "revoke"
      /\ \/ /\ req[r].op \in ContextCall \union ConnectStep
            /\ Check(c \in contexts[h], RemoveContext(h, c) /\ Goto(r, "done"))
         \/ /\ req[r].op \in HandleCall \union DisconnectStep
            /\ Check(handles[h][k] \in contexts[h], RemoveHandle(h, k) /\ Goto(r, "done"))
      /\ UNCHANGED <<handler, jobs, policyReceived, fallbackList, shutDown, core>>

\* Mutant: the condition variable's predicate forgets shutting_down_.
ConsultPolicyOnly(r) ==
  /\ req[r].pc = "policy" /\ policyReceived
  /\ IF ~shutDown /\ req[r].handler \in fallbackList
     THEN Continue(r, "connect_any", NoCard)
     ELSE Goto(r, "done")
  /\ UNCHANGED <<handler, registry, jobs, global, core>>

\* IsDisconnectFallbackPolicyEnabled: WaitAndGet blocks until a policy arrived
\* or the manager shut down.
ConsultPolicy(r) ==
  /\ req[r].pc = "policy" /\ (policyReceived \/ shutDown)
  /\ IF ~shutDown /\ req[r].handler \in fallbackList
     THEN Continue(r, "connect_any", NoCard)
     ELSE Goto(r, "done")
  /\ UNCHANGED <<handler, registry, jobs, global, core>>

\* Mutant: the thread that ends last does not notice that it is the last one.
FinishOnly(r) ==
  /\ req[r].pc = "done"
  /\ req' = [req EXCEPT ![r] = IdleRequest]
  /\ UNCHANGED <<handler, registry, jobs, global, core>>

\* The result is sent and the thread ends; with it goes its reference to the
\* processor, perhaps the last one.
Finish(r) ==
  LET h == req[r].handler
  IN  /\ req[r].pc = "done"
      /\ req' = [req EXCEPT ![r] = IdleRequest]
      /\ IF handler[h] = "deleted" /\ Busy(h) = {r}
         THEN Destroy(h)
         ELSE UNCHANGED <<handler, registry, cleanCancel, cleanRelease>>
      /\ UNCHANGED <<cancelJob, global, core>>

-----------------------------------------------------------------------------
(* The background threads of ScheduleRunningRequestsCancellation and of    *)
(* ScheduleHandlesCleanup                                                   *)

\* CancelRunningRequests
CancelRunning(h, c) ==
  /\ c \in cancelJob[h]
  /\ cancelJob' = [cancelJob EXCEPT ![h] = @ \ {c}]
  /\ req' = [q \in Request |-> Interrupted(q, c)]
  /\ UNCHANGED <<handler, registry, cleanCancel, cleanRelease, global, core>>

\* CleanupHandles: cancel all, then CloseLeftHandles
CleanupCancel(h, c) ==
  /\ c \in cleanCancel[h]
  /\ cleanCancel' = [cleanCancel EXCEPT ![h] = @ \ {c}]
  /\ req' = [q \in Request |-> Interrupted(q, c)]
  /\ UNCHANGED <<handler, registry, cancelJob, cleanRelease, global, core>>

CleanupRelease(h, c) ==
  /\ cleanCancel[h] = {} /\ c \in cleanRelease[h] /\ CoreFree(c)
  /\ cleanRelease' = [cleanRelease EXCEPT ![h] = @ \ {c}]
  /\ Forget(c)
  /\ UNCHANGED <<handler, registry, req, cancelJob, cleanCancel, global>>

\* PC/SC-Lite loses a context nobody released and nobody waits on.
CoreRevokes(c) ==
  /\ CoreMayRevoke /\ c \in coreContexts /\ CoreFree(c) /\ Forget(c)
  /\ UNCHANGED <<handler, registry, req, jobs, global>>

-----------------------------------------------------------------------------
RequestStep(r) ==
  /\ ~crashed
  /\ \/ CheckContext(r) \/ CheckHandle(r)
     \/ CoreEstablish(r) \/ CoreRelease(r) \/ CoreConnect(r) \/ CoreDisconnect(r)
     \/ CoreCardCall(r) \/ CoreContextCall(r)
     \/ CoreStatus(r) \/ StatusScanned(r) \/ CoreCancel(r)
     \/ Register(r) \/ Revoke(r) \/ ConsultPolicy(r) \/ Finish(r)

JobStep(h) ==
  /\ ~crashed
  /\ \E c \in Ctx : CancelRunning(h, c) \/ CleanupCancel(h, c) \/ CleanupRelease(h, c)

ManagerStep ==
  /\ ~crashed
  /\ \/ \E h \in Handler : CreateHandler(h) \/ DeleteHandler(h)
     \/ ShutDown
     \/ \E list \in FallbackPolicy : UpdateAdminPolicy(list)
     \/ \E h \in Handler, r \in Request, op \in Call,
           c \in Ctx \union {NoCtx}, k \in Card \union {NoCard} :
          ReceiveRequest(h, r, op, c, k)

WaitEnds(r) == ~crashed /\ StatusTimeout(r)

Next ==
  \/ ManagerStep
  \/ \E r \in Request : RequestStep(r) \/ WaitEnds(r) \/ (~crashed /\ ReaderEvent(r))
  \/ \E h \in Handler : JobStep(h)
  \/ \E c \in Ctx : ~crashed /\ CoreRevokes(c)

Spec == Init /\ [][Next]_vars

\* The threads run, the admin policy arrives once JavaScript has read it, and
\* after ShutDown the main thread deletes every handler.
FairSpec ==
  /\ Spec
  /\ \A r \in Request : WF_vars(RequestStep(r))
  /\ \A h \in Handler : WF_vars(JobStep(h))
  /\ WF_vars(~crashed /\ \E list \in FallbackPolicy : UpdateAdminPolicy(list))
  /\ \A h \in Handler : WF_vars(~crashed /\ shutDown /\ DeleteHandler(h))

\* No wait for a reader lasts for ever: its timeout is finite, and goes on
\* counting when a reader event interrupts the wait.
WaitsEnd == \A r \in Request : SF_vars(WaitEnds(r))

-----------------------------------------------------------------------------
(* Types                                                                   *)

PC == {"idle", "start", "core", "scanning", "waiting", "register", "revoke",
       "policy", "done"}

\* Every variable has its type; the two maps of a registry agree, and only a
\* processor that exists has entries and requests.
TypeOK ==
  /\ handler \in [Handler -> {"none", "live", "deleted", "gone"}]
  /\ contexts \in [Handler -> SUBSET Ctx]
  /\ handles \in [Handler -> [Card -> Ctx \union {NoCtx}]]
  /\ req \in [Request -> [pc : PC, handler : Handler \union {NoHandler},
                          op : Call \union Fallback \union {"none"},
                          ctx : Ctx \union {NoCtx}, card : Card \union {NoCard}]]
  /\ cancelJob \in [Handler -> SUBSET Ctx]
  /\ cleanCancel \in [Handler -> SUBSET Ctx]
  /\ cleanRelease \in [Handler -> SUBSET Ctx]
  /\ policyReceived \in BOOLEAN /\ fallbackList \subseteq Handler
  /\ shutDown \in BOOLEAN /\ crashed \in BOOLEAN
  /\ coreContexts \subseteq Ctx /\ coreCards \in [Card -> Ctx \union {NoCtx}]
  /\ owner \in [Ctx -> Handler \union {NoHandler}]
  /\ cardOwner \in [Card -> Handler \union {NoHandler}]
  /\ \A h \in Handler, k \in Card : handles[h][k] \in contexts[h] \union {NoCtx}
  /\ \A h \in Handler : handler[h] \in {"none", "gone"} =>
       contexts[h] = {} /\ Busy(h) = {}

-----------------------------------------------------------------------------
(* Isolation                                                               *)

\* r is inside PC/SC-Lite, or about to enter it.
InCore(r) == req[r].pc \in {"core", "scanning", "waiting"}

\* Whatever identifiers clients name, a call reaches PC/SC-Lite only for a
\* context or a card handle that was given to the same client (README.rst:55).
Isolation ==
  \A r \in Request : InCore(r) =>
    /\ req[r].op \in ContextCall \union ConnectStep
         => owner[req[r].ctx] = req[r].handler
    /\ req[r].op \in HandleCall \union DisconnectStep
         => cardOwner[req[r].card] = req[r].handler

\* A context disappears only through a release by the client it was given to, or
\* through the cleanup after that client's processor is gone.
OnlyOwnerReleases ==
  [][\A c \in coreContexts \ coreContexts' :
       \/ CoreMayRevoke
       \/ handler[owner[c]] = "gone"
       \/ \E r \in Busy(owner[c]) : req[r].op = "release" /\ req[r].ctx = c]_vars

\* A client's blocking wait is interrupted only by that client's own cancel or
\* after its handler was deleted; no other client's crash or restart ends it.
OnlyOwnerInterrupts ==
  [][\A r \in Request : LET h == req[r].handler IN
       req[r].pc = "waiting" /\ req'[r].pc = "done" =>
         \/ StatusTimeout(r)
         \/ handler[h] # "live"
         \/ \E q \in Busy(h) : req[q].op = "cancel" /\ req[q].ctx = req[r].ctx]_vars

-----------------------------------------------------------------------------
(* Registry and PC/SC-Lite                                                 *)

\* r obtained the context c, or the handle k, and has yet to register it.
Establishing(r, c) ==
  req[r].pc = "register" /\ req[r].op = "establish" /\ req[r].ctx = c

Connecting(r, k) ==
  req[r].pc = "register" /\ req[r].op \in ConnectStep /\ req[r].card = k

\* No context leaks: whatever lives in PC/SC-Lite is in the registry of the
\* processor it was given to, or about to be, or queued for its cleanup.
NoLeakedContext ==
  \A c \in coreContexts : LET h == owner[c] IN
    \/ c \in contexts[h] \union cleanRelease[h]
    \/ \E r \in Busy(h) : Establishing(r, c)

\* No card handle leaks: it is registered under its context, or about to be, or
\* the context waits to be released.
NoLeakedHandle ==
  \A k \in Card : LET h == cardOwner[k]  c == coreCards[k] IN
    c # NoCtx =>
      \/ handles[h][k] = c
      \/ c \in cleanRelease[h]
      \/ \E r \in Busy(h) : Connecting(r, k) /\ req[r].ctx = c

\* No GOOGLE_SMART_CARD_CHECK of the handles registry fails for a client that
\* follows the threading rule of PC/SC.
NoCheckFailure == ~crashed

-----------------------------------------------------------------------------
(* What happens to the client that goes away                               *)

\* A wait that the deletion of its handler was meant to cancel ends, if it was
\* already a wait when the cancellation thread came to its context.
CancelUnblocks ==
  \A h \in Handler, r \in Request, c \in Ctx :
    (c \in cancelJob[h] /\ req[r].pc = "waiting" /\ req[r].ctx = c)
      ~> (req[r].pc # "waiting" \/ crashed)

\* If no wait is infinite, everything a deleted client held is released in the
\* end: what it held at its deletion, and what requests that were running then
\* established or connected afterwards.
DeletedIsReleased ==
  WaitsEnd => \A h \in Handler, c \in Ctx :
    (handler[h] \in {"deleted", "gone"} /\ owner[c] = h)
      ~> (c \notin coreContexts \/ crashed)

\* The destructor's promise, clients_manager.cc:176-182: a potentially infinite
\* request does not block the resources of a deleted handler for ever.
DeletedIsNotBlocked ==
  \A h \in Handler : handler[h] = "deleted" ~> (handler[h] = "gone" \/ crashed)

\* If no wait is infinite, a manager that is shut down gets rid of its processors,
\* although no admin policy will come for the requests that wait for one.
ShutDownEnds ==
  WaitsEnd =>
    (shutDown ~> ((\A h \in Handler : handler[h] \in {"none", "gone"}) \/ crashed))
=============================================================================
