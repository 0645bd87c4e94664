-------------------- MODULE ClientRequestProcessor_proofs --------------------
(***************************************************************************)
(* Theorems of ClientRequestProcessor, for every set of handlers, request  *)
(* threads, contexts and card handles, every policy, and clients that      *)
(* overlap their calls in any way CancelOverlaps allows.                   *)
(***************************************************************************)
EXTENDS ClientRequestProcessor, TLAPS

-----------------------------------------------------------------------------
(* The inductive invariant                                                 *)

OfContext(q) == q.op \in ContextCall \union ConnectStep
OfHandle(q) == q.op \in HandleCall \union DisconnectStep

\* Past the registry's check, and not yet done
Admitted(q) == q.pc \in {"core", "scanning", "waiting", "register", "revoke"}

\* A thread that processes a request holds a reference to its processor; only
\* SCardGetStatusChange waits, and only an SCardConnect asks for the policy.
ShapeOK(r) ==
  /\ req[r].pc = "idle" <=> req[r].handler = NoHandler
  /\ req[r].pc # "idle" => handler[req[r].handler] \in {"live", "deleted"}
  /\ OfContext(req[r]) \/ req[r].op \in Fallback => req[r].ctx \in Ctx
  /\ OfHandle(req[r]) => req[r].card \in Card
  /\ req[r].pc \in {"scanning", "waiting"} => req[r].op = "status"
  /\ req[r].pc = "policy" => req[r].op = "connect"
  /\ req[r].pc = "register" /\ req[r].op = "establish" => req[r].ctx \in Ctx
  /\ req[r].pc = "register" /\ req[r].op \in ConnectStep => req[r].card \in Card

\* What a request was admitted with, or obtained, belongs to its client.
OwnOK(r) ==
  /\ Admitted(req[r]) /\ OfContext(req[r]) => owner[req[r].ctx] = req[r].handler
  /\ Admitted(req[r]) /\ OfHandle(req[r]) => cardOwner[req[r].card] = req[r].handler
  /\ req[r].pc = "register" /\ req[r].op = "establish"
       => owner[req[r].ctx] = req[r].handler
  /\ req[r].pc = "register" /\ req[r].op \in ConnectStep
       => cardOwner[req[r].card] = req[r].handler

\* What is about to be removed from a registry is gone from PC/SC-Lite.
GoneOK(r) ==
  /\ req[r].pc = "register" /\ req[r].op = "release" => req[r].ctx \notin coreContexts
  /\ req[r].pc = "revoke" /\ OfContext(req[r]) => req[r].ctx \notin coreContexts
  /\ req[r].pc = "register" /\ req[r].op \in DisconnectStep
       => coreCards[req[r].card] = NoCtx
  /\ req[r].pc = "revoke" /\ OfHandle(req[r]) => coreCards[req[r].card] = NoCtx

RequestOK(r) == ShapeOK(r) /\ OwnOK(r) /\ GoneOK(r)

RequestInv == \A r \in Request : RequestOK(r)

\* The registries and the background threads' lists name what was given to their
\* own client; the lists are filled when the handler is deleted, or is gone.
RegistryInv ==
  \A h \in Handler :
    /\ \A c \in contexts[h] : owner[c] = h
    /\ \A k \in Card : handles[h][k] # NoCtx => cardOwner[k] = h
    /\ \A c \in cancelJob[h] : owner[c] = h /\ handler[h] \in {"deleted", "gone"}
    /\ \A c \in cleanCancel[h] \union cleanRelease[h] : owner[c] = h /\ handler[h] = "gone"

\* PC/SC-Lite: what was never given to anybody does not exist, and a handle
\* needs its context.
CoreInv ==
  /\ \A c \in coreContexts : owner[c] # NoHandler
  /\ \A k \in Card : coreCards[k] # NoCtx =>
       coreCards[k] \in coreContexts /\ cardOwner[k] # NoHandler

IInv ==
  /\ TypeOK /\ RequestInv /\ RegistryInv /\ CoreInv
  /\ NoLeakedContext /\ NoLeakedHandle

-----------------------------------------------------------------------------
(* Request threads whose record does not change, or only moves on          *)

RequestType ==
  [pc : PC, handler : Handler \union {NoHandler},
   op : Call \union Fallback \union {"none"},
   ctx : Ctx \union {NoCtx}, card : Card \union {NoCard}]

\* Everything but req and the variables of PC/SC-Lite has its type.
OtherTypes ==
  /\ handler \in [Handler -> {"none", "live", "deleted", "gone"}]
  /\ contexts \in [Handler -> SUBSET Ctx]
  /\ handles \in [Handler -> [Card -> Ctx \union {NoCtx}]]
  /\ cancelJob \in [Handler -> SUBSET Ctx]
  /\ cleanCancel \in [Handler -> SUBSET Ctx]
  /\ cleanRelease \in [Handler -> SUBSET Ctx]
  /\ policyReceived \in BOOLEAN /\ fallbackList \subseteq Handler
  /\ shutDown \in BOOLEAN /\ crashed \in BOOLEAN

CoreTypes ==
  /\ coreContexts \subseteq Ctx /\ coreCards \in [Card -> Ctx \union {NoCtx}]
  /\ owner \in [Ctx -> Handler \union {NoHandler}]
  /\ cardOwner \in [Card -> Handler \union {NoHandler}]

\* The two maps of a registry agree, and only a processor that exists has entries.
MapsAgree ==
  /\ \A h \in Handler, k \in Card : handles[h][k] \in contexts[h] \union {NoCtx}
  /\ \A h \in Handler : handler[h] \in {"none", "gone"} => contexts[h] = {}

LEMMA TypeParts ==
  IInv => OtherTypes /\ CoreTypes /\ MapsAgree /\ req \in [Request -> RequestType]
BY DEF IInv, TypeOK, OtherTypes, CoreTypes, MapsAgree, RequestType

\* The parts put together, after a step: a processor that is not there has no
\* busy thread.
LEMMA PartsType ==
  ASSUME OtherTypes', CoreTypes', MapsAgree', req' \in [Request -> RequestType],
         RequestInv'
  PROVE  TypeOK'
<1>1. ASSUME NEW h \in Handler, handler'[h] \in {"none", "gone"}
      PROVE  Busy(h)' = {}
  <2>1. ASSUME NEW r \in Request, req'[r].handler = h PROVE FALSE
    <3>1. req'[r].pc # "idle"
      BY <2>1, ClientAssumption DEF RequestInv, RequestOK, ShapeOK
    <3> QED BY <1>1, <2>1, <3>1 DEF RequestInv, RequestOK, ShapeOK
  <2> QED BY <2>1 DEF Busy
<1> QED BY <1>1 DEF TypeOK, OtherTypes, CoreTypes, MapsAgree, RequestType

\* What PC/SC-Lite gave away stays given away, and does not come back once gone.
Frame ==
  /\ \A c \in Ctx : owner[c] # NoHandler => owner'[c] = owner[c]
  /\ \A k \in Card : cardOwner[k] # NoHandler => cardOwner'[k] = cardOwner[k]
  /\ \A c \in Ctx : owner[c] # NoHandler /\ c \notin coreContexts => c \notin coreContexts'
  /\ \A k \in Card : cardOwner[k] # NoHandler /\ coreCards[k] = NoCtx => coreCards'[k] = NoCtx

LEMMA SameFrame == UNCHANGED core => Frame
BY DEF core, Frame

LEMMA BusyHandler ==
  ASSUME IInv, NEW r \in Request, req[r].pc # "idle"
  PROVE  req[r].handler \in Handler /\ req[r].handler # NoHandler
         /\ handler[req[r].handler] \in {"live", "deleted"}
BY TypeParts, ClientAssumption DEF IInv, RequestInv, RequestOK, ShapeOK, RequestType

\* A thread that does not move keeps what holds of it, while others do.
LEMMA OtherRequest ==
  ASSUME IInv, NEW q \in Request, req'[q] = req[q], Frame,
         req[q].pc # "idle" => handler'[req[q].handler] \in {"live", "deleted"}
  PROVE  RequestOK(q)'
<1>1. RequestOK(q)
  BY DEF IInv, RequestInv
<1>2. ShapeOK(q)'
  BY <1>1 DEF RequestOK, ShapeOK, OfContext, OfHandle
<1>3. Admitted(req[q]) => req[q].handler # NoHandler
  BY BusyHandler DEF Admitted
<1>4. OwnOK(q)'
  BY <1>1, <1>3 DEF RequestOK, ShapeOK, OwnOK, OfContext, OfHandle, Admitted, Frame
<1>5. GoneOK(q)'
  <2>1. req[q].pc = "register" /\ req[q].op = "release" =>
          req[q].ctx \in Ctx /\ owner[req[q].ctx] # NoHandler
    BY <1>1, <1>3 DEF RequestOK, ShapeOK, OwnOK, OfContext, ContextCall, Admitted
  <2>2. req[q].pc = "revoke" /\ OfContext(req[q]) =>
          req[q].ctx \in Ctx /\ owner[req[q].ctx] # NoHandler
    BY <1>1, <1>3 DEF RequestOK, ShapeOK, OwnOK, Admitted
  <2>3. req[q].pc = "register" /\ req[q].op \in DisconnectStep =>
          req[q].card \in Card /\ cardOwner[req[q].card] # NoHandler
    BY <1>1, <1>3 DEF RequestOK, ShapeOK, OwnOK, OfHandle, Admitted
  <2>4. req[q].pc = "revoke" /\ OfHandle(req[q]) =>
          req[q].card \in Card /\ cardOwner[req[q].card] # NoHandler
    BY <1>1, <1>3 DEF RequestOK, ShapeOK, OwnOK, Admitted
  <2> QED BY <1>1, <2>1, <2>2, <2>3, <2>4 DEF RequestOK, GoneOK, OfContext, OfHandle, Frame
<1> QED BY <1>2, <1>4, <1>5 DEF RequestOK

-----------------------------------------------------------------------------
(* Steps that change no registry: threads move on, PC/SC-Lite forgets, the *)
(* background threads work off their lists                                 *)

\* PC/SC-Lite forgets contexts or handles, or does nothing.
CoreShrinks ==
  /\ UNCHANGED <<owner, cardOwner>>
  /\ coreContexts' \subseteq coreContexts
  /\ coreCards' \in [Card -> Ctx \union {NoCtx}]
  /\ \A k \in Card : coreCards'[k] # NoCtx =>
       coreCards'[k] = coreCards[k] /\ coreCards[k] \in coreContexts'

\* A context leaves the list of those to release only when it is released.
JobsShrink ==
  /\ cancelJob' \in [Handler -> SUBSET Ctx] /\ cleanCancel' \in [Handler -> SUBSET Ctx]
  /\ cleanRelease' \in [Handler -> SUBSET Ctx]
  /\ \A h \in Handler :
       /\ cancelJob'[h] \subseteq cancelJob[h] /\ cleanCancel'[h] \subseteq cleanCancel[h]
       /\ cleanRelease'[h] \subseteq cleanRelease[h]
       /\ (cleanRelease[h] \ cleanRelease'[h]) \intersect coreContexts' = {}

LEMMA SameCore == ASSUME IInv, UNCHANGED core PROVE CoreShrinks
BY TypeParts DEF core, CoreShrinks, CoreTypes, IInv, CoreInv

LEMMA SameJobs == ASSUME IInv, UNCHANGED jobs PROVE JobsShrink
BY TypeParts DEF jobs, JobsShrink, OtherTypes

LEMMA ForgetShrinks == ASSUME IInv, NEW c \in Ctx, Forget(c) PROVE CoreShrinks
BY TypeParts DEF Forget, CoreShrinks, CoreTypes, IInv, CoreInv

LEMMA ShrinkFrame == ASSUME IInv, CoreShrinks PROVE Frame /\ CoreTypes' /\ CoreInv'
BY TypeParts DEF CoreShrinks, Frame, CoreTypes, IInv, CoreInv

\* The threads in M move on, and nothing that some client has is lost.
LEMMA MoveStep ==
  ASSUME IInv, NEW M \in SUBSET Request, CoreShrinks, JobsShrink,
         req' \in [Request -> RequestType],
         \A q \in Request \ M : req'[q] = req[q],
         \A q \in M : req[q].pc # "register" /\ RequestOK(q)',
         UNCHANGED <<handler, registry>>,
         policyReceived' \in BOOLEAN, fallbackList' \subseteq Handler,
         shutDown' \in BOOLEAN, crashed' \in BOOLEAN
  PROVE  IInv'
<1>1. OtherTypes' /\ MapsAgree'
  BY TypeParts DEF OtherTypes, MapsAgree, registry, JobsShrink
<1>2. CoreTypes' /\ CoreInv' /\ Frame
  BY ShrinkFrame
<1>3. RequestInv'
  <2>1. ASSUME NEW q \in Request \ M PROVE RequestOK(q)'
    BY <1>2, OtherRequest, BusyHandler
  <2> QED BY <2>1 DEF RequestInv
<1>4. RegistryInv'
  BY TypeParts DEF IInv, RegistryInv, registry, JobsShrink, CoreShrinks, OtherTypes
<1>5. NoLeakedContext'
  <2> SUFFICES ASSUME NEW c \in coreContexts'
               PROVE  \/ c \in contexts[owner[c]] \union cleanRelease'[owner[c]]
                      \/ \E r \in Busy(owner[c])' : Establishing(r, c)'
    BY DEF NoLeakedContext, CoreShrinks, registry
  <2>1. c \in coreContexts /\ owner[c] \in Handler
    BY TypeParts DEF CoreShrinks, IInv, CoreInv, CoreTypes
  <2>2. CASE c \in contexts[owner[c]] \union cleanRelease[owner[c]]
    BY <2>1, <2>2 DEF JobsShrink
  <2>3. ASSUME NEW r \in Busy(owner[c]), Establishing(r, c)
        PROVE  \E q \in Busy(owner[c])' : Establishing(q, c)'
    <3>1. r \in Request /\ req'[r] = req[r] /\ req[r].handler = owner[c]
      BY <2>3 DEF Busy, Establishing
    <3>2. r \in Busy(owner[c])' /\ Establishing(r, c)'
      BY <2>3, <3>1 DEF Busy, Establishing, CoreShrinks
    <3> QED BY <3>2
  <2> QED BY <2>1, <2>2, <2>3 DEF IInv, NoLeakedContext
<1>6. NoLeakedHandle'
  <2> SUFFICES ASSUME NEW k \in Card, coreCards'[k] # NoCtx
               PROVE  \/ handles[cardOwner[k]][k] = coreCards[k]
                      \/ coreCards[k] \in cleanRelease'[cardOwner[k]]
                      \/ \E r \in Busy(cardOwner[k])' :
                           Connecting(r, k)' /\ req'[r].ctx = coreCards[k]
    BY DEF NoLeakedHandle, CoreShrinks, registry
  <2>1. /\ coreCards[k] # NoCtx /\ coreCards[k] \in coreContexts'
        /\ cardOwner[k] \in Handler
    BY TypeParts DEF CoreShrinks, IInv, CoreInv, CoreTypes
  <2>2. ASSUME NEW r \in Busy(cardOwner[k]), Connecting(r, k), req[r].ctx = coreCards[k]
        PROVE  \E q \in Busy(cardOwner[k])' : Connecting(q, k)' /\ req'[q].ctx = coreCards[k]
    <3>1. r \in Request /\ req'[r] = req[r] /\ req[r].handler = cardOwner[k]
      BY <2>2 DEF Busy, Connecting
    <3>2. r \in Busy(cardOwner[k])' /\ Connecting(r, k)' /\ req'[r].ctx = coreCards[k]
      BY <2>2, <3>1 DEF Busy, Connecting, CoreShrinks
    <3> QED BY <3>2
  <2>3. CASE \/ handles[cardOwner[k]][k] = coreCards[k]
             \/ coreCards[k] \in cleanRelease[cardOwner[k]]
    BY <2>1, <2>3 DEF JobsShrink
  <2> QED BY <2>1, <2>2, <2>3 DEF IInv, NoLeakedHandle
<1>7. TypeOK'
  BY <1>1, <1>2, <1>3, PartsType
<1> QED BY <1>3, <1>2, <1>4, <1>5, <1>6, <1>7 DEF IInv

\* r goes on at point p: the obligations that its new point brings with it.
LEMMA GotoStep ==
  ASSUME IInv, NEW r \in Request, NEW p \in PC \ {"idle"}, Goto(r, p),
         req[r].pc \notin {"idle", "register"},
         CoreShrinks, UNCHANGED <<handler, registry, jobs, global>>,
         p \in {"scanning", "waiting"} => req[r].op = "status",
         p = "policy" => req[r].op = "connect",
         p \in {"core", "scanning", "waiting", "register", "revoke"} =>
           /\ OfContext(req[r]) => owner[req[r].ctx] = req[r].handler
           /\ OfHandle(req[r]) => cardOwner[req[r].card] = req[r].handler,
         p = "register" => req[r].op \in {"release"} \union DisconnectStep,
         p \in {"register", "revoke"} =>
           /\ OfContext(req[r]) => req[r].ctx \notin coreContexts'
           /\ OfHandle(req[r]) => coreCards'[req[r].card] = NoCtx
  PROVE  IInv'
<1>1. req' = [req EXCEPT ![r] = [req[r] EXCEPT !.pc = p]] /\ req[r] \in RequestType
  BY TypeParts DEF Goto
<1>2. req' \in [Request -> RequestType]
  BY <1>1, TypeParts DEF RequestType
<1>3. /\ req'[r].pc = p /\ req'[r].op = req[r].op /\ req'[r].handler = req[r].handler
      /\ req'[r].ctx = req[r].ctx /\ req'[r].card = req[r].card
      /\ \A q \in Request \ {r} : req'[q] = req[q]
  BY <1>1, TypeParts DEF RequestType
<1>4. ShapeOK(r)
  BY DEF IInv, RequestInv, RequestOK
<1>5. ShapeOK(r)'
  BY <1>3, <1>4
     DEF ShapeOK, OfContext, OfHandle, ConnectStep, DisconnectStep
<1>6. OwnOK(r)'
  BY <1>3
     DEF OwnOK, Admitted, OfContext, OfHandle, CoreShrinks, ConnectStep, DisconnectStep
<1>7. GoneOK(r)'
  BY <1>3 DEF GoneOK, OfContext, OfHandle, ContextCall, CoreShrinks
<1>8. JobsShrink
  BY SameJobs
<1>9. /\ UNCHANGED <<handler, registry>>
      /\ policyReceived' \in BOOLEAN /\ fallbackList' \subseteq Handler
      /\ shutDown' \in BOOLEAN /\ crashed' \in BOOLEAN
  BY TypeParts DEF global, OtherTypes
<1> DEFINE M == {r}
<1>10. /\ M \in SUBSET Request
       /\ \A q \in Request \ M : req'[q] = req[q]
       /\ \A q \in M : req[q].pc # "register" /\ RequestOK(q)'
  BY <1>3, <1>5, <1>6, <1>7 DEF RequestOK
<1> HIDE DEF M
<1> QED BY <1>2, <1>8, <1>9, <1>10, MoveStep

\* r has its result.
LEMMA DoneStep ==
  ASSUME IInv, NEW r \in Request, Goto(r, "done"), CoreShrinks,
         req[r].pc \notin {"idle", "register"},
         UNCHANGED <<handler, registry, jobs, global>>
  PROVE  IInv'
BY GotoStep DEF PC

\* What an admitted request may use
LEMMA AdmittedOwn ==
  ASSUME IInv, NEW r \in Request, Admitted(req[r])
  PROVE  /\ OfContext(req[r]) =>
              req[r].ctx \in Ctx /\ owner[req[r].ctx] = req[r].handler
         /\ OfHandle(req[r]) =>
              req[r].card \in Card /\ cardOwner[req[r].card] = req[r].handler
BY DEF IInv, RequestInv, RequestOK, ShapeOK, OwnOK

LEMMA CheckContextStep ==
  ASSUME IInv, NEW r \in Request, CheckContext(r)
  PROVE  IInv'
<1>0. req[r].handler \in Handler
  BY BusyHandler DEF CheckContext
<1>1. CASE req[r].ctx \in contexts[req[r].handler]
  <2>1. owner[req[r].ctx] = req[r].handler
    BY <1>0, <1>1 DEF IInv, RegistryInv
  <2>2. ~OfHandle(req[r])
    BY DEF CheckContext, OfHandle, HandleCall, DisconnectStep, ContextCall, ConnectStep
  <2> QED BY <1>1, <2>1, <2>2, GotoStep, SameCore DEF CheckContext, PC
<1>2. CASE req[r].ctx \notin contexts[req[r].handler]
  BY <1>2, DoneStep, SameCore DEF CheckContext
<1> QED BY <1>1, <1>2

LEMMA CheckHandleStep ==
  ASSUME IInv, NEW r \in Request, CheckHandle(r)
  PROVE  IInv'
<1>0. req[r].handler \in Handler /\ req[r].card \in Card
  BY BusyHandler DEF CheckHandle, IInv, RequestInv, RequestOK, ShapeOK, OfHandle
<1>1. CASE handles[req[r].handler][req[r].card] # NoCtx
  <2>1. cardOwner[req[r].card] = req[r].handler
    BY <1>0, <1>1 DEF IInv, RegistryInv
  <2>2. ~OfContext(req[r])
    BY DEF CheckHandle, OfContext, HandleCall, DisconnectStep, ContextCall, ConnectStep
  <2> QED BY <1>1, <2>1, <2>2, GotoStep, SameCore DEF CheckHandle, PC
<1>2. CASE handles[req[r].handler][req[r].card] = NoCtx
  BY <1>2, DoneStep, SameCore DEF CheckHandle
<1> QED BY <1>1, <1>2

LEMMA CoreCallStep ==
  ASSUME IInv, NEW r \in Request,
         CoreCardCall(r) \/ CoreContextCall(r) \/ CoreStatus(r)
  PROVE  IInv'
<1>1. Admitted(req[r]) /\ req[r].pc \notin {"idle", "register"}
  BY DEF CoreCardCall, CoreContextCall, CoreStatus, Admitted
<1>2. CASE CoreCardCall(r)
  <2>1. ~OfContext(req[r])
    BY <1>2 DEF CoreCardCall, OfContext, ContextCall, ConnectStep
  <2> QED BY <1>1, <1>2, <2>1, AdmittedOwn, GotoStep, SameCore, DoneStep
          DEF CoreCardCall, PC, core
<1>3. CASE CoreContextCall(r)
  <2>1. ~OfHandle(req[r])
    BY <1>3 DEF CoreContextCall, OfHandle, HandleCall, DisconnectStep
  <2> QED BY <1>1, <1>3, <2>1, AdmittedOwn, GotoStep, SameCore, DoneStep
          DEF CoreContextCall, PC, core
<1>4. CASE CoreStatus(r)
  <2>1. ~OfHandle(req[r])
    BY <1>4 DEF CoreStatus, OfHandle, HandleCall, DisconnectStep
  <2> QED BY <1>1, <1>4, <2>1, AdmittedOwn, GotoStep, SameCore DEF CoreStatus, PC, core
<1> QED BY <1>2, <1>3, <1>4

\* The steps of a thread inside SCardGetStatusChange
LEMMA StatusStep ==
  ASSUME IInv, NEW r \in Request, StatusScanned(r) \/ ReaderEvent(r) \/ StatusTimeout(r)
  PROVE  IInv'
<1>1. /\ Admitted(req[r]) /\ req[r].pc \in {"scanning", "waiting"}
      /\ req[r].op = "status"
  BY DEF StatusScanned, ReaderEvent, StatusTimeout, Admitted,
         IInv, RequestInv, RequestOK, ShapeOK
<1>2. ASSUME NEW p \in {"scanning", "waiting", "done"}, Goto(r, p),
             UNCHANGED <<handler, registry, jobs, global, core>>
      PROVE  IInv'
  BY <1>1, <1>2, AdmittedOwn, GotoStep, SameCore DEF PC
<1> QED BY <1>2 DEF StatusScanned, ReaderEvent, StatusTimeout

LEMMA CoreReleaseStep ==
  ASSUME IInv, NEW r \in Request, CoreRelease(r)
  PROVE  IInv'
<1> DEFINE c == req[r].ctx
<1>1. /\ Admitted(req[r]) /\ OfContext(req[r]) /\ ~OfHandle(req[r])
      /\ req[r].pc \notin {"idle", "register"} /\ req[r].op = "release"
  BY DEF CoreRelease, Admitted, OfContext, OfHandle, ContextCall, HandleCall, DisconnectStep
<1>2. c \in Ctx /\ owner[c] = req[r].handler
  BY <1>1, AdmittedOwn
<1>3. CASE c \in coreContexts
  <2>1. Forget(c) /\ (Goto(r, "register") \/ Goto(r, "done"))
    BY <1>3 DEF CoreRelease
  <2>2. CoreShrinks /\ c \notin coreContexts'
    BY <1>2, <2>1, ForgetShrinks DEF Forget
  <2> QED BY <1>1, <1>2, <2>1, <2>2, GotoStep, DoneStep DEF CoreRelease, PC
<1>4. CASE c \notin coreContexts
  BY <1>1, <1>2, <1>4, GotoStep, SameCore DEF CoreRelease, PC, core
<1> QED BY <1>3, <1>4

LEMMA CoreDisconnectStep ==
  ASSUME IInv, NEW r \in Request, CoreDisconnect(r)
  PROVE  IInv'
<1> DEFINE k == req[r].card
<1>1. /\ Admitted(req[r]) /\ OfHandle(req[r]) /\ ~OfContext(req[r])
      /\ req[r].pc \notin {"idle", "register"} /\ req[r].op \in DisconnectStep
  BY DEF CoreDisconnect, Admitted, OfContext, OfHandle, ContextCall, DisconnectStep, ConnectStep
<1>2. k \in Card /\ cardOwner[k] = req[r].handler
  BY <1>1, AdmittedOwn
<1>3. CASE coreCards[k] = NoCtx /\ UNCHANGED core /\ Goto(r, "revoke")
  BY <1>1, <1>2, <1>3, GotoStep, SameCore DEF CoreDisconnect, PC, core
<1>4. CASE /\ coreCards' = [coreCards EXCEPT ![k] = NoCtx]
           /\ Goto(r, "register") /\ UNCHANGED <<coreContexts, owner, cardOwner>>
  <2>1. CoreShrinks
    BY <1>2, <1>4, TypeParts DEF CoreShrinks, CoreTypes, IInv, CoreInv
  <2>2. coreCards'[k] = NoCtx
    BY <1>2, <1>4, TypeParts DEF CoreTypes
  <2> QED BY <1>1, <1>2, <1>4, <2>1, <2>2, GotoStep DEF CoreDisconnect, PC
<1>5. CASE Goto(r, "done") /\ UNCHANGED core
  BY <1>1, <1>5, DoneStep, SameCore DEF CoreDisconnect
<1> QED BY <1>3, <1>4, <1>5 DEF CoreDisconnect

-----------------------------------------------------------------------------
(* PC/SC-Lite gives out a context or a handle                              *)

\* The registries stay true when new identifiers are given out.
LEMMA FrameRegistry ==
  ASSUME IInv, Frame, UNCHANGED <<handler, registry, jobs>>
  PROVE  RegistryInv'
<1> SUFFICES ASSUME NEW h \in Handler PROVE
      /\ \A c \in contexts[h] : owner'[c] = h
      /\ \A k \in Card : handles[h][k] # NoCtx => cardOwner'[k] = h
      /\ \A c \in cancelJob[h] : owner'[c] = h /\ handler[h] \in {"deleted", "gone"}
      /\ \A c \in cleanCancel[h] \union cleanRelease[h] :
           owner'[c] = h /\ handler[h] = "gone"
  BY DEF RegistryInv, registry, jobs
<1>1. h # NoHandler
  BY ClientAssumption
<1>2. ASSUME NEW c \in Ctx, owner[c] = h PROVE owner'[c] = h
  BY <1>1, <1>2 DEF Frame
<1>3. ASSUME NEW k \in Card, cardOwner[k] = h PROVE cardOwner'[k] = h
  BY <1>1, <1>3 DEF Frame
<1> QED BY <1>2, <1>3, TypeParts DEF IInv, RegistryInv, OtherTypes

LEMMA CoreEstablishStep ==
  ASSUME IInv, NEW r \in Request, CoreEstablish(r)
  PROVE  IInv'
<1> DEFINE h == req[r].handler
<1>0. h \in Handler /\ h # NoHandler /\ handler[h] \in {"live", "deleted"}
  BY BusyHandler DEF CoreEstablish
<1>1. CASE Goto(r, "done") /\ UNCHANGED <<owner, coreContexts>>
  BY <1>1, DoneStep, SameCore DEF CoreEstablish, core
<1>2. ASSUME NEW c \in Ctx, owner[c] = NoHandler,
             owner' = [owner EXCEPT ![c] = req[r].handler],
             coreContexts' = coreContexts \union {c},
             req' = [req EXCEPT ![r].pc = "register", ![r].ctx = c]
      PROVE  IInv'
  <2>1. /\ req' \in [Request -> RequestType]
        /\ req'[r].pc = "register" /\ req'[r].ctx = c /\ req'[r].op = "establish"
        /\ req'[r].handler = h /\ \A q \in Request \ {r} : req'[q] = req[q]
    <3>1. /\ req' = [req EXCEPT ![r] = [req[r] EXCEPT !.pc = "register", !.ctx = c]]
          /\ req[r] \in RequestType
      BY <1>2, TypeParts
    <3>2. [req[r] EXCEPT !.pc = "register", !.ctx = c] \in RequestType
      BY <3>1 DEF RequestType, PC
    <3> QED BY <3>1, <3>2, TypeParts DEF RequestType, CoreEstablish
  <2>2. owner'[c] = h /\ \A d \in Ctx \ {c} : owner'[d] = owner[d]
    BY <1>2, TypeParts DEF CoreTypes
  <2>3. Frame
    BY <1>2, <2>2, TypeParts DEF Frame, CoreEstablish, CoreTypes
  <2>4. OtherTypes' /\ MapsAgree' /\ CoreTypes'
    BY <1>0, <1>2, TypeParts
       DEF OtherTypes, MapsAgree, CoreTypes, CoreEstablish, registry, jobs, global
  <2>5. RequestInv'
    <3>1. ASSUME NEW q \in Request \ {r} PROVE RequestOK(q)'
      BY <2>1, <2>3, OtherRequest, BusyHandler DEF CoreEstablish
    <3>2. ShapeOK(r)'
      BY <1>0, <2>1
         DEF ShapeOK, OfContext, OfHandle, ContextCall, HandleCall, ConnectStep,
             DisconnectStep, Fallback, CoreEstablish
    <3>3. OwnOK(r)' /\ GoneOK(r)'
      BY <1>0, <2>1, <2>2
         DEF OwnOK, GoneOK, OfContext, OfHandle, ContextCall, HandleCall, ConnectStep,
             DisconnectStep, Admitted
    <3> QED BY <3>1, <3>2, <3>3 DEF RequestInv, RequestOK
  <2>6. RegistryInv'
    BY <2>3, FrameRegistry DEF CoreEstablish
  <2>7. CoreInv'
    BY <1>0, <1>2, <2>2, TypeParts DEF IInv, CoreInv, CoreTypes, CoreEstablish
  <2>8. NoLeakedContext'
    <3>1. r \in Busy(owner[c])' /\ Establishing(r, c)'
      BY <2>1, <2>2 DEF Busy, Establishing
    <3>2. ASSUME NEW d \in coreContexts
          PROVE  \/ d \in contexts'[owner'[d]] \union cleanRelease'[owner'[d]]
                 \/ \E q \in Busy(owner[d])' : Establishing(q, d)'
      <4>1. owner'[d] = owner[d]
        BY <2>3, TypeParts DEF Frame, IInv, CoreInv, CoreTypes
      <4>2. CASE d \in contexts[owner[d]] \union cleanRelease[owner[d]]
        BY <4>1, <4>2 DEF CoreEstablish, registry, jobs
      <4>3. ASSUME NEW q \in Busy(owner[d]), Establishing(q, d)
            PROVE  q \in Busy(owner[d])' /\ Establishing(q, d)'
        BY <2>1, <4>1, <4>3 DEF Busy, Establishing, CoreEstablish
      <4> QED BY <4>2, <4>3 DEF IInv, NoLeakedContext
    <3> QED BY <1>2, <3>1, <3>2 DEF NoLeakedContext
  <2>9. NoLeakedHandle'
    <3> SUFFICES ASSUME NEW k \in Card, coreCards[k] # NoCtx
                 PROVE  \/ handles[cardOwner[k]][k] = coreCards[k]
                        \/ coreCards[k] \in cleanRelease[cardOwner[k]]
                        \/ \E q \in Busy(cardOwner[k])' :
                             Connecting(q, k)' /\ req'[q].ctx = coreCards[k]
      BY DEF NoLeakedHandle, CoreEstablish, registry, jobs
    <3>1. ASSUME NEW q \in Busy(cardOwner[k]), Connecting(q, k), req[q].ctx = coreCards[k]
          PROVE  q \in Busy(cardOwner[k])' /\ Connecting(q, k)' /\ req'[q].ctx = coreCards[k]
      BY <2>1, <3>1 DEF Busy, Connecting, CoreEstablish
    <3> QED BY <3>1 DEF IInv, NoLeakedHandle
  <2> QED BY <2>1, <2>4, <2>5, <2>6, <2>7, <2>8, <2>9, PartsType DEF IInv
<1> QED BY <1>1, <1>2 DEF CoreEstablish

LEMMA CoreConnectStep ==
  ASSUME IInv, NEW r \in Request, CoreConnect(r)
  PROVE  IInv'
<1> DEFINE h == req[r].handler  c == req[r].ctx
<1>0. /\ h \in Handler /\ h # NoHandler /\ handler[h] \in {"live", "deleted"}
      /\ Admitted(req[r]) /\ OfContext(req[r]) /\ ~OfHandle(req[r])
      /\ req[r].pc = "core" /\ req[r].op \in ConnectStep
  BY BusyHandler
     DEF CoreConnect, Admitted, OfContext, OfHandle, HandleCall, DisconnectStep, ConnectStep
<1>1. c \in Ctx /\ owner[c] = h
  BY <1>0, AdmittedOwn
<1>2. CASE c \notin coreContexts /\ Goto(r, "revoke") /\ UNCHANGED core
  BY <1>0, <1>1, <1>2, GotoStep, SameCore DEF CoreConnect, PC, core
<1>3. CASE req[r].op = "connect" /\ Goto(r, "policy") /\ UNCHANGED core
  BY <1>0, <1>1, <1>3, GotoStep, SameCore DEF CoreConnect, PC
<1>4. CASE Goto(r, "done") /\ UNCHANGED core
  BY <1>0, <1>4, DoneStep, SameCore DEF CoreConnect
<1>5. ASSUME NEW k \in Card, cardOwner[k] = NoHandler, c \in coreContexts,
             cardOwner' = [cardOwner EXCEPT ![k] = req[r].handler],
             coreCards' = [coreCards EXCEPT ![k] = c],
             req' = [req EXCEPT ![r].pc = "register", ![r].card = k],
             UNCHANGED <<coreContexts, owner>>
      PROVE  IInv'
  <2>1. /\ req' \in [Request -> RequestType]
        /\ req'[r].pc = "register" /\ req'[r].card = k /\ req'[r].op = req[r].op
        /\ req'[r].ctx = c /\ req'[r].handler = h
        /\ \A q \in Request \ {r} : req'[q] = req[q]
    <3>1. /\ req' = [req EXCEPT ![r] = [req[r] EXCEPT !.pc = "register", !.card = k]]
          /\ req[r] \in RequestType
      BY <1>5, TypeParts
    <3>2. [req[r] EXCEPT !.pc = "register", !.card = k] \in RequestType
      BY <3>1 DEF RequestType, PC
    <3> QED BY <3>1, <3>2, TypeParts DEF RequestType
  <2>2. /\ cardOwner'[k] = h /\ \A j \in Card \ {k} : cardOwner'[j] = cardOwner[j]
        /\ coreCards'[k] = c /\ \A j \in Card \ {k} : coreCards'[j] = coreCards[j]
    BY <1>5, TypeParts DEF CoreTypes
  <2>3. Frame
    BY <1>5, <2>2 DEF Frame
  <2>4. OtherTypes' /\ MapsAgree' /\ CoreTypes'
    BY <1>0, <1>1, <1>5, TypeParts
       DEF OtherTypes, MapsAgree, CoreTypes, CoreConnect, registry, jobs, global
  <2>5. RequestInv'
    <3>1. ASSUME NEW q \in Request \ {r} PROVE RequestOK(q)'
      BY <2>1, <2>3, OtherRequest, BusyHandler DEF CoreConnect
    <3>2. ShapeOK(r)'
      BY <1>0, <1>1, <2>1
         DEF ShapeOK, OfContext, OfHandle, HandleCall, ConnectStep, DisconnectStep,
             CoreConnect
    <3>3. OwnOK(r)' /\ GoneOK(r)'
      BY <1>0, <1>1, <1>5, <2>1, <2>2
         DEF OwnOK, GoneOK, OfContext, OfHandle, HandleCall, ConnectStep, DisconnectStep
    <3> QED BY <3>1, <3>2, <3>3 DEF RequestInv, RequestOK
  <2>6. RegistryInv'
    BY <2>3, FrameRegistry DEF CoreConnect
  <2>7. CoreInv'
    BY <1>0, <1>5, <2>2, TypeParts DEF IInv, CoreInv, CoreTypes
  <2>8. NoLeakedContext'
    <3> SUFFICES ASSUME NEW d \in coreContexts
                 PROVE  \/ d \in contexts[owner[d]] \union cleanRelease[owner[d]]
                        \/ \E q \in Busy(owner[d])' : Establishing(q, d)'
      BY <1>5 DEF NoLeakedContext, CoreConnect, registry, jobs
    <3>1. ASSUME NEW q \in Busy(owner[d]), Establishing(q, d)
          PROVE  q \in Busy(owner[d])' /\ Establishing(q, d)'
      BY <1>0, <1>5, <2>1, <3>1 DEF Busy, Establishing
    <3> QED BY <3>1 DEF IInv, NoLeakedContext
  <2>9. NoLeakedHandle'
    <3>1. r \in Busy(cardOwner[k])' /\ Connecting(r, k)' /\ req'[r].ctx = coreCards'[k]
      BY <1>0, <2>1, <2>2 DEF Busy, Connecting
    <3>2. ASSUME NEW j \in Card \ {k}, coreCards[j] # NoCtx
          PROVE  \/ handles'[cardOwner'[j]][j] = coreCards'[j]
                 \/ coreCards'[j] \in cleanRelease'[cardOwner'[j]]
                 \/ \E q \in Busy(cardOwner[j])' :
                      Connecting(q, j)' /\ req'[q].ctx = coreCards'[j]
      <4>1. CASE \/ handles[cardOwner[j]][j] = coreCards[j]
                 \/ coreCards[j] \in cleanRelease[cardOwner[j]]
        BY <2>2, <4>1 DEF CoreConnect, registry, jobs
      <4>2. ASSUME NEW q \in Busy(cardOwner[j]), Connecting(q, j),
                   req[q].ctx = coreCards[j]
            PROVE  /\ q \in Busy(cardOwner[j])' /\ Connecting(q, j)'
                   /\ req'[q].ctx = coreCards'[j]
        BY <1>0, <2>1, <2>2, <4>2 DEF Busy, Connecting
      <4> QED BY <3>2, <4>1, <4>2 DEF IInv, NoLeakedHandle
    <3> QED BY <2>2, <3>1, <3>2 DEF NoLeakedHandle
  <2> QED BY <2>1, <2>4, <2>5, <2>6, <2>7, <2>8, <2>9, PartsType DEF IInv
<1> QED BY <1>2, <1>3, <1>4, <1>5 DEF CoreConnect

-----------------------------------------------------------------------------
(* The registry is brought up to date                                      *)

\* r's processor changes its registry as PC/SC-Lite allows, and r goes on.
LEMMA RegistryStep ==
  ASSUME IInv, NEW r \in Request, NEW h \in Handler, h = req[r].handler,
         UNCHANGED <<handler, jobs, global, core>>,
         req' \in [Request -> RequestType], \A q \in Request \ {r} : req'[q] = req[q],
         RequestOK(r)',
         contexts' \in [Handler -> SUBSET Ctx],
         handles' \in [Handler -> [Card -> Ctx \union {NoCtx}]],
         handler[h] \in {"live", "deleted"},
         \A g \in Handler \ {h} : contexts'[g] = contexts[g] /\ handles'[g] = handles[g],
         \A c \in contexts'[h] : owner[c] = h,
         \A k \in Card : handles'[h][k] # NoCtx =>
           cardOwner[k] = h /\ handles'[h][k] \in contexts'[h],
         contexts[h] \intersect coreContexts \subseteq contexts'[h],
         \A k \in Card : coreCards[k] # NoCtx /\ handles[h][k] = coreCards[k] =>
           handles'[h][k] = coreCards[k],
         \A c \in Ctx : Establishing(r, c) => c \in contexts'[h],
         \A k \in Card : Connecting(r, k) /\ coreCards[k] # NoCtx
                           /\ coreCards[k] = req[r].ctx =>
           handles'[h][k] = coreCards[k]
  PROVE  IInv'
<1>1. OtherTypes' /\ MapsAgree' /\ CoreTypes'
  BY TypeParts DEF OtherTypes, MapsAgree, CoreTypes, jobs, global, core
<1>2. RequestInv'
  <2>1. ASSUME NEW q \in Request \ {r} PROVE RequestOK(q)'
    BY OtherRequest, BusyHandler, SameFrame
  <2> QED BY <2>1 DEF RequestInv
<1>3. RegistryInv'
  <2> SUFFICES ASSUME NEW g \in Handler PROVE
        /\ \A c \in contexts'[g] : owner[c] = g
        /\ \A k \in Card : handles'[g][k] # NoCtx => cardOwner[k] = g
        /\ \A c \in cancelJob[g] : owner[c] = g /\ handler[g] \in {"deleted", "gone"}
        /\ \A c \in cleanCancel[g] \union cleanRelease[g] :
             owner[c] = g /\ handler[g] = "gone"
    BY DEF RegistryInv, jobs, core
  <2> QED BY DEF IInv, RegistryInv
<1>4. CoreInv'
  BY DEF IInv, CoreInv, core
<1>5. NoLeakedContext'
  <2> SUFFICES ASSUME NEW c \in coreContexts
               PROVE  \/ c \in contexts'[owner[c]] \union cleanRelease[owner[c]]
                      \/ \E q \in Busy(owner[c])' : Establishing(q, c)'
    BY DEF NoLeakedContext, core, jobs
  <2>1. owner[c] \in Handler /\ c \in Ctx
    BY TypeParts DEF IInv, CoreInv, CoreTypes
  <2>2. CASE c \in contexts[owner[c]] \union cleanRelease[owner[c]]
    BY <2>1, <2>2
  <2>3. ASSUME NEW q \in Busy(owner[c]), Establishing(q, c)
        PROVE  \/ c \in contexts'[owner[c]]
               \/ q \in Busy(owner[c])' /\ Establishing(q, c)'
    <3>1. CASE q = r
      BY <2>1, <2>3, <3>1 DEF Busy
    <3>2. CASE q # r
      BY <2>3, <3>2 DEF Busy, Establishing, core
    <3> QED BY <3>1, <3>2
  <2> QED BY <2>2, <2>3 DEF IInv, NoLeakedContext
<1>6. NoLeakedHandle'
  <2> SUFFICES ASSUME NEW k \in Card, coreCards[k] # NoCtx
               PROVE  \/ handles'[cardOwner[k]][k] = coreCards[k]
                      \/ coreCards[k] \in cleanRelease[cardOwner[k]]
                      \/ \E q \in Busy(cardOwner[k])' :
                           Connecting(q, k)' /\ req'[q].ctx = coreCards[k]
    BY DEF NoLeakedHandle, core, jobs
  <2>1. cardOwner[k] \in Handler
    BY TypeParts DEF IInv, CoreInv, CoreTypes
  <2>2. CASE \/ handles[cardOwner[k]][k] = coreCards[k]
             \/ coreCards[k] \in cleanRelease[cardOwner[k]]
    BY <2>1, <2>2
  <2>3. ASSUME NEW q \in Busy(cardOwner[k]), Connecting(q, k), req[q].ctx = coreCards[k]
        PROVE  \/ handles'[cardOwner[k]][k] = coreCards[k]
               \/ /\ q \in Busy(cardOwner[k])' /\ Connecting(q, k)'
                  /\ req'[q].ctx = coreCards[k]
    <3>1. CASE q = r
      BY <2>1, <2>3, <3>1 DEF Busy
    <3>2. CASE q # r
      BY <2>3, <3>2 DEF Busy, Connecting, core
    <3> QED BY <3>1, <3>2
  <2> QED BY <2>2, <2>3 DEF IInv, NoLeakedHandle
<1> QED BY <1>1, <1>2, <1>3, <1>4, <1>5, <1>6, PartsType DEF IInv

\* What becomes of r when it goes on to have its result, or to the next call of
\* the fallback.
LEMMA GotoDone ==
  ASSUME IInv, NEW r \in Request, req[r].pc # "idle", Goto(r, "done"),
         UNCHANGED handler
  PROVE  /\ req' \in [Request -> RequestType] /\ RequestOK(r)'
         /\ \A q \in Request \ {r} : req'[q] = req[q]
<1>1. req' = [req EXCEPT ![r] = [req[r] EXCEPT !.pc = "done"]] /\ req[r] \in RequestType
  BY TypeParts DEF Goto
<1>2. [req[r] EXCEPT !.pc = "done"] \in RequestType
  BY <1>1 DEF RequestType, PC
<1>3. /\ req'[r].pc = "done" /\ req'[r].op = req[r].op /\ req'[r].handler = req[r].handler
      /\ req'[r].ctx = req[r].ctx /\ req'[r].card = req[r].card
  BY <1>1, TypeParts DEF RequestType
<1>4. RequestOK(r)
  BY DEF IInv, RequestInv
<1> QED
  BY <1>1, <1>2, <1>3, <1>4, TypeParts
     DEF RequestOK, ShapeOK, OwnOK, GoneOK, Admitted, OfContext, OfHandle

LEMMA ContinueOK ==
  ASSUME IInv, NEW r \in Request, req[r].pc # "idle",
         NEW op \in Fallback, NEW k \in Card \union {NoCard}, Continue(r, op, k),
         req[r].ctx \in Ctx, op \in DisconnectStep => k \in Card, UNCHANGED handler
  PROVE  /\ req' \in [Request -> RequestType] /\ RequestOK(r)'
         /\ \A q \in Request \ {r} : req'[q] = req[q]
<1> DEFINE new == [req[r] EXCEPT !.pc = "start", !.op = op, !.card = k]
<1>1. req' = [req EXCEPT ![r] = new] /\ req[r] \in RequestType
  BY TypeParts DEF Continue
<1>2. new \in RequestType
  BY <1>1 DEF RequestType, PC
<1>3. /\ req'[r].pc = "start" /\ req'[r].op = op /\ req'[r].handler = req[r].handler
      /\ req'[r].ctx = req[r].ctx /\ req'[r].card = k
  BY <1>1, TypeParts DEF RequestType
<1>4. ShapeOK(r)
  BY DEF IInv, RequestInv, RequestOK
<1>5. op \notin HandleCall
  BY DEF Fallback, HandleCall
<1>6. RequestOK(r)'
  BY <1>3, <1>4, <1>5
     DEF RequestOK, ShapeOK, OwnOK, GoneOK, Admitted, OfContext, OfHandle
<1> QED BY <1>1, <1>2, <1>6, TypeParts

\* A check of the registry that fails ends the process, and nothing else changes.
LEMMA CheckFails ==
  ASSUME IInv, crashed' = TRUE, UNCHANGED <<registry, req>>,
         UNCHANGED <<handler, jobs, policyReceived, fallbackList, shutDown, core>>
  PROVE  IInv'
<1> DEFINE M == {}
<1>1. /\ M \in SUBSET Request /\ \A q \in Request \ M : req'[q] = req[q]
      /\ \A q \in M : req[q].pc # "register" /\ RequestOK(q)'
  OBVIOUS
<1>2. CoreShrinks /\ JobsShrink /\ req' \in [Request -> RequestType]
  BY SameCore, SameJobs, TypeParts
<1>3. /\ UNCHANGED <<handler, registry>>
      /\ policyReceived' \in BOOLEAN /\ fallbackList' \subseteq Handler
      /\ shutDown' \in BOOLEAN /\ crashed' \in BOOLEAN
  BY TypeParts DEF OtherTypes
<1> HIDE DEF M
<1> QED BY <1>1, <1>2, <1>3, MoveStep

\* A registry that loses a context PC/SC-Lite has lost.
LEMMA RemoveContextStep ==
  ASSUME IInv, NEW r \in Request, NEW c \in Ctx, req[r].pc \in {"register", "revoke"},
         req[r].op \in ContextCall \union ConnectStep,
         req[r].pc = "register" => req[r].op = "release",
         c \notin coreContexts,
         RemoveContext(req[r].handler, c), Goto(r, "done"),
         UNCHANGED <<handler, jobs, global, core>>
  PROVE  IInv'
<1> DEFINE h == req[r].handler
<1>1. h \in Handler /\ handler[h] \in {"live", "deleted"}
  BY BusyHandler
<1>2. /\ contexts' \in [Handler -> SUBSET Ctx]
      /\ handles' \in [Handler -> [Card -> Ctx \union {NoCtx}]]
      /\ \A g \in Handler \ {h} : contexts'[g] = contexts[g] /\ handles'[g] = handles[g]
      /\ contexts'[h] = contexts[h] \ {c}
      /\ \A k \in Card :
           handles'[h][k] = IF handles[h][k] = c THEN NoCtx ELSE handles[h][k]
  BY <1>1, TypeParts DEF RemoveContext, OtherTypes
<1>3. \A d \in contexts'[h] : owner[d] = h
  BY <1>1, <1>2 DEF IInv, RegistryInv
<1>4. \A k \in Card : handles'[h][k] # NoCtx =>
        cardOwner[k] = h /\ handles'[h][k] \in contexts'[h]
  BY <1>1, <1>2, TypeParts DEF IInv, RegistryInv, MapsAgree
<1>5. \A k \in Card : coreCards[k] # NoCtx /\ handles[h][k] = coreCards[k] =>
        handles'[h][k] = coreCards[k]
  BY <1>2 DEF IInv, CoreInv
<1>6. /\ \A d \in Ctx : ~Establishing(r, d)
      /\ \A k \in Card : ~Connecting(r, k)
  BY DEF Establishing, Connecting, ConnectStep
<1>7. /\ req' \in [Request -> RequestType] /\ RequestOK(r)'
      /\ \A q \in Request \ {r} : req'[q] = req[q]
  BY GotoDone
<1>8. contexts[h] \intersect coreContexts \subseteq contexts'[h]
  BY <1>2
<1> HIDE DEF h
<1>9. h = req[r].handler
  BY DEF h
<1> QED BY <1>1, <1>2, <1>3, <1>4, <1>5, <1>6, <1>7, <1>8, <1>9, RegistryStep

\* A registry that loses a handle PC/SC-Lite has lost.
LEMMA RemoveHandleStep ==
  ASSUME IInv, NEW r \in Request, NEW k \in Card, req[r].pc \in {"register", "revoke"},
         req[r].op \in HandleCall \union DisconnectStep,
         coreCards[k] = NoCtx,
         RemoveHandle(req[r].handler, k),
         req' \in [Request -> RequestType], RequestOK(r)',
         \A q \in Request \ {r} : req'[q] = req[q],
         UNCHANGED <<handler, jobs, global, core>>
  PROVE  IInv'
<1> DEFINE h == req[r].handler
<1>1. h \in Handler /\ handler[h] \in {"live", "deleted"}
  BY BusyHandler
<1>2. /\ contexts' \in [Handler -> SUBSET Ctx]
      /\ handles' \in [Handler -> [Card -> Ctx \union {NoCtx}]]
      /\ \A g \in Handler \ {h} : contexts'[g] = contexts[g] /\ handles'[g] = handles[g]
      /\ contexts'[h] = contexts[h]
      /\ \A j \in Card : handles'[h][j] = IF j = k THEN NoCtx ELSE handles[h][j]
  BY <1>1, TypeParts DEF RemoveHandle, OtherTypes
<1>3. \A d \in contexts'[h] : owner[d] = h
  BY <1>1, <1>2 DEF IInv, RegistryInv
<1>4. \A j \in Card : handles'[h][j] # NoCtx =>
        cardOwner[j] = h /\ handles'[h][j] \in contexts'[h]
  BY <1>1, <1>2, TypeParts DEF IInv, RegistryInv, MapsAgree
<1>5. \A j \in Card : coreCards[j] # NoCtx /\ handles[h][j] = coreCards[j] =>
        handles'[h][j] = coreCards[j]
  BY <1>2
<1>6. /\ \A d \in Ctx : ~Establishing(r, d)
      /\ \A j \in Card : ~Connecting(r, j)
  BY DEF Establishing, Connecting, ConnectStep, HandleCall, DisconnectStep
<1>7. contexts[h] \intersect coreContexts \subseteq contexts'[h]
  BY <1>2
<1> HIDE DEF h
<1>8. h = req[r].handler
  BY DEF h
<1> QED BY <1>1, <1>2, <1>3, <1>4, <1>5, <1>6, <1>7, <1>8, RegistryStep

LEMMA RegisterStep ==
  ASSUME IInv, NEW r \in Request, Register(r)
  PROVE  IInv'
<1> DEFINE h == req[r].handler  c == req[r].ctx  k == req[r].card
<1>0. /\ req[r].pc = "register" /\ RequestOK(r) /\ Admitted(req[r])
      /\ h \in Handler /\ handler[h] \in {"live", "deleted"}
      /\ UNCHANGED <<handler, jobs, policyReceived, fallbackList, shutDown, core>>
  BY BusyHandler DEF Register, Admitted, IInv, RequestInv
<1>1. CASE RegisterEstablished(r, h, c)
  <2>0. req[r].op = "establish" /\ c \in Ctx /\ owner[c] = h
    BY <1>0, <1>1 DEF RegisterEstablished, RequestOK, ShapeOK, OwnOK
  <2>1. CASE AddContext(h, c) /\ Goto(r, "done") /\ UNCHANGED crashed
    <3>1. /\ contexts' \in [Handler -> SUBSET Ctx] /\ UNCHANGED handles
          /\ \A g \in Handler \ {h} : contexts'[g] = contexts[g]
          /\ contexts'[h] = contexts[h] \union {c}
      BY <1>0, <2>0, <2>1, TypeParts DEF AddContext, OtherTypes
    <3>2. \A d \in contexts'[h] : owner[d] = h
      BY <1>0, <2>0, <3>1 DEF IInv, RegistryInv
    <3>3. \A j \in Card : handles[h][j] # NoCtx =>
            cardOwner[j] = h /\ handles[h][j] \in contexts'[h]
      BY <1>0, <3>1, TypeParts DEF IInv, RegistryInv, MapsAgree
    <3>4. /\ \A d \in Ctx : Establishing(r, d) => d \in contexts'[h]
          /\ \A j \in Card : ~Connecting(r, j)
      BY <2>0, <3>1 DEF Establishing, Connecting, ConnectStep
    <3>5. /\ req' \in [Request -> RequestType] /\ RequestOK(r)'
          /\ \A q \in Request \ {r} : req'[q] = req[q]
      BY <1>0, <2>1, GotoDone
    <3>6. handles' \in [Handler -> [Card -> Ctx \union {NoCtx}]] /\ UNCHANGED global
      BY <1>0, <2>1, <3>1, TypeParts DEF OtherTypes, global
    <3> HIDE DEF h
    <3>7. h = req[r].handler
      BY DEF h
    <3> QED BY <1>0, <3>1, <3>2, <3>3, <3>4, <3>5, <3>6, <3>7, RegistryStep
  <2>2. CASE crashed' = TRUE /\ UNCHANGED <<registry, req>>
    BY <1>0, <2>2, CheckFails
  <2> QED BY <1>1, <2>1, <2>2 DEF RegisterEstablished, Check
<1>2. CASE RegisterReleased(r, h, c)
  <2>0. req[r].op = "release" /\ c \in Ctx /\ c \notin coreContexts
    BY <1>0, <1>2
       DEF RegisterReleased, RequestOK, ShapeOK, GoneOK, OfContext, ContextCall
  <2>1. CASE RemoveContext(h, c) /\ Goto(r, "done") /\ UNCHANGED crashed
    BY <1>0, <2>0, <2>1, RemoveContextStep DEF ContextCall, global
  <2>2. CASE crashed' = TRUE /\ UNCHANGED <<registry, req>>
    BY <1>0, <2>2, CheckFails
  <2> QED BY <1>2, <2>1, <2>2 DEF RegisterReleased, Check
<1>3. CASE RegisterConnected(r, h, c, k)
  <2>0. /\ req[r].op \in ConnectStep /\ c \in Ctx /\ k \in Card
        /\ owner[c] = h /\ cardOwner[k] = h
    BY <1>0, <1>3
       DEF RegisterConnected, RequestOK, ShapeOK, OwnOK, OfContext
  <2>1. CASE /\ handles[h][k] = NoCtx /\ c \in contexts[h]
             /\ AddHandle(h, c, k) /\ UNCHANGED crashed
             /\ Goto(r, "done") \/ Continue(r, "disconnect_reset", k)
    <3>1. /\ handles' \in [Handler -> [Card -> Ctx \union {NoCtx}]]
          /\ UNCHANGED contexts
          /\ \A g \in Handler \ {h} : handles'[g] = handles[g]
          /\ \A j \in Card : handles'[h][j] = IF j = k THEN c ELSE handles[h][j]
      BY <1>0, <2>0, <2>1, TypeParts DEF AddHandle, OtherTypes
    <3>2. \A d \in contexts[h] : owner[d] = h
      BY <1>0 DEF IInv, RegistryInv
    <3>3. \A j \in Card : handles'[h][j] # NoCtx =>
            cardOwner[j] = h /\ handles'[h][j] \in contexts[h]
      BY <1>0, <2>0, <2>1, <3>1, TypeParts DEF IInv, RegistryInv, MapsAgree
    <3>4. \A j \in Card : coreCards[j] # NoCtx /\ handles[h][j] = coreCards[j] =>
            handles'[h][j] = coreCards[j]
      BY <2>1, <3>1
    <3>5. /\ \A d \in Ctx : ~Establishing(r, d)
          /\ \A j \in Card : Connecting(r, j) /\ coreCards[j] # NoCtx
                               /\ coreCards[j] = req[r].ctx =>
               handles'[h][j] = coreCards[j]
      BY <2>0, <3>1 DEF Establishing, Connecting, ConnectStep
    <3>6. /\ req' \in [Request -> RequestType] /\ RequestOK(r)'
          /\ \A q \in Request \ {r} : req'[q] = req[q]
      BY <1>0, <2>0, <2>1, GotoDone, ContinueOK DEF Fallback
    <3>7. contexts' \in [Handler -> SUBSET Ctx] /\ UNCHANGED global
      BY <1>0, <2>1, <3>1, TypeParts DEF OtherTypes, global
    <3> HIDE DEF h
    <3>8. h = req[r].handler
      BY DEF h
    <3> QED
      BY <1>0, <3>1, <3>2, <3>3, <3>4, <3>5, <3>6, <3>7, <3>8, RegistryStep
  <2>2. CASE crashed' = TRUE /\ UNCHANGED <<registry, req>>
    BY <1>0, <2>2, CheckFails
  <2> QED BY <1>3, <2>1, <2>2 DEF RegisterConnected, Check
<1>4. CASE RegisterDisconnected(r, h, k)
  <2>0. /\ req[r].op \in DisconnectStep /\ k \in Card /\ coreCards[k] = NoCtx
        /\ req[r].op = "disconnect_reset" => c \in Ctx
    BY <1>0, <1>4
       DEF RegisterDisconnected, RequestOK, ShapeOK, GoneOK, OfHandle, Fallback
  <2>1. CASE /\ RemoveHandle(h, k) /\ UNCHANGED crashed
             /\ \/ Goto(r, "done")
                \/ req[r].op = "disconnect_reset" /\ Continue(r, "connect_again", NoCard)
    <3>1. /\ req' \in [Request -> RequestType] /\ RequestOK(r)'
          /\ \A q \in Request \ {r} : req'[q] = req[q]
      BY <1>0, <2>0, <2>1, GotoDone, ContinueOK DEF Fallback, DisconnectStep
    <3> QED BY <1>0, <2>0, <2>1, <3>1, RemoveHandleStep DEF global
  <2>2. CASE crashed' = TRUE /\ UNCHANGED <<registry, req>>
    BY <1>0, <2>2, CheckFails
  <2> QED BY <1>4, <2>1, <2>2 DEF RegisterDisconnected, Check
<1> QED BY <1>1, <1>2, <1>3, <1>4 DEF Register

LEMMA RevokeStep ==
  ASSUME IInv, NEW r \in Request, Revoke(r)
  PROVE  IInv'
<1> DEFINE h == req[r].handler  c == req[r].ctx  k == req[r].card
<1>0. /\ req[r].pc = "revoke" /\ RequestOK(r)
      /\ UNCHANGED <<handler, jobs, policyReceived, fallbackList, shutDown, core>>
  BY DEF Revoke, IInv, RequestInv
<1>1. CASE crashed' = TRUE /\ UNCHANGED <<registry, req>>
  BY <1>0, <1>1, CheckFails
<1>2. CASE /\ req[r].op \in ContextCall \union ConnectStep
           /\ RemoveContext(h, c) /\ Goto(r, "done") /\ UNCHANGED crashed
  <2>1. c \in Ctx /\ c \notin coreContexts
    BY <1>0, <1>2 DEF RequestOK, ShapeOK, GoneOK, OfContext
  <2> QED BY <1>0, <1>2, <2>1, RemoveContextStep DEF global
<1>3. CASE /\ req[r].op \in HandleCall \union DisconnectStep
           /\ RemoveHandle(h, k) /\ Goto(r, "done") /\ UNCHANGED crashed
  <2>1. k \in Card /\ coreCards[k] = NoCtx
    BY <1>0, <1>3 DEF RequestOK, ShapeOK, GoneOK, OfHandle
  <2> QED BY <1>0, <1>3, <2>1, RemoveHandleStep, GotoDone DEF global
<1> QED BY <1>1, <1>2, <1>3 DEF Revoke, Check

-----------------------------------------------------------------------------
(* Waits end, and the background threads and the manager do their work     *)

\* r moves to a point from which it has nothing to lose, and nothing else changes.
LEMMA OneMoves ==
  ASSUME IInv, NEW r \in Request, req[r].pc # "register",
         req' \in [Request -> RequestType], RequestOK(r)',
         \A q \in Request \ {r} : req'[q] = req[q],
         UNCHANGED <<handler, registry, jobs, global, core>>
  PROVE  IInv'
<1> DEFINE M == {r}
<1>1. /\ M \in SUBSET Request /\ \A q \in Request \ M : req'[q] = req[q]
      /\ \A q \in M : req[q].pc # "register" /\ RequestOK(q)'
  OBVIOUS
<1>2. CoreShrinks /\ JobsShrink
  BY SameCore, SameJobs
<1>3. /\ UNCHANGED <<handler, registry>>
      /\ policyReceived' \in BOOLEAN /\ fallbackList' \subseteq Handler
      /\ shutDown' \in BOOLEAN /\ crashed' \in BOOLEAN
  BY TypeParts DEF OtherTypes, global
<1> HIDE DEF M
<1> QED BY <1>1, <1>2, <1>3, MoveStep

LEMMA ConsultPolicyStep ==
  ASSUME IInv, NEW r \in Request, ConsultPolicy(r)
  PROVE  IInv'
<1>1. CASE Goto(r, "done")
  BY <1>1, DoneStep, SameCore DEF ConsultPolicy
<1>2. CASE Continue(r, "connect_any", NoCard)
  <2>1. req[r].ctx \in Ctx
    BY DEF ConsultPolicy, IInv, RequestInv, RequestOK, ShapeOK, OfContext, ContextCall
  <2>2. /\ req' \in [Request -> RequestType] /\ RequestOK(r)'
        /\ \A q \in Request \ {r} : req'[q] = req[q]
    BY <1>2, <2>1, ContinueOK DEF ConsultPolicy, Fallback, DisconnectStep
  <2> QED BY <2>2, OneMoves DEF ConsultPolicy
<1> QED BY <1>1, <1>2 DEF ConsultPolicy

\* The threads that wait on context c, which SCardCancel interrupts
Waiters(c) == {q \in Request : req[q].pc = "waiting" /\ req[q].ctx = c}

\* An interrupted thread has its result.
LEMMA InterruptedOK ==
  ASSUME IInv, NEW q \in Request, req[q].pc # "idle",
         req'[q] = [req[q] EXCEPT !.pc = "done"], UNCHANGED handler
  PROVE  RequestOK(q)' /\ req'[q] \in RequestType
<1>1. req[q] \in RequestType /\ RequestOK(q)
  BY TypeParts DEF IInv, RequestInv
<1>2. /\ req'[q].pc = "done" /\ req'[q].op = req[q].op /\ req'[q].handler = req[q].handler
      /\ req'[q].ctx = req[q].ctx /\ req'[q].card = req[q].card
  BY <1>1 DEF RequestType
<1>3. req'[q] \in RequestType
  BY <1>1 DEF RequestType, PC
<1>4. RequestOK(q)'
  BY <1>1, <1>2
     DEF RequestOK, ShapeOK, OwnOK, GoneOK, Admitted, OfContext, OfHandle
<1> QED BY <1>3, <1>4

\* The background threads cancel the waits on one context.
LEMMA InterruptStep ==
  ASSUME IInv, NEW c \in Ctx, req' = [q \in Request |-> Interrupted(q, c)], JobsShrink,
         UNCHANGED <<handler, registry, global, core>>
  PROVE  IInv'
<1>1. \A q \in Request \ Waiters(c) : req'[q] = req[q]
  BY DEF Interrupted, Waiters
<1>2. \A q \in Waiters(c) : q \in Request /\ req'[q] = [req[q] EXCEPT !.pc = "done"]
  BY DEF Interrupted, Waiters
<1>3. \A q \in Waiters(c) :
        req[q].pc # "register" /\ RequestOK(q)' /\ req'[q] \in RequestType
  BY <1>2, InterruptedOK DEF Waiters
<1>4. req' \in [Request -> RequestType]
  <2>1. \A q \in Request : Interrupted(q, c) \in RequestType
    BY <1>1, <1>3, TypeParts
  <2> QED BY <2>1
<1>5. Waiters(c) \in SUBSET Request
  BY DEF Waiters
<1>6. /\ CoreShrinks /\ UNCHANGED <<handler, registry>>
      /\ policyReceived' \in BOOLEAN /\ fallbackList' \subseteq Handler
      /\ shutDown' \in BOOLEAN /\ crashed' \in BOOLEAN
  BY TypeParts, SameCore DEF OtherTypes, global
<1> QED BY <1>1, <1>3, <1>4, <1>5, <1>6, MoveStep

LEMMA CoreCancelStep ==
  ASSUME IInv, NEW r \in Request, CoreCancel(r)
  PROVE  IInv'
<1> DEFINE c == req[r].ctx
<1>1. /\ Admitted(req[r]) /\ OfContext(req[r]) /\ ~OfHandle(req[r])
      /\ req[r].pc = "core"
  BY DEF CoreCancel, Admitted, OfContext, OfHandle, ContextCall, HandleCall, DisconnectStep
<1>2. c \in Ctx /\ owner[c] = req[r].handler
  BY <1>1, AdmittedOwn
<1>3. CASE c \notin coreContexts
  BY <1>1, <1>2, <1>3, GotoStep, SameCore DEF CoreCancel, PC, core
<1>4. CASE c \in coreContexts
  <2> DEFINE M == Waiters(c) \union {r}
  <2>1. req' = [[q \in Request |-> Interrupted(q, c)] EXCEPT ![r].pc = "done"]
    BY <1>4 DEF CoreCancel
  <2>2. req'[r] = [req[r] EXCEPT !.pc = "done"]
    BY <1>1, <2>1 DEF Interrupted
  <2>3. \A q \in Request \ M : req'[q] = req[q]
    BY <2>1 DEF Interrupted, Waiters
  <2>4. \A q \in M : q \in Request /\ req'[q] = [req[q] EXCEPT !.pc = "done"]
    BY <2>1, <2>2 DEF Interrupted, Waiters
  <2>5. \A q \in M : req[q].pc \notin {"idle", "register"}
    BY <1>1 DEF Waiters
  <2>6. \A q \in M : RequestOK(q)' /\ req'[q] \in RequestType
    BY <2>4, <2>5, InterruptedOK DEF CoreCancel
  <2>7. req' \in [Request -> RequestType]
    <3>1. \A q \in Request : req'[q] \in RequestType
      BY <2>3, <2>6, TypeParts
    <3>2. DOMAIN req' = Request /\ req' = [q \in Request |-> req'[q]]
      BY <2>1
    <3> QED BY <3>1, <3>2
  <2>8. M \in SUBSET Request
    BY DEF Waiters
  <2>9. /\ CoreShrinks /\ JobsShrink /\ UNCHANGED <<handler, registry>>
        /\ policyReceived' \in BOOLEAN /\ fallbackList' \subseteq Handler
        /\ shutDown' \in BOOLEAN /\ crashed' \in BOOLEAN
    BY TypeParts, SameCore, SameJobs DEF OtherTypes, global, CoreCancel
  <2> HIDE DEF M
  <2> QED BY <2>3, <2>5, <2>6, <2>7, <2>8, <2>9, MoveStep
<1> QED BY <1>3, <1>4

LEMMA CancelJobStep ==
  ASSUME IInv, NEW h \in Handler, NEW c \in Ctx,
         CancelRunning(h, c) \/ CleanupCancel(h, c)
  PROVE  IInv'
<1>1. JobsShrink
  BY TypeParts DEF JobsShrink, OtherTypes, CancelRunning, CleanupCancel
<1> QED BY <1>1, InterruptStep DEF CancelRunning, CleanupCancel

\* PC/SC-Lite forgets a context while no thread moves.
LEMMA QuietForget ==
  ASSUME IInv, NEW c \in Ctx, Forget(c), JobsShrink,
         UNCHANGED <<handler, registry, req, global>>
  PROVE  IInv'
<1> DEFINE M == {}
<1>1. /\ M \in SUBSET Request /\ \A q \in Request \ M : req'[q] = req[q]
      /\ \A q \in M : req[q].pc # "register" /\ RequestOK(q)'
  OBVIOUS
<1>2. CoreShrinks /\ req' \in [Request -> RequestType]
  BY ForgetShrinks, TypeParts
<1>3. /\ UNCHANGED <<handler, registry>>
      /\ policyReceived' \in BOOLEAN /\ fallbackList' \subseteq Handler
      /\ shutDown' \in BOOLEAN /\ crashed' \in BOOLEAN
  BY TypeParts DEF OtherTypes, global
<1> HIDE DEF M
<1> QED BY <1>1, <1>2, <1>3, MoveStep

LEMMA CleanupReleaseStep ==
  ASSUME IInv, NEW h \in Handler, NEW c \in Ctx, CleanupRelease(h, c)
  PROVE  IInv'
<1>1. c \notin coreContexts'
  BY DEF CleanupRelease, Forget
<1>2. JobsShrink
  BY <1>1, TypeParts DEF JobsShrink, OtherTypes, CleanupRelease
<1> QED BY <1>2, QuietForget DEF CleanupRelease

LEMMA CoreRevokesStep ==
  ASSUME IInv, NEW c \in Ctx, CoreRevokes(c)
  PROVE  IInv'
BY QuietForget, SameJobs DEF CoreRevokes

\* A change of the manager's own state
LEMMA ManagerQuiet ==
  ASSUME IInv, UNCHANGED <<handler, registry, req, jobs, core>>,
         policyReceived' \in BOOLEAN, fallbackList' \subseteq Handler,
         shutDown' \in BOOLEAN, crashed' \in BOOLEAN
  PROVE  IInv'
<1> DEFINE M == {}
<1>1. /\ M \in SUBSET Request /\ \A q \in Request \ M : req'[q] = req[q]
      /\ \A q \in M : req[q].pc # "register" /\ RequestOK(q)'
  OBVIOUS
<1>2. /\ CoreShrinks /\ JobsShrink /\ req' \in [Request -> RequestType]
      /\ UNCHANGED <<handler, registry>>
  BY SameCore, SameJobs, TypeParts
<1> HIDE DEF M
<1> QED BY <1>1, <1>2, MoveStep

LEMMA ReceiveRequestStep ==
  ASSUME IInv, NEW h \in Handler, NEW r \in Request, NEW op \in Call,
         NEW c \in Ctx \union {NoCtx}, NEW k \in Card \union {NoCard},
         ReceiveRequest(h, r, op, c, k)
  PROVE  IInv'
<1> DEFINE new == [pc |-> "start", handler |-> h, op |-> op, ctx |-> c, card |-> k]
<1>1. req' = [req EXCEPT ![r] = new] /\ new \in RequestType
  BY DEF ReceiveRequest, RequestType, PC
<1>2. /\ req' \in [Request -> RequestType] /\ req'[r] = new
      /\ \A q \in Request \ {r} : req'[q] = req[q]
  BY <1>1, TypeParts
<1>3. /\ new.pc = "start" /\ new.handler = h /\ new.op = op /\ new.ctx = c /\ new.card = k
  OBVIOUS
<1>4. /\ op \in ContextCall \union ConnectStep => c \in Ctx
      /\ op \in HandleCall \union DisconnectStep => k \in Card
      /\ op \notin Fallback
  BY DEF ReceiveRequest, Call, ContextCall, HandleCall, ConnectStep, DisconnectStep, Fallback
<1>5. h # NoHandler /\ handler'[h] = "live"
  BY ClientAssumption DEF ReceiveRequest
<1> HIDE DEF new
<1>6. RequestOK(r)'
  BY <1>2, <1>3, <1>4, <1>5
     DEF RequestOK, ShapeOK, OwnOK, GoneOK, Admitted, OfContext, OfHandle
<1> QED BY <1>2, <1>6, OneMoves DEF ReceiveRequest

LEMMA CreateHandlerStep ==
  ASSUME IInv, NEW h \in Handler, CreateHandler(h)
  PROVE  IInv'
<1>1. /\ handler' \in [Handler -> {"none", "live", "deleted", "gone"}]
      /\ handler[h] = "none" /\ handler'[h] = "live"
      /\ \A g \in Handler \ {h} : handler'[g] = handler[g]
  BY TypeParts DEF CreateHandler, OtherTypes
<1>2. OtherTypes' /\ MapsAgree' /\ CoreTypes'
  BY <1>1, TypeParts
     DEF OtherTypes, MapsAgree, CoreTypes, CreateHandler, registry, jobs, global, core
<1>3. RequestInv'
  <2>1. ASSUME NEW q \in Request, req[q].pc # "idle"
        PROVE  handler'[req[q].handler] \in {"live", "deleted"}
    BY <1>1, <2>1, BusyHandler
  <2>2. ASSUME NEW q \in Request PROVE RequestOK(q)'
    BY <2>1, OtherRequest, SameFrame DEF CreateHandler
  <2> QED BY <2>2 DEF RequestInv
<1>4. RegistryInv'
  <2> SUFFICES ASSUME NEW g \in Handler PROVE
        /\ \A c \in contexts[g] : owner[c] = g
        /\ \A k \in Card : handles[g][k] # NoCtx => cardOwner[k] = g
        /\ \A c \in cancelJob[g] : owner[c] = g /\ handler'[g] \in {"deleted", "gone"}
        /\ \A c \in cleanCancel[g] \union cleanRelease[g] :
             owner[c] = g /\ handler'[g] = "gone"
    BY DEF RegistryInv, CreateHandler, registry, jobs, core
  <2> QED BY <1>1 DEF IInv, RegistryInv
<1>5. CoreInv' /\ NoLeakedContext' /\ NoLeakedHandle'
  BY DEF IInv, CoreInv, NoLeakedContext, NoLeakedHandle, Busy, Establishing, Connecting,
         CreateHandler, registry, jobs, core
<1>6. req' \in [Request -> RequestType]
  BY TypeParts DEF CreateHandler
<1> QED BY <1>2, <1>3, <1>4, <1>5, <1>6, PartsType DEF IInv

\* The processor goes: what its registry held is what the cleanup has to release.
LEMMA DestroyStep ==
  ASSUME IInv, NEW h \in Handler, handler[h] \in {"live", "deleted"}, Destroy(h),
         req' \in [Request -> RequestType],
         \A q \in Request : RequestOK(q)',
         \A q \in Request : req'[q] = req[q] \/ req[q].pc = "done",
         \A q \in Busy(h) : req[q].pc = "done",
         cancelJob' \in [Handler -> SUBSET Ctx],
         \A g \in Handler \ {h} : cancelJob'[g] = cancelJob[g],
         cancelJob'[h] \subseteq cancelJob[h] \union contexts[h],
         UNCHANGED <<global, core>>
  PROVE  IInv'
<1>1. /\ handler' \in [Handler -> {"none", "live", "deleted", "gone"}]
      /\ contexts' \in [Handler -> SUBSET Ctx]
      /\ handles' \in [Handler -> [Card -> Ctx \union {NoCtx}]]
      /\ cleanCancel' \in [Handler -> SUBSET Ctx]
      /\ cleanRelease' \in [Handler -> SUBSET Ctx]
  BY TypeParts DEF Destroy, OtherTypes
<1>2. /\ handler'[h] = "gone" /\ contexts'[h] = {}
      /\ \A k \in Card : handles'[h][k] = NoCtx
      /\ cleanCancel'[h] = contexts[h] /\ cleanRelease'[h] = contexts[h]
  BY TypeParts DEF Destroy, OtherTypes
<1>3. \A g \in Handler \ {h} :
        /\ handler'[g] = handler[g] /\ contexts'[g] = contexts[g]
        /\ handles'[g] = handles[g] /\ cleanCancel'[g] = cleanCancel[g]
        /\ cleanRelease'[g] = cleanRelease[g]
  BY TypeParts DEF Destroy, OtherTypes
<1>4. cleanRelease[h] = {}
  BY DEF IInv, RegistryInv
<1>5. OtherTypes' /\ MapsAgree' /\ CoreTypes'
  <2>1. OtherTypes' /\ CoreTypes'
    BY <1>1, TypeParts DEF OtherTypes, CoreTypes, global, core
  <2>2. MapsAgree'
    BY <1>2, <1>3, TypeParts DEF MapsAgree
  <2> QED BY <2>1, <2>2
<1>6. RequestInv'
  BY DEF RequestInv
<1>7. RegistryInv'
  <2> SUFFICES ASSUME NEW g \in Handler PROVE
        /\ \A c \in contexts'[g] : owner[c] = g
        /\ \A k \in Card : handles'[g][k] # NoCtx => cardOwner[k] = g
        /\ \A c \in cancelJob'[g] : owner[c] = g /\ handler'[g] \in {"deleted", "gone"}
        /\ \A c \in cleanCancel'[g] \union cleanRelease'[g] :
             owner[c] = g /\ handler'[g] = "gone"
    BY DEF RegistryInv, core
  <2>1. CASE g = h
    BY <1>2, <2>1 DEF IInv, RegistryInv
  <2>2. CASE g # h
    BY <1>3, <2>2 DEF IInv, RegistryInv
  <2> QED BY <2>1, <2>2
<1>8. CoreInv'
  BY DEF IInv, CoreInv, core
<1>9. NoLeakedContext'
  <2> SUFFICES ASSUME NEW c \in coreContexts
               PROVE  \/ c \in contexts'[owner[c]] \union cleanRelease'[owner[c]]
                      \/ \E q \in Busy(owner[c])' : Establishing(q, c)'
    BY DEF NoLeakedContext, core
  <2>1. owner[c] \in Handler
    BY TypeParts DEF IInv, CoreInv, CoreTypes
  <2>2. CASE c \in contexts[owner[c]] \union cleanRelease[owner[c]]
    BY <1>2, <1>3, <1>4, <2>1, <2>2
  <2>3. ASSUME NEW q \in Busy(owner[c]), Establishing(q, c)
        PROVE  q \in Busy(owner[c])' /\ Establishing(q, c)'
    BY <2>3 DEF Busy, Establishing, core
  <2> QED BY <2>2, <2>3 DEF IInv, NoLeakedContext
<1>10. NoLeakedHandle'
  <2> SUFFICES ASSUME NEW k \in Card, coreCards[k] # NoCtx
               PROVE  \/ handles'[cardOwner[k]][k] = coreCards[k]
                      \/ coreCards[k] \in cleanRelease'[cardOwner[k]]
                      \/ \E q \in Busy(cardOwner[k])' :
                           Connecting(q, k)' /\ req'[q].ctx = coreCards[k]
    BY DEF NoLeakedHandle, core
  <2>1. cardOwner[k] \in Handler
    BY TypeParts DEF IInv, CoreInv, CoreTypes
  <2>2. CASE \/ handles[cardOwner[k]][k] = coreCards[k]
             \/ coreCards[k] \in cleanRelease[cardOwner[k]]
    <3>1. CASE cardOwner[k] = h
      <4>1. handles[h][k] = coreCards[k]
        BY <1>4, <2>2, <3>1
      <4>2. coreCards[k] \in contexts[h]
        BY <4>1, TypeParts DEF MapsAgree
      <4> QED BY <1>2, <3>1, <4>2
    <3>2. CASE cardOwner[k] # h
      BY <1>3, <2>1, <2>2, <3>2
    <3> QED BY <3>1, <3>2
  <2>3. ASSUME NEW q \in Busy(cardOwner[k]), Connecting(q, k), req[q].ctx = coreCards[k]
        PROVE  /\ q \in Busy(cardOwner[k])' /\ Connecting(q, k)'
               /\ req'[q].ctx = coreCards[k]
    BY <2>3 DEF Busy, Connecting, core
  <2> QED BY <2>2, <2>3 DEF IInv, NoLeakedHandle
<1> QED BY <1>5, <1>6, <1>7, <1>8, <1>9, <1>10, PartsType DEF IInv

\* When h goes, a thread that works for another processor is not concerned.
LEMMA NotOfHandler ==
  ASSUME IInv, NEW h \in Handler, Destroy(h), UNCHANGED core,
         NEW q \in Request, q \notin Busy(h), req'[q] = req[q]
  PROVE  RequestOK(q)'
<1>1. req[q].pc # "idle" =>
        req[q].handler \in Handler \ {h} /\ handler[req[q].handler] \in {"live", "deleted"}
  BY BusyHandler DEF Busy
<1>2. \A g \in Handler \ {h} : handler'[g] = handler[g]
  BY TypeParts DEF Destroy, OtherTypes
<1> QED BY <1>1, <1>2, OtherRequest, SameFrame

LEMMA DeleteHandlerStep ==
  ASSUME IInv, NEW h \in Handler, DeleteHandler(h)
  PROVE  IInv'
<1>1. /\ cancelJob' \in [Handler -> SUBSET Ctx] /\ cancelJob'[h] = contexts[h]
      /\ \A g \in Handler \ {h} : cancelJob'[g] = cancelJob[g]
  BY TypeParts DEF DeleteHandler, OtherTypes
<1>2. CASE Busy(h) = {}
  <2>1. \A q \in Request : RequestOK(q)'
    BY <1>2, NotOfHandler DEF DeleteHandler
  <2>2. req' \in [Request -> RequestType] /\ req' = req
    BY TypeParts DEF DeleteHandler
  <2> QED BY <1>1, <1>2, <2>1, <2>2, DestroyStep DEF DeleteHandler
<1>3. CASE Busy(h) # {}
  <2>0. /\ handler' = [handler EXCEPT ![h] = "deleted"]
        /\ UNCHANGED <<registry, cleanCancel, cleanRelease, req, global, core>>
    BY <1>3 DEF DeleteHandler
  <2>1. /\ handler' \in [Handler -> {"none", "live", "deleted", "gone"}]
        /\ handler[h] = "live" /\ handler'[h] = "deleted"
        /\ \A g \in Handler \ {h} : handler'[g] = handler[g]
    BY <2>0, TypeParts DEF DeleteHandler, OtherTypes
  <2>2. OtherTypes' /\ MapsAgree' /\ CoreTypes'
    BY <1>1, <2>0, <2>1, TypeParts
       DEF OtherTypes, MapsAgree, CoreTypes, registry, global, core
  <2>3. RequestInv'
    <3>1. ASSUME NEW q \in Request, req[q].pc # "idle"
          PROVE  handler'[req[q].handler] \in {"live", "deleted"}
      BY <2>1, <3>1, BusyHandler
    <3>2. ASSUME NEW q \in Request PROVE RequestOK(q)'
      BY <2>0, <3>1, OtherRequest, SameFrame
    <3> QED BY <3>2 DEF RequestInv
  <2>4. RegistryInv'
    <3> SUFFICES ASSUME NEW g \in Handler PROVE
          /\ \A c \in contexts[g] : owner[c] = g
          /\ \A k \in Card : handles[g][k] # NoCtx => cardOwner[k] = g
          /\ \A c \in cancelJob'[g] : owner[c] = g /\ handler'[g] \in {"deleted", "gone"}
          /\ \A c \in cleanCancel[g] \union cleanRelease[g] :
               owner[c] = g /\ handler'[g] = "gone"
      BY <2>0 DEF RegistryInv, registry, core
    <3>1. CASE g = h
      BY <1>1, <2>1, <3>1 DEF IInv, RegistryInv
    <3>2. CASE g # h
      BY <1>1, <2>1, <3>2 DEF IInv, RegistryInv
    <3> QED BY <3>1, <3>2
  <2>5. CoreInv' /\ NoLeakedContext' /\ NoLeakedHandle'
    BY <2>0 DEF IInv, CoreInv, NoLeakedContext, NoLeakedHandle, Busy, Establishing,
                Connecting, registry, core
  <2>6. req' \in [Request -> RequestType]
    BY <2>0, TypeParts
  <2> QED BY <2>2, <2>3, <2>4, <2>5, <2>6, PartsType DEF IInv
<1> QED BY <1>2, <1>3

LEMMA FinishStep ==
  ASSUME IInv, NEW r \in Request, Finish(r)
  PROVE  IInv'
<1> DEFINE h == req[r].handler
<1>0. h \in Handler /\ h # NoHandler /\ handler[h] \in {"live", "deleted"}
  BY BusyHandler DEF Finish
<1>1. IdleRequest \in RequestType
  BY DEF IdleRequest, RequestType, PC
<1>2. /\ req' \in [Request -> RequestType] /\ req'[r] = IdleRequest
      /\ \A q \in Request \ {r} : req'[q] = req[q]
  BY <1>1, TypeParts DEF Finish
<1>3. RequestOK(r)'
  BY <1>2
     DEF RequestOK, ShapeOK, OwnOK, GoneOK, Admitted, OfContext, OfHandle, IdleRequest,
         ContextCall, HandleCall, ConnectStep, DisconnectStep, Fallback
<1>4. CASE handler[h] = "deleted" /\ Busy(h) = {r}
  <2>1. Destroy(h) /\ UNCHANGED <<cancelJob, global, core>>
    BY <1>4 DEF Finish
  <2>2. \A q \in Request \ {r} : RequestOK(q)'
    BY <1>0, <1>2, <1>4, <2>1, NotOfHandler
  <2>3. \A q \in Request : RequestOK(q)' /\ (req'[q] = req[q] \/ req[q].pc = "done")
    BY <1>2, <1>3, <2>2 DEF Finish
  <2>4. \A q \in Busy(h) : req[q].pc = "done"
    BY <1>4 DEF Finish
  <2>5. cancelJob' \in [Handler -> SUBSET Ctx]
    BY <2>1, TypeParts DEF OtherTypes
  <2> HIDE DEF h
  <2> QED BY <1>0, <1>2, <2>1, <2>3, <2>4, <2>5, DestroyStep
<1>5. CASE ~(handler[h] = "deleted" /\ Busy(h) = {r})
  BY <1>2, <1>3, <1>5, OneMoves DEF Finish, jobs
<1> QED BY <1>4, <1>5

-----------------------------------------------------------------------------
(* The invariant, and what follows from it                                 *)

LEMMA InitIInv == Init => IInv
<1> SUFFICES ASSUME Init PROVE IInv
  OBVIOUS
<1>1. IdleRequest \in RequestType /\ IdleRequest.pc = "idle"
      /\ IdleRequest.handler = NoHandler /\ IdleRequest.op = "none"
  BY DEF IdleRequest, RequestType, PC
<1>2. req \in [Request -> RequestType] /\ \A r \in Request : req[r] = IdleRequest
  BY <1>1 DEF Init
<1>3. \A h \in Handler : Busy(h) = {}
  BY <1>1, <1>2, ClientAssumption DEF Busy
<1>4. TypeOK
  BY <1>2, <1>3 DEF Init, TypeOK, RequestType
<1>5. RequestInv
  BY <1>1, <1>2
     DEF RequestInv, RequestOK, ShapeOK, OwnOK, GoneOK, Admitted, OfContext, OfHandle,
         ContextCall, HandleCall, ConnectStep, DisconnectStep, Fallback
<1>6. RegistryInv /\ CoreInv /\ NoLeakedContext /\ NoLeakedHandle
  BY DEF Init, RegistryInv, CoreInv, NoLeakedContext, NoLeakedHandle
<1> QED BY <1>4, <1>5, <1>6 DEF IInv

LEMMA RequestStepIInv ==
  ASSUME IInv, NEW r \in Request, RequestStep(r)
  PROVE  IInv'
BY CheckContextStep, CheckHandleStep, CoreEstablishStep, CoreReleaseStep,
   CoreConnectStep, CoreDisconnectStep, CoreCallStep, StatusStep, CoreCancelStep,
   RegisterStep, RevokeStep, ConsultPolicyStep, FinishStep
   DEF RequestStep

LEMMA ManagerStepIInv == ASSUME IInv, ManagerStep PROVE IInv'
<1>1. CASE ShutDown
  BY <1>1, ManagerQuiet, TypeParts DEF ShutDown, OtherTypes
<1>2. ASSUME NEW list \in FallbackPolicy, UpdateAdminPolicy(list) PROVE IInv'
  <2>1. list \subseteq Handler
    BY ClientAssumption
  <2> QED BY <1>2, <2>1, ManagerQuiet, TypeParts DEF UpdateAdminPolicy, OtherTypes
<1> QED
  BY <1>1, <1>2, CreateHandlerStep, DeleteHandlerStep, ReceiveRequestStep DEF ManagerStep

LEMMA NextIInv == IInv /\ [Next]_vars => IInv'
<1> SUFFICES ASSUME IInv, [Next]_vars PROVE IInv'
  OBVIOUS
<1>1. CASE UNCHANGED vars
  BY <1>1, ManagerQuiet, TypeParts DEF vars, global, OtherTypes
<1>2. CASE ManagerStep
  BY <1>2, ManagerStepIInv
<1>3. ASSUME NEW r \in Request, RequestStep(r) \/ WaitEnds(r) \/ ReaderEvent(r)
      PROVE  IInv'
  BY <1>3, RequestStepIInv, StatusStep DEF WaitEnds
<1>4. ASSUME NEW h \in Handler, JobStep(h) PROVE IInv'
  BY <1>4, CancelJobStep, CleanupReleaseStep DEF JobStep
<1>5. ASSUME NEW c \in Ctx, CoreRevokes(c) PROVE IInv'
  BY <1>5, CoreRevokesStep
<1> QED BY <1>1, <1>2, <1>3, <1>4, <1>5 DEF Next

LEMMA AlwaysIInv == Spec => []IInv
<1> QED BY InitIInv, NextIInv, PTL DEF Spec

\* Types, agreement of the two maps of a registry, and that a processor that is
\* gone has no entries and no threads.
THEOREM TypeCorrect == Spec => []TypeOK
<1>1. IInv => TypeOK
  BY DEF IInv
<1> QED BY <1>1, AlwaysIInv, PTL

\* A request reaches PC/SC-Lite only with what its own client was given, whatever
\* the clients ask for: ContainsContext and ContainsHandle are enough.
THEOREM ClientsIsolated == Spec => []Isolation
<1>1. IInv => Isolation
  <2> SUFFICES ASSUME IInv, NEW r \in Request, InCore(r)
               PROVE  /\ req[r].op \in ContextCall \union ConnectStep
                           => owner[req[r].ctx] = req[r].handler
                      /\ req[r].op \in HandleCall \union DisconnectStep
                           => cardOwner[req[r].card] = req[r].handler
    BY DEF Isolation
  <2>1. Admitted(req[r])
    BY DEF InCore, Admitted
  <2> QED BY <2>1, AdmittedOwn DEF OfContext, OfHandle
<1> QED BY <1>1, AlwaysIInv, PTL

\* No context that lives in PC/SC-Lite is forgotten, at any point of the life of
\* its processor and of the requests that outlive its deletion.
THEOREM ContextsTracked == Spec => []NoLeakedContext
<1>1. IInv => NoLeakedContext
  BY DEF IInv
<1> QED BY <1>1, AlwaysIInv, PTL

\* No card handle is forgotten, those of the SCardConnect fallback included.
THEOREM HandlesTracked == Spec => []NoLeakedHandle
<1>1. IInv => NoLeakedHandle
  BY DEF IInv
<1> QED BY <1>1, AlwaysIInv, PTL

\* A context of a live client disappears only by that client's own release, or by
\* PC/SC-Lite's own doing: the cleanup of a processor touches nobody else's.
THEOREM OnlyOwnersRelease == Spec => OnlyOwnerReleases
<1> DEFINE Allowed(c) ==
      \/ CoreMayRevoke
      \/ handler[owner[c]] = "gone"
      \/ \E r \in Busy(owner[c]) : req[r].op = "release" /\ req[r].ctx = c
<1>1. ASSUME IInv, [Next]_vars, NEW c \in coreContexts \ coreContexts'
      PROVE  Allowed(c)
  <2>1. ASSUME NEW r \in Request, RequestStep(r) PROVE Allowed(c)
    <3>1. CoreRelease(r) /\ req[r].ctx = c
      BY <1>1, <2>1
         DEF RequestStep, CheckContext, CheckHandle, CoreEstablish, CoreRelease,
             CoreConnect, CoreDisconnect, CoreCardCall, CoreContextCall, CoreStatus,
             StatusScanned, CoreCancel, Register, Revoke, ConsultPolicy, Finish, Forget,
             core
    <3>2. Admitted(req[r]) /\ OfContext(req[r]) /\ req[r].op = "release"
      BY <3>1 DEF CoreRelease, Admitted, OfContext, ContextCall
    <3>3. req[r].handler = owner[c]
      BY <1>1, <3>1, <3>2, AdmittedOwn
    <3> QED BY <3>1, <3>2, <3>3 DEF Busy
  <2>2. ASSUME NEW h \in Handler, JobStep(h) PROVE Allowed(c)
    <3>1. CleanupRelease(h, c)
      BY <1>1, <2>2
         DEF JobStep, CancelRunning, CleanupCancel, CleanupRelease, Forget, core
    <3> QED BY <1>1, <3>1 DEF CleanupRelease, IInv, RegistryInv
  <2>3. ASSUME NEW d \in Ctx, CoreRevokes(d) PROVE Allowed(c)
    BY <2>3 DEF CoreRevokes
  <2>4. CASE \/ UNCHANGED vars \/ ManagerStep
             \/ \E r \in Request : WaitEnds(r) \/ ReaderEvent(r)
    BY <1>1, <2>4
       DEF vars, core, ManagerStep, CreateHandler, DeleteHandler, ShutDown,
           UpdateAdminPolicy, ReceiveRequest, WaitEnds, StatusTimeout, ReaderEvent
  <2> QED BY <1>1, <2>1, <2>2, <2>3, <2>4 DEF Next
<1>2. IInv /\ [Next]_vars =>
        [\A c \in coreContexts \ coreContexts' : Allowed(c)]_vars
  BY <1>1
<1> QED BY <1>2, AlwaysIInv, PTL DEF Spec, OnlyOwnerReleases

\* A client's wait for a reader ends by itself, by the client's own SCardCancel, or
\* because its handler was deleted: the cancellation and cleanup threads of other
\* processors do not reach it.
THEOREM OnlyOwnersInterrupt == Spec => OnlyOwnerInterrupts
<1> DEFINE Allowed(r) ==
      \/ StatusTimeout(r)
      \/ handler[req[r].handler] # "live"
      \/ \E q \in Busy(req[r].handler) : req[q].op = "cancel" /\ req[q].ctx = req[r].ctx
<1>1. ASSUME IInv, [Next]_vars, NEW r \in Request, req[r].pc = "waiting",
             req'[r].pc = "done"
      PROVE  Allowed(r)
  <2>0. /\ req[r] \in RequestType /\ req[r].op = "status"
        /\ req[r].ctx \in Ctx /\ owner[req[r].ctx] = req[r].handler
        /\ req[r].handler \in Handler
    <3>1. req[r].op = "status"
      BY <1>1 DEF IInv, RequestInv, RequestOK, ShapeOK
    <3> QED BY <1>1, <3>1, TypeParts, AdmittedOwn, BusyHandler
            DEF Admitted, OfContext, ContextCall
  <2>1. ASSUME NEW q \in Request, CoreCancel(q) PROVE Allowed(r)
    <3>1. Admitted(req[q]) /\ OfContext(req[q]) /\ req[q].op = "cancel" /\ q # r
      BY <1>1, <2>1 DEF CoreCancel, Admitted, OfContext, ContextCall
    <3>2. req[q].ctx = req[r].ctx
      BY <1>1, <2>0, <2>1, <3>1, TypeParts DEF CoreCancel, Interrupted, Goto
    <3>3. req[q].handler = req[r].handler
      BY <1>1, <2>0, <3>1, <3>2, AdmittedOwn
    <3> QED BY <3>1, <3>2, <3>3 DEF Busy
  <2>2. ASSUME NEW h \in Handler, NEW c \in Ctx, CancelRunning(h, c) \/ CleanupCancel(h, c)
        PROVE  Allowed(r)
    <3>1. req[r].ctx = c
      BY <1>1, <2>2 DEF CancelRunning, CleanupCancel, Interrupted
    <3>2. owner[c] = h /\ handler[h] # "live"
      BY <1>1, <2>2 DEF CancelRunning, CleanupCancel, IInv, RegistryInv
    <3> QED BY <2>0, <3>1, <3>2
  <2>3. ASSUME NEW q \in Request, RequestStep(q), ~CoreCancel(q) PROVE FALSE
    <3>1. q # r => req'[r] = req[r]
      BY <1>1, <2>3, TypeParts
         DEF RequestStep, CheckContext, CheckHandle, CoreEstablish, CoreRelease,
             CoreConnect, CoreDisconnect, CoreCardCall, CoreContextCall, CoreStatus,
             StatusScanned, Register, RegisterEstablished, RegisterReleased,
             RegisterConnected, RegisterDisconnected, Check, Revoke, ConsultPolicy,
             Finish, Goto, Continue
    <3>2. req[q].pc # "waiting"
      BY <2>3
         DEF RequestStep, CheckContext, CheckHandle, CoreEstablish, CoreRelease,
             CoreConnect, CoreDisconnect, CoreCardCall, CoreContextCall, CoreStatus,
             StatusScanned, Register, Revoke, ConsultPolicy, Finish
    <3> QED BY <1>1, <3>1, <3>2
  <2>4. ASSUME NEW q \in Request, WaitEnds(q) \/ ReaderEvent(q) PROVE Allowed(r)
    BY <1>1, <2>4, TypeParts DEF WaitEnds, StatusTimeout, ReaderEvent, Goto, RequestType
  <2>5. CASE \/ UNCHANGED vars \/ ManagerStep
             \/ \E h \in Handler, c \in Ctx : CleanupRelease(h, c)
             \/ \E c \in Ctx : CoreRevokes(c)
    BY <1>1, <2>5, TypeParts
       DEF vars, ManagerStep, CreateHandler, DeleteHandler, ShutDown, UpdateAdminPolicy,
           ReceiveRequest, CleanupRelease, CoreRevokes
  <2> QED BY <1>1, <2>1, <2>2, <2>3, <2>4, <2>5 DEF Next, JobStep
<1>2. IInv /\ [Next]_vars =>
        [\A r \in Request : req[r].pc = "waiting" /\ req'[r].pc = "done" => Allowed(r)]_vars
  BY <1>1
<1> QED BY <1>2, AlwaysIInv, PTL DEF Spec, OnlyOwnerInterrupts
-----------------------------------------------------------------------------
(* The checks of the handles registry                                      *)

\* PC/SC's rule for threads, as clients may use it: only the wait for a reader is
\* overlapped, and only by its SCardCancel; and while clients overlap the two,
\* PC/SC-Lite loses no context, or both would report it as revoked.
ThreadingRule ==
  /\ CancelOverlaps \subseteq {"status"}
  /\ CoreMayRevoke => CancelOverlaps = {}

\* The context whose calls the thread r takes part in.
CallContext(r) == ContextOf(req[r].handler, req[r].op, req[r].ctx, req[r].card)

MayOverlap(o, p) ==
  \/ o = "cancel" /\ p \in CancelOverlaps
  \/ p = "cancel" /\ o \in CancelOverlaps

\* A client has one call at a time for a context, but for what may overlap.
Exclusive ==
  \A r \in Request : \A q \in Request \ {r} :
    /\ req[r].handler # NoHandler /\ req[q].handler = req[r].handler
    /\ CallContext(q) = CallContext(r) /\ CallContext(r) # NoCtx
    => MayOverlap(req[q].op, req[r].op)

\* A thread names what has been given to somebody.
Given ==
  \A r \in Request :
    /\ req[r].ctx # NoCtx => owner[req[r].ctx] # NoHandler
    /\ req[r].card # NoCard => cardOwner[req[r].card] # NoHandler

\* What a thread obtained and has not returned yet is named by no other.
Alone ==
  \A r \in Request : \A q \in Request \ {r} :
    /\ req[r].op = "establish" /\ req[r].ctx # NoCtx => req[q].ctx # req[r].ctx
    /\ req[r].op \in ConnectStep \union Fallback /\ req[r].card # NoCard
         => req[q].card # req[r].card

\* The registry is as the thread r found it, or left it.
RegisteredOK(r) ==
  LET h == req[r].handler  c == req[r].ctx  k == req[r].card
  IN  /\ req[r].pc = "register" /\ req[r].op = "establish" => c \notin contexts[h]
      /\ req[r].pc = "register" /\ req[r].op \in ConnectStep => handles[h][k] = NoCtx
      /\ Admitted(req[r]) /\ OfContext(req[r]) => c \in contexts[h]
      /\ Admitted(req[r]) /\ OfHandle(req[r]) => handles[h][k] # NoCtx
      /\ h # NoHandler /\ req[r].op = "disconnect_reset" => handles[h][k] \in {c, NoCtx}

Registered == \A r \in Request : RegisteredOK(r)

\* A context of a registry that is gone from PC/SC-Lite is about to be removed.
Releasing(q, c) == req[q].pc = "register" /\ req[q].op = "release" /\ req[q].ctx = c

Present ==
  ~CoreMayRevoke =>
    /\ \A r \in Request : req[r].pc = "revoke" => ~OfContext(req[r])
    /\ \A r \in Request, c \in Ctx : Establishing(r, c) => c \in coreContexts
    /\ \A h \in Handler : \A c \in contexts[h] :
         c \in coreContexts \/ \E q \in Busy(h) : Releasing(q, c)

CInv ==
  /\ NoCheckFailure
  /\ Given /\ Alone /\ Exclusive /\ Registered /\ Present

-----------------------------------------------------------------------------
\* The thread q goes on with the same call, or with the next one of a fallback, or
\* has ended.
SameCall(q) ==
  /\ req'[q].handler = req[q].handler /\ req'[q].op = req[q].op
  /\ req'[q].ctx = req[q].ctx /\ req'[q].card = req[q].card

NextCall(q) ==
  /\ req'[q].handler = req[q].handler /\ req'[q].ctx = req[q].ctx
  /\ req[q].op \in {"connect"} \union Fallback /\ req'[q].op \in Fallback
  /\ req'[q].card \in {req[q].card, NoCard}

OwnersKept ==
  /\ \A c \in Ctx : owner[c] # NoHandler => owner'[c] # NoHandler
  /\ \A k \in Card : cardOwner[k] # NoHandler => cardOwner'[k] # NoHandler

HandlesShrink ==
  \A h \in Handler, k \in Card : handles'[h][k] \in {handles[h][k], NoCtx}

\* A thread that processes a request, and what is known of its record.
LEMMA Worker ==
  ASSUME IInv, NEW r \in Request, req[r].handler # NoHandler
  PROVE  /\ req[r].handler \in Handler /\ req[r].pc # "idle"
         /\ req[r].op \in HandleCall => req[r].card \in Card
         /\ OfContext(req[r]) \/ req[r].op \in Fallback => req[r].ctx \in Ctx
BY TypeParts, BusyHandler
   DEF IInv, RequestInv, RequestOK, ShapeOK, RequestType, OfHandle

\* The call context of a thread only changes if its handle is removed.
LEMMA ContextKept ==
  ASSUME IInv, NEW r \in Request, req'[r].handler # NoHandler,
         SameCall(r) \/ NextCall(r), HandlesShrink
  PROVE  /\ CallContext(r)' \in {CallContext(r), NoCtx}
         /\ req[r].handler = req'[r].handler
<1>1. req[r].handler = req'[r].handler /\ req[r].handler # NoHandler
  BY DEF SameCall, NextCall
<1>2. CASE SameCall(r)
  BY <1>1, <1>2, Worker DEF SameCall, CallContext, ContextOf, HandlesShrink
<1>3. CASE NextCall(r)
  BY <1>1, <1>3
     DEF NextCall, CallContext, ContextOf, Fallback, ContextCall
<1> QED BY <1>1, <1>2, <1>3

\* While calls go on and end, and fall under no other context, they stay apart.
LEMMA CallsApart ==
  ASSUME IInv, CInv, ThreadingRule, OwnersKept,
         \A q \in Request : SameCall(q) \/ NextCall(q) \/ req'[q] = IdleRequest,
         \A q \in Request : req'[q].handler # NoHandler =>
           CallContext(q)' \in {CallContext(q), NoCtx}
  PROVE  Given' /\ Alone' /\ Exclusive'
<1>1. Given'
  <2> SUFFICES ASSUME NEW r \in Request
               PROVE  /\ req'[r].ctx # NoCtx => owner'[req'[r].ctx] # NoHandler
                      /\ req'[r].card # NoCard => cardOwner'[req'[r].card] # NoHandler
    BY DEF Given
  <2>1. req[r] \in RequestType
    BY TypeParts
  <2>2. /\ req'[r].ctx \in {req[r].ctx, NoCtx}
        /\ req'[r].card \in {req[r].card, NoCard}
    BY DEF SameCall, NextCall, IdleRequest
  <2> QED BY <2>1, <2>2 DEF CInv, Given, OwnersKept, RequestType
<1>2. Alone'
  <2> SUFFICES ASSUME NEW r \in Request, NEW q \in Request \ {r}
               PROVE  /\ req'[r].op = "establish" /\ req'[r].ctx # NoCtx
                           => req'[q].ctx # req'[r].ctx
                      /\ req'[r].op \in ConnectStep \union Fallback /\ req'[r].card # NoCard
                           => req'[q].card # req'[r].card
    BY DEF Alone
  <2>1. /\ req[r].op = "establish" /\ req[r].ctx # NoCtx => req[q].ctx # req[r].ctx
        /\ req[r].op \in ConnectStep \union Fallback /\ req[r].card # NoCard
             => req[q].card # req[r].card
    BY DEF CInv, Alone
  <2>2. /\ req'[q].ctx \in {req[q].ctx, NoCtx}
        /\ req'[q].card \in {req[q].card, NoCard}
    BY DEF SameCall, NextCall, IdleRequest
  <2>3. \/ SameCall(r)
        \/ /\ req'[r].op \in Fallback /\ req[r].op \in ConnectStep \union Fallback
           /\ req'[r].card \in {req[r].card, NoCard}
        \/ req'[r].op = "none" /\ req'[r].ctx = NoCtx /\ req'[r].card = NoCard
    BY DEF NextCall, IdleRequest, ConnectStep
  <2> QED BY <2>1, <2>2, <2>3 DEF SameCall, Fallback
<1>3. Exclusive'
  <2> SUFFICES ASSUME NEW r \in Request, NEW q \in Request \ {r},
                      req'[r].handler # NoHandler, req'[q].handler = req'[r].handler,
                      CallContext(q)' = CallContext(r)', CallContext(r)' # NoCtx
               PROVE  MayOverlap(req'[q].op, req'[r].op)
    BY DEF Exclusive, MayOverlap
  <2>1. /\ SameCall(r) \/ NextCall(r)
        /\ SameCall(q) \/ NextCall(q)
    BY DEF IdleRequest
  <2>2. MayOverlap(req[q].op, req[r].op)
    BY <2>1 DEF CInv, Exclusive, SameCall, NextCall
  <2>3. ~NextCall(r) /\ ~NextCall(q)
    BY <2>2 DEF NextCall, MayOverlap, ThreadingRule, Fallback
  <2> QED BY <2>1, <2>2, <2>3 DEF SameCall
<1> QED BY <1>1, <1>2, <1>3

LEMMA CallsKept ==
  ASSUME IInv, CInv, ThreadingRule, HandlesShrink, OwnersKept,
         \A q \in Request : SameCall(q) \/ NextCall(q) \/ req'[q] = IdleRequest
  PROVE  Given' /\ Alone' /\ Exclusive'
<1>1. ASSUME NEW q \in Request, req'[q].handler # NoHandler
      PROVE  CallContext(q)' \in {CallContext(q), NoCtx}
  BY <1>1, ContextKept DEF IdleRequest
<1> QED BY <1>1, CallsApart

-----------------------------------------------------------------------------
(* Steps that leave the registries alone                                   *)

\* The thread q stays where it is, or waits no longer.
Rests(q) == req'[q] = req[q] \/ (SameCall(q) /\ req[q].pc = "waiting" /\ req'[q].pc = "done")

LEMMA RestKeeps ==
  ASSUME IInv, CInv, NEW q \in Request, Rests(q), UNCHANGED registry
  PROVE  RegisteredOK(q)'
<1>1. RegisteredOK(q)
  BY DEF CInv, Registered
<1>2. SameCall(q) /\ (Admitted(req'[q]) => req'[q].pc = req[q].pc)
  BY DEF Rests, SameCall, Admitted
<1> QED BY <1>1, <1>2 DEF RegisteredOK, SameCall, registry, Admitted, OfContext, OfHandle

\* A context that a request was admitted for is lost only to PC/SC-Lite itself: its
\* client could not release it at the same time.
LEMMA LostContext ==
  ASSUME IInv, CInv, ThreadingRule, NEW r \in Request, req[r].pc = "core",
         OfContext(req[r]), req[r].ctx \notin coreContexts
  PROVE  CoreMayRevoke
<1> DEFINE c == req[r].ctx  h == req[r].handler
<1>1. /\ h \in Handler /\ h # NoHandler /\ c \in Ctx /\ c \in contexts[h]
  BY BusyHandler, AdmittedOwn DEF Admitted, CInv, Registered, RegisteredOK
<1>2. SUFFICES ASSUME ~CoreMayRevoke PROVE FALSE
  OBVIOUS
<1>3. PICK q \in Busy(h) : Releasing(q, c)
  BY <1>1, <1>2 DEF CInv, Present
<1>4. q \in Request \ {r} /\ req[q].handler = h /\ req[q].op = "release"
  BY <1>3 DEF Busy, Releasing
<1>5. CallContext(q) = c /\ CallContext(r) = c /\ c # NoCtx
  <2>1. c # NoCtx
    BY <1>1, ClientAssumption
  <2> QED BY <1>3, <1>4, <2>1
          DEF CallContext, ContextOf, Releasing, OfContext, ContextCall, ConnectStep, Fallback
<1>6. MayOverlap(req[q].op, req[r].op)
  BY <1>1, <1>4, <1>5 DEF CInv, Exclusive
<1> QED BY <1>4, <1>6 DEF MayOverlap, ThreadingRule

\* The thread r moves, and others may stop waiting.
LEMMA MovesOn ==
  ASSUME IInv, CInv, ThreadingRule, NEW r \in Request,
         SameCall(r) \/ NextCall(r) \/ req'[r] = IdleRequest,
         ~Releasing(r, req[r].ctx), RegisteredOK(r)',
         req'[r].pc = "register" => req'[r].op \in DisconnectStep,
         req'[r].pc = "revoke" /\ OfContext(req'[r]) => CoreMayRevoke,
         \A q \in Request \ {r} : Rests(q),
         UNCHANGED <<registry, crashed, coreContexts>>, OwnersKept
  PROVE  CInv'
<1>1. HandlesShrink
  BY DEF HandlesShrink, registry
<1>2. \A q \in Request : SameCall(q) \/ NextCall(q) \/ req'[q] = IdleRequest
  BY DEF Rests, SameCall
<1>3. Given' /\ Alone' /\ Exclusive'
  BY <1>1, <1>2, CallsKept
<1>4. Registered'
  BY RestKeeps DEF Registered
<1>5. Present'
  <2> SUFFICES ASSUME ~CoreMayRevoke
               PROVE  /\ \A q \in Request : req'[q].pc = "revoke" => ~OfContext(req'[q])
                      /\ \A q \in Request, c \in Ctx : Establishing(q, c)' => c \in coreContexts
                      /\ \A h \in Handler : \A c \in contexts[h] :
                           c \in coreContexts \/ \E q \in Busy(h)' : Releasing(q, c)'
    BY DEF Present, registry
  <2>1. ASSUME NEW q \in Request, req'[q].pc = "revoke" PROVE ~OfContext(req'[q])
    BY <2>1 DEF CInv, Present, Rests
  <2>2. ASSUME NEW h \in Handler, NEW c \in contexts[h], c \notin coreContexts
        PROVE  \E q \in Busy(h)' : Releasing(q, c)'
    <3>1. PICK q \in Busy(h) : Releasing(q, c)
      BY <2>2 DEF CInv, Present
    <3>2. q # r /\ req'[q] = req[q]
      BY <3>1 DEF Releasing, Rests, Busy
    <3> QED BY <3>1, <3>2 DEF Releasing, Busy
  <2>3. ASSUME NEW q \in Request, NEW c \in Ctx, Establishing(q, c)'
        PROVE  c \in coreContexts
    BY <2>3 DEF CInv, Present, Rests, Establishing, SameCall, DisconnectStep
  <2> QED BY <2>1, <2>2, <2>3
<1>6. NoCheckFailure'
  BY DEF CInv, NoCheckFailure
<1> QED BY <1>3, <1>4, <1>5, <1>6 DEF CInv

\* No thread moves but those that stop waiting, and what PC/SC-Lite loses is in no
\* registry.
LEMMA AllRest ==
  ASSUME IInv, CInv, ThreadingRule, \A q \in Request : Rests(q),
         UNCHANGED <<registry, crashed>>, OwnersKept,
         ~CoreMayRevoke =>
           /\ \A h \in Handler : contexts[h] \cap coreContexts \subseteq coreContexts'
           /\ \A q \in Request, c \in coreContexts : Establishing(q, c) => c \in coreContexts'
  PROVE  CInv'
<1>1. HandlesShrink
  BY DEF HandlesShrink, registry
<1>2. \A q \in Request : SameCall(q)
  BY DEF Rests, SameCall
<1>3. Given' /\ Alone' /\ Exclusive'
  BY <1>1, <1>2, CallsKept
<1>4. Registered'
  BY RestKeeps DEF Registered
<1>5. Present'
  <2> SUFFICES ASSUME ~CoreMayRevoke
               PROVE  /\ \A q \in Request : req'[q].pc = "revoke" => ~OfContext(req'[q])
                      /\ \A q \in Request, c \in Ctx : Establishing(q, c)' => c \in coreContexts'
                      /\ \A h \in Handler : \A c \in contexts[h] :
                           c \in coreContexts' \/ \E q \in Busy(h)' : Releasing(q, c)'
    BY DEF Present, registry
  <2>1. ASSUME NEW q \in Request, req'[q].pc = "revoke" PROVE ~OfContext(req'[q])
    BY <2>1 DEF CInv, Present, Rests
  <2>2. ASSUME NEW h \in Handler, NEW c \in contexts[h], c \notin coreContexts'
        PROVE  \E q \in Busy(h)' : Releasing(q, c)'
    <3>1. PICK q \in Busy(h) : Releasing(q, c)
      BY <2>2 DEF CInv, Present
    <3>2. q \in Request /\ req'[q] = req[q]
      BY <3>1 DEF Releasing, Rests, Busy
    <3> QED BY <3>1, <3>2 DEF Releasing, Busy
  <2>3. ASSUME NEW q \in Request, NEW c \in Ctx, Establishing(q, c)'
        PROVE  c \in coreContexts'
    BY <2>3 DEF CInv, Present, Rests, Establishing
  <2> QED BY <2>1, <2>2, <2>3
<1>6. NoCheckFailure'
  BY DEF CInv, NoCheckFailure
<1> QED BY <1>3, <1>4, <1>5, <1>6 DEF CInv

\* r goes on at point p with the same call.
LEMMA GoesOn ==
  ASSUME IInv, CInv, ThreadingRule, NEW r \in Request, NEW p \in PC, Goto(r, p),
         req[r].pc # "register",
         Admitted([pc |-> p]) =>
           \/ req[r].pc \in {"core", "scanning", "waiting"}
           \/ /\ OfContext(req[r]) => req[r].ctx \in contexts[req[r].handler]
              /\ OfHandle(req[r]) => handles[req[r].handler][req[r].card] # NoCtx,
         p = "register" => req[r].op \in DisconnectStep,
         p = "revoke" /\ OfContext(req[r]) => CoreMayRevoke,
         UNCHANGED <<registry, crashed, coreContexts, owner, cardOwner>>
  PROVE  CInv'
<1>1. /\ SameCall(r) /\ req'[r].pc = p
      /\ \A q \in Request \ {r} : req'[q] = req[q]
  BY TypeParts DEF Goto, SameCall, RequestType
<1>2. RegisteredOK(r)'
  <2>1. RegisteredOK(r)
    BY DEF CInv, Registered
  <2>2. Admitted(req'[r]) =>
           /\ OfContext(req[r]) => req[r].ctx \in contexts[req[r].handler]
           /\ OfHandle(req[r]) => handles[req[r].handler][req[r].card] # NoCtx
    BY <1>1, <2>1 DEF RegisteredOK, Admitted
  <2>3. p = "register" => req[r].op # "establish" /\ req[r].op \notin ConnectStep
    BY DEF DisconnectStep, ConnectStep
  <2> QED BY <1>1, <2>1, <2>2, <2>3
          DEF RegisteredOK, SameCall, registry, OfContext, OfHandle
<1>3. OwnersKept
  BY DEF OwnersKept
<1> QED BY <1>1, <1>2, <1>3, MovesOn DEF Rests, Releasing, SameCall, OfContext

LEMMA ChecksContext ==
  ASSUME IInv, CInv, ThreadingRule, NEW r \in Request,
         CheckContext(r) \/ CheckHandle(r)
  PROVE  CInv'
<1>1. CASE CheckContext(r)
  <2>1. ~OfHandle(req[r])
    BY <1>1 DEF CheckContext, OfHandle, ContextCall, ConnectStep, HandleCall, DisconnectStep
  <2> QED BY <1>1, <2>1, GoesOn DEF CheckContext, PC, global, core, Admitted
<1>2. CASE CheckHandle(r)
  <2>1. ~OfContext(req[r])
    BY <1>2 DEF CheckHandle, OfContext, ContextCall, ConnectStep, HandleCall, DisconnectStep
  <2> QED BY <1>2, <2>1, GoesOn DEF CheckHandle, PC, global, core, Admitted
<1> QED BY <1>1, <1>2

\* Calls that change nothing of PC/SC-Lite but a handle.
LEMMA CallsCore ==
  ASSUME IInv, CInv, ThreadingRule, NEW r \in Request,
         \/ CoreDisconnect(r) \/ CoreCardCall(r) \/ CoreContextCall(r)
         \/ CoreStatus(r) \/ StatusScanned(r) \/ ReaderEvent(r) \/ StatusTimeout(r)
  PROVE  CInv'
<1>1. CASE CoreDisconnect(r) \/ CoreCardCall(r)
  <2>1. ~OfContext(req[r]) /\ req[r].pc = "core"
    BY <1>1 DEF CoreDisconnect, CoreCardCall, OfContext, ContextCall, ConnectStep,
                HandleCall, DisconnectStep
  <2>2. \E p \in {"register", "revoke", "done"} :
          Goto(r, p) /\ (p = "register" => req[r].op \in DisconnectStep)
    BY <1>1 DEF CoreDisconnect, CoreCardCall
  <2> QED BY <1>1, <2>1, <2>2, GoesOn DEF CoreDisconnect, CoreCardCall, PC, global, core
<1>2. CASE CoreContextCall(r) \/ CoreStatus(r)
  <2>1. OfContext(req[r]) /\ req[r].pc = "core"
    BY <1>2 DEF CoreContextCall, CoreStatus, OfContext, ContextCall
  <2>2. \E p \in {"scanning", "revoke", "done"} :
          Goto(r, p) /\ (p = "revoke" => req[r].ctx \notin coreContexts)
    BY <1>2 DEF CoreContextCall, CoreStatus
  <2> QED BY <1>2, <2>1, <2>2, GoesOn, LostContext
          DEF CoreContextCall, CoreStatus, PC, global, core
<1>3. CASE StatusScanned(r) \/ ReaderEvent(r) \/ StatusTimeout(r)
  <2>2. \E p \in {"scanning", "waiting", "done"} : Goto(r, p)
    BY <1>3 DEF StatusScanned, ReaderEvent, StatusTimeout
  <2> QED BY <1>3, <2>2, GoesOn
          DEF StatusScanned, ReaderEvent, StatusTimeout, PC, global, core
<1> QED BY <1>1, <1>2, <1>3

\* A cancelled wait, of a request or of the background threads.
LEMMA Interrupts ==
  ASSUME IInv, CInv, ThreadingRule
  PROVE  /\ \A r \in Request : CoreCancel(r) => CInv'
         /\ \A h \in Handler, c \in Ctx : CancelRunning(h, c) \/ CleanupCancel(h, c) => CInv'
<1>1. ASSUME NEW q \in Request, NEW c \in Ctx, req'[q] = Interrupted(q, c) PROVE Rests(q)
  BY <1>1, TypeParts DEF Interrupted, Rests, SameCall, RequestType
<1>2. ASSUME NEW r \in Request, CoreCancel(r) PROVE CInv'
  <2> DEFINE c == req[r].ctx
  <2>1. OfContext(req[r]) /\ req[r].pc = "core"
    BY <1>2 DEF CoreCancel, OfContext, ContextCall
  <2>2. CASE c \notin coreContexts
    BY <1>2, <2>1, <2>2, GoesOn, LostContext DEF CoreCancel, PC, global, core
  <2>3. CASE c \in coreContexts
    <3>1. req' = [[q \in Request |-> Interrupted(q, c)] EXCEPT ![r].pc = "done"]
      BY <1>2, <2>3 DEF CoreCancel
    <3>2. c \in Ctx
      BY <2>1, AdmittedOwn DEF Admitted
    <3>3. \A q \in Request \ {r} : Rests(q)
      BY <1>1, <3>1, <3>2
    <3>4. req'[r] = [req[r] EXCEPT !.pc = "done"]
      BY <2>1, <3>1 DEF Interrupted
    <3>5. SameCall(r) /\ req'[r].pc = "done"
      BY <3>4, TypeParts DEF SameCall, RequestType
    <3>6. RegisteredOK(r)' /\ ~Releasing(r, req[r].ctx)
      BY <1>2, <2>1, <3>5
         DEF CInv, Registered, RegisteredOK, SameCall, Admitted, CoreCancel, Releasing,
             registry
    <3>7. UNCHANGED <<registry, crashed, coreContexts>> /\ OwnersKept
      BY <1>2 DEF CoreCancel, global, core, OwnersKept
    <3> QED BY <3>3, <3>5, <3>6, <3>7, MovesOn
  <2> QED BY <2>2, <2>3
<1>3. ASSUME NEW h \in Handler, NEW c \in Ctx, CancelRunning(h, c) \/ CleanupCancel(h, c)
      PROVE  CInv'
  <2>1. \A q \in Request : Rests(q)
    BY <1>1, <1>3 DEF CancelRunning, CleanupCancel
  <2>2. UNCHANGED <<registry, crashed, coreContexts>> /\ OwnersKept
    BY <1>3 DEF CancelRunning, CleanupCancel, global, core, OwnersKept
  <2> QED BY <2>1, <2>2, AllRest
<1> QED BY <1>2, <1>3

\* The policy is consulted, and the fallback begins or the request fails.
LEMMA Consults ==
  ASSUME IInv, CInv, ThreadingRule, NEW r \in Request, ConsultPolicy(r)
  PROVE  CInv'
<1>1. CASE Goto(r, "done")
  BY <1>1, GoesOn DEF ConsultPolicy, PC, global, core, Admitted
<1>2. CASE Continue(r, "connect_any", NoCard)
  <2>1. req[r].op = "connect" /\ req[r].pc = "policy"
    BY DEF ConsultPolicy, IInv, RequestInv, RequestOK, ShapeOK
  <2>2. /\ req'[r].handler = req[r].handler /\ req'[r].ctx = req[r].ctx
        /\ req'[r].op = "connect_any" /\ req'[r].card = NoCard /\ req'[r].pc = "start"
        /\ \A q \in Request \ {r} : req'[q] = req[q]
    BY <1>2, TypeParts DEF Continue, RequestType
  <2>3. NextCall(r)
    BY <2>1, <2>2 DEF NextCall, Fallback
  <2>4. RegisteredOK(r)'
    BY <2>2 DEF RegisteredOK, Admitted
  <2>5. UNCHANGED <<registry, crashed, coreContexts>> /\ OwnersKept
    BY DEF ConsultPolicy, global, core, OwnersKept
  <2> QED BY <2>1, <2>2, <2>3, <2>4, <2>5, MovesOn DEF Rests, Releasing
<1> QED BY <1>1, <1>2 DEF ConsultPolicy

\* The processor of h goes with its last thread, if any was left.
LEMMA Destroys ==
  ASSUME IInv, CInv, ThreadingRule, NEW h \in Handler, Destroy(h),
         \A q \in Request : req'[q] = IdleRequest \/ (req'[q] = req[q] /\ q \notin Busy(h)),
         \A q \in Request : Releasing(q, req[q].ctx) => req'[q] = req[q],
         UNCHANGED <<crashed, core>>
  PROVE  CInv'
<1>1. /\ \A g \in Handler \ {h} : contexts'[g] = contexts[g] /\ handles'[g] = handles[g]
      /\ contexts'[h] = {} /\ \A k \in Card : handles'[h][k] = NoCtx
  BY TypeParts DEF Destroy, OtherTypes
<1>2. HandlesShrink /\ OwnersKept
  BY <1>1 DEF HandlesShrink, OwnersKept, core
<1>3. \A q \in Request : SameCall(q) \/ NextCall(q) \/ req'[q] = IdleRequest
  BY DEF SameCall
<1>4. Given' /\ Alone' /\ Exclusive'
  BY <1>2, <1>3, CallsKept
<1>5. ASSUME NEW q \in Request PROVE RegisteredOK(q)'
  <2>1. CASE req'[q] = IdleRequest
    BY <2>1 DEF IdleRequest, RegisteredOK, Admitted
  <2>2. CASE req'[q] = req[q] /\ q \notin Busy(h) /\ req[q].handler # NoHandler
    <3>1. req[q].handler \in Handler \ {h}
      BY <2>2, Worker DEF Busy
    <3> QED BY <1>1, <2>2, <3>1
            DEF CInv, Registered, RegisteredOK, Admitted, OfContext, OfHandle
  <2>3. CASE req'[q] = req[q] /\ req[q].handler = NoHandler
    <3>1. req[q].pc = "idle"
      BY <2>3 DEF IInv, RequestInv, RequestOK, ShapeOK
    <3> QED BY <2>3, <3>1 DEF RegisteredOK, Admitted
  <2> QED BY <2>1, <2>2, <2>3
<1>6. Present'
  <2> SUFFICES ASSUME ~CoreMayRevoke
               PROVE  /\ \A q \in Request : req'[q].pc = "revoke" => ~OfContext(req'[q])
                      /\ \A q \in Request, c \in Ctx : Establishing(q, c)' => c \in coreContexts
                      /\ \A g \in Handler : \A c \in contexts'[g] :
                           c \in coreContexts \/ \E q \in Busy(g)' : Releasing(q, c)'
    BY DEF Present, core
  <2>1. ASSUME NEW q \in Request, req'[q].pc = "revoke" PROVE ~OfContext(req'[q])
    BY <2>1 DEF CInv, Present, IdleRequest
  <2>2. ASSUME NEW g \in Handler, NEW c \in contexts'[g], c \notin coreContexts
        PROVE  \E q \in Busy(g)' : Releasing(q, c)'
    <3>1. g # h /\ c \in contexts[g]
      BY <1>1, <2>2
    <3>2. PICK q \in Busy(g) : Releasing(q, c)
      BY <2>2, <3>1 DEF CInv, Present
    <3>3. q \in Request /\ req'[q] = req[q]
      BY <3>2 DEF Releasing, Busy
    <3> QED BY <3>2, <3>3 DEF Releasing, Busy
  <2>3. ASSUME NEW q \in Request, NEW c \in Ctx, Establishing(q, c)'
        PROVE  c \in coreContexts
    BY <2>3 DEF CInv, Present, Establishing, IdleRequest
  <2> QED BY <2>1, <2>2, <2>3
<1>7. Registered' /\ NoCheckFailure'
  BY <1>5 DEF Registered, CInv, NoCheckFailure
<1> QED BY <1>4, <1>6, <1>7 DEF CInv

LEMMA Ends ==
  ASSUME IInv, CInv, ThreadingRule
  PROVE  /\ \A r \in Request : Finish(r) => CInv'
         /\ \A h \in Handler : DeleteHandler(h) => CInv'
<1>1. ASSUME NEW r \in Request, Finish(r) PROVE CInv'
  <2>1. /\ req'[r] = IdleRequest /\ req[r].pc = "done"
        /\ \A q \in Request \ {r} : req'[q] = req[q]
        /\ UNCHANGED <<crashed, core>>
    BY <1>1, TypeParts DEF Finish, global
  <2>2. req[r].handler \in Handler
    BY <1>1, BusyHandler DEF Finish
  <2>3. ASSUME handler[req[r].handler] = "deleted", Busy(req[r].handler) = {r} PROVE CInv'
    BY <1>1, <2>1, <2>2, <2>3, Destroys DEF Finish, Releasing
  <2>4. ASSUME ~(handler[req[r].handler] = "deleted" /\ Busy(req[r].handler) = {r})
        PROVE  CInv'
    <3>1. UNCHANGED registry /\ OwnersKept
      BY <1>1, <2>4 DEF Finish, core, OwnersKept
    <3>2. /\ RegisteredOK(r)' /\ ~Releasing(r, req[r].ctx)
          /\ req'[r].pc \notin {"register", "revoke"}
      BY <2>1 DEF RegisteredOK, Admitted, Releasing, IdleRequest
    <3> QED BY <2>1, <3>1, <3>2, MovesOn DEF core, Rests
  <2> QED BY <2>3, <2>4
<1>2. ASSUME NEW h \in Handler, DeleteHandler(h) PROVE CInv'
  <2>1. UNCHANGED <<req, crashed, core>>
    BY <1>2 DEF DeleteHandler, global
  <2>2. CASE Busy(h) = {}
    BY <1>2, <2>1, <2>2, Destroys DEF DeleteHandler
  <2>3. CASE Busy(h) # {}
    <3>1. UNCHANGED registry /\ OwnersKept /\ \A q \in Request : Rests(q)
      BY <1>2, <2>1, <2>3 DEF DeleteHandler, core, OwnersKept, Rests
    <3> QED BY <2>1, <3>1, AllRest DEF core
  <2> QED BY <2>2, <2>3
<1> QED BY <1>1, <1>2

\* The manager's own state changes, or PC/SC-Lite loses contexts.
LEMMA Elsewhere ==
  ASSUME IInv, CInv, ThreadingRule
  PROVE  /\ \A h \in Handler : CreateHandler(h) => CInv'
         /\ ShutDown => CInv'
         /\ \A list \in FallbackPolicy : UpdateAdminPolicy(list) => CInv'
         /\ \A h \in Handler, c \in Ctx : CleanupRelease(h, c) => CInv'
         /\ \A c \in Ctx : CoreRevokes(c) => CInv'
         /\ UNCHANGED vars => CInv'
<1>1. ASSUME UNCHANGED <<registry, req, crashed, core>> PROVE CInv'
  <2>1. OwnersKept /\ \A q \in Request : Rests(q)
    BY <1>1 DEF core, OwnersKept, Rests
  <2> QED BY <1>1, <2>1, AllRest DEF core
<1>2. ASSUME NEW c \in Ctx, Forget(c), UNCHANGED <<registry, req, crashed>>,
             ~CoreMayRevoke => /\ \A h \in Handler : c \notin contexts[h]
                               /\ \A q \in Request : ~Establishing(q, c)
      PROVE  CInv'
  <2>1. OwnersKept /\ \A q \in Request : Rests(q)
    BY <1>2 DEF Forget, OwnersKept, Rests
  <2> QED BY <1>2, <2>1, AllRest DEF Forget
<1>3. ASSUME NEW h \in Handler, NEW c \in Ctx, CleanupRelease(h, c) PROVE CInv'
  <2>1. owner[c] = h /\ handler[h] = "gone" /\ h # NoHandler
    BY <1>3, ClientAssumption DEF CleanupRelease, IInv, RegistryInv
  <2>2. \A g \in Handler : c \notin contexts[g]
    BY <2>1, TypeParts DEF MapsAgree, IInv, RegistryInv
  <2>3. \A q \in Request : ~Establishing(q, c)
    BY <2>1, BusyHandler DEF Establishing, IInv, RequestInv, RequestOK, OwnOK
  <2> QED BY <1>2, <1>3, <2>2, <2>3 DEF CleanupRelease, global
<1>4. ASSUME NEW c \in Ctx, CoreRevokes(c) PROVE CInv'
  BY <1>2, <1>4 DEF CoreRevokes, global
<1>5. ASSUME \/ \E h \in Handler : CreateHandler(h)
             \/ ShutDown \/ UNCHANGED vars
             \/ \E list \in FallbackPolicy : UpdateAdminPolicy(list)
      PROVE  CInv'
  BY <1>1, <1>5 DEF CreateHandler, ShutDown, UpdateAdminPolicy, vars, global
<1> QED BY <1>3, <1>4, <1>5

-----------------------------------------------------------------------------
(* Steps that give a thread something new                                  *)

\* A client's call is received: its client follows the rule.
LEMMA Receives ==
  ASSUME IInv, CInv, ThreadingRule, NEW h \in Handler, NEW r \in Request, NEW op \in Call,
         NEW c \in Ctx \union {NoCtx}, NEW k \in Card \union {NoCard},
         ReceiveRequest(h, r, op, c, k)
  PROVE  CInv'
<1> DEFINE new == [pc |-> "start", handler |-> h, op |-> op, ctx |-> c, card |-> k]
<1>1. /\ req'[r] = new
      /\ \A q \in Request \ {r} : req'[q] = req[q]
      /\ UNCHANGED <<registry, crashed, core>>
      /\ req[r].pc = "idle"
  BY TypeParts DEF ReceiveRequest, global
<1>2. /\ new.pc = "start" /\ new.handler = h /\ new.op = op /\ new.ctx = c /\ new.card = k
  OBVIOUS
<1>3. /\ c # NoCtx => ReturnedContext(c)
      /\ k # NoCard => ReturnedHandle(k)
      /\ op = "establish" => c = NoCtx
      /\ op \in ConnectStep \union Fallback => k = NoCard
      /\ op # "disconnect_reset"
  BY DEF ReceiveRequest, Call, ContextCall, HandleCall, ConnectStep, Fallback
<1> HIDE DEF new
<1>4. Given'
  BY <1>1, <1>2, <1>3 DEF CInv, Given, ReturnedContext, ReturnedHandle, core
<1>5. Alone'
  <2> SUFFICES ASSUME NEW p \in Request, NEW q \in Request \ {p}
               PROVE  /\ req'[p].op = "establish" /\ req'[p].ctx # NoCtx
                           => req'[q].ctx # req'[p].ctx
                      /\ req'[p].op \in ConnectStep \union Fallback /\ req'[p].card # NoCard
                           => req'[q].card # req'[p].card
    BY DEF Alone
  <2>1. CASE p = r
    BY <1>1, <1>2, <1>3, <2>1
  <2>2. CASE q = r
    BY <1>1, <1>2, <1>3, <2>2 DEF ReturnedContext, ReturnedHandle
  <2>3. CASE p # r /\ q # r
    BY <1>1, <2>3 DEF CInv, Alone
  <2> QED BY <2>1, <2>2, <2>3
<1>6. Exclusive'
  <2>0. \A q \in Request \ {r} : CallContext(q)' = CallContext(q)
    BY <1>1 DEF CallContext, ContextOf, registry
  <2>1. CallContext(r)' = ContextOf(h, op, c, k)
    BY <1>1, <1>2 DEF CallContext, ContextOf, registry
  <2>2. ASSUME NEW q \in Request \ {r}, req[q].handler = h,
               CallContext(q) = ContextOf(h, op, c, k), CallContext(q) # NoCtx
        PROVE  MayOverlap(req[q].op, op) /\ MayOverlap(op, req[q].op)
    <3>1. q \in Busy(h) /\ Disciplined(h, op, ContextOf(h, op, c, k))
      BY <2>2 DEF Busy, ReceiveRequest
    <3> QED BY <2>2, <3>1 DEF Disciplined, CallContext, MayOverlap
  <2> SUFFICES ASSUME NEW p \in Request, NEW q \in Request \ {p},
                      req'[p].handler # NoHandler, req'[q].handler = req'[p].handler,
                      CallContext(q)' = CallContext(p)', CallContext(p)' # NoCtx
               PROVE  MayOverlap(req'[q].op, req'[p].op)
    BY DEF Exclusive, MayOverlap
  <2>3. CASE p = r
    BY <1>1, <1>2, <2>0, <2>1, <2>2, <2>3
  <2>4. CASE q = r
    BY <1>1, <1>2, <2>0, <2>1, <2>2, <2>4
  <2>5. CASE p # r /\ q # r
    BY <1>1, <2>0, <2>5 DEF CInv, Exclusive
  <2> QED BY <2>3, <2>4, <2>5
<1>7. Registered'
  <2>1. RegisteredOK(r)'
    BY <1>1, <1>2, <1>3 DEF RegisteredOK, Admitted
  <2>2. \A q \in Request \ {r} : RegisteredOK(q)'
    BY <1>1, RestKeeps DEF Rests
  <2> QED BY <2>1, <2>2 DEF Registered
<1>8. Present'
  <2>1. \A g \in Handler, d \in Ctx : \A q \in Busy(g) :
          Releasing(q, d) => q \in Busy(g)' /\ Releasing(q, d)'
    BY <1>1 DEF Busy, Releasing
  <2>2. contexts \in [Handler -> SUBSET Ctx]
    BY TypeParts DEF OtherTypes
  <2>3. ASSUME ~CoreMayRevoke, NEW q \in Request, req'[q].pc = "revoke"
        PROVE  ~OfContext(req'[q])
    BY <1>1, <1>2, <2>3 DEF CInv, Present
  <2>5. ASSUME ~CoreMayRevoke, NEW q \in Request, NEW d \in Ctx, Establishing(q, d)'
        PROVE  d \in coreContexts
    BY <1>1, <1>2, <2>5 DEF CInv, Present, Establishing
  <2>4. ASSUME ~CoreMayRevoke, NEW g \in Handler, NEW d \in contexts[g], d \notin coreContexts
        PROVE  \E q \in Busy(g)' : Releasing(q, d)'
    BY <2>1, <2>2, <2>4 DEF CInv, Present
  <2> QED BY <1>1, <2>3, <2>4, <2>5 DEF Present, registry, core
<1> QED BY <1>1, <1>4, <1>5, <1>6, <1>7, <1>8 DEF CInv, NoCheckFailure

\* PC/SC-Lite gives the thread r a context, or a card handle, that nobody has.
LEMMA Obtains ==
  ASSUME IInv, CInv, ThreadingRule, NEW r \in Request, req[r].pc \in {"start", "core"},
         req'[r].pc = "register", req'[r].handler = req[r].handler, req'[r].op = req[r].op,
         \/ /\ req[r].op = "establish" /\ req'[r].card = req[r].card
            /\ req'[r].ctx \in coreContexts' /\ req'[r].ctx \in Ctx
            /\ owner[req'[r].ctx] = NoHandler /\ owner'[req'[r].ctx] # NoHandler
         \/ /\ req[r].op \in ConnectStep /\ req'[r].ctx = req[r].ctx
            /\ req[r].ctx \in contexts[req[r].handler]
            /\ req'[r].card \in Card
            /\ cardOwner[req'[r].card] = NoHandler /\ cardOwner'[req'[r].card] # NoHandler,
         \A q \in Request \ {r} : req'[q] = req[q],
         UNCHANGED <<registry, crashed>>, OwnersKept, coreContexts \subseteq coreContexts'
  PROVE  CInv'
<1>0. /\ req[r] \in RequestType /\ \A q \in Request : req[q] \in RequestType
      /\ "establish" \notin ConnectStep \union Fallback
  BY TypeParts DEF ConnectStep, Fallback
<1>6. req[r].handler \in Handler /\ req[r].handler # NoHandler
  BY BusyHandler
<1>1. Given'
  BY <1>0 DEF CInv, Given, OwnersKept, RequestType
<1>2. Alone'
  <2> SUFFICES ASSUME NEW p \in Request, NEW q \in Request \ {p}
               PROVE  /\ req'[p].op = "establish" /\ req'[p].ctx # NoCtx
                           => req'[q].ctx # req'[p].ctx
                      /\ req'[p].op \in ConnectStep \union Fallback /\ req'[p].card # NoCard
                           => req'[q].card # req'[p].card
    BY DEF Alone
  <2>1. CASE p = r
    BY <1>0, <2>1, ClientAssumption DEF CInv, Given, Alone
  <2>2. CASE q = r
    BY <1>0, <2>2, ClientAssumption DEF CInv, Given, Alone
  <2>3. CASE p # r /\ q # r
    BY <2>3 DEF CInv, Alone
  <2> QED BY <2>1, <2>2, <2>3
<1>3. Exclusive'
  <2>1. \A q \in Request : CallContext(q)' = CallContext(q)
    BY <1>0
       DEF CallContext, ContextOf, registry, ConnectStep, ContextCall, HandleCall, Fallback
  <2>2. \A q \in Request : req'[q].op = req[q].op /\ req'[q].handler = req[q].handler
    OBVIOUS
  <2> QED BY <2>1, <2>2 DEF CInv, Exclusive
<1>4. Registered'
  <2>1. RegisteredOK(r)'
    <3>0. ~OfHandle(req[r]) /\ req[r].op # "disconnect_reset"
      BY DEF OfHandle, ConnectStep, HandleCall, DisconnectStep
    <3>1. CASE req[r].op = "establish"
      <4>1. ~OfContext(req[r])
        BY <3>1 DEF OfContext, ContextCall, ConnectStep
      <4>2. req'[r].ctx \notin contexts[req[r].handler]
        BY <1>0, <1>6, <3>1, ClientAssumption DEF IInv, RegistryInv
      <4> QED BY <1>0, <3>0, <3>1, <4>1, <4>2
              DEF RegisteredOK, registry, Admitted, OfContext, OfHandle
    <3>2. CASE req[r].op \in ConnectStep
      <4>1. handles[req[r].handler][req'[r].card] = NoCtx
        BY <1>0, <1>6, <3>2 DEF IInv, RegistryInv
      <4> QED BY <1>0, <3>0, <3>2, <4>1
              DEF RegisteredOK, registry, Admitted, OfContext, OfHandle
    <3> QED BY <3>1, <3>2
  <2>2. \A q \in Request \ {r} : RegisteredOK(q)'
    BY RestKeeps DEF Rests
  <2> QED BY <2>1, <2>2 DEF Registered
<1>5. Present'
  <2>1. \A g \in Handler, d \in Ctx : \A q \in Busy(g) :
          Releasing(q, d) => q \in Busy(g)' /\ Releasing(q, d)'
    BY DEF Busy, Releasing
  <2>2. contexts \in [Handler -> SUBSET Ctx]
    BY TypeParts DEF OtherTypes
  <2>3. ASSUME ~CoreMayRevoke, NEW q \in Request, req'[q].pc = "revoke"
        PROVE  ~OfContext(req'[q])
    BY <2>3 DEF CInv, Present
  <2>5. ASSUME ~CoreMayRevoke, NEW q \in Request, NEW d \in Ctx, Establishing(q, d)'
        PROVE  d \in coreContexts'
    BY <1>0, <2>5 DEF CInv, Present, Establishing
  <2>4. ASSUME ~CoreMayRevoke, NEW g \in Handler, NEW d \in contexts[g], d \notin coreContexts'
        PROVE  \E q \in Busy(g)' : Releasing(q, d)'
    BY <2>1, <2>2, <2>4 DEF CInv, Present
  <2> QED BY <2>3, <2>4, <2>5 DEF Present, registry
<1> QED BY <1>1, <1>2, <1>3, <1>4, <1>5 DEF CInv, NoCheckFailure

LEMMA Establishes ==
  ASSUME IInv, CInv, ThreadingRule, NEW r \in Request,
         CoreEstablish(r) \/ CoreConnect(r)
  PROVE  CInv'
<1>1. CASE CoreEstablish(r)
  <2>1. ASSUME NEW c \in Ctx, owner[c] = NoHandler,
               owner' = [owner EXCEPT ![c] = req[r].handler],
               coreContexts' = coreContexts \union {c},
               req' = [req EXCEPT ![r].pc = "register", ![r].ctx = c]
        PROVE  CInv'
    <3>1. /\ req'[r].pc = "register" /\ req'[r].ctx = c /\ req'[r].op = req[r].op
          /\ req'[r].handler = req[r].handler /\ req'[r].card = req[r].card
          /\ \A q \in Request \ {r} : req'[q] = req[q]
      BY <2>1, TypeParts DEF RequestType
    <3>2. req[r].pc = "start" /\ req[r].op = "establish"
      BY <1>1 DEF CoreEstablish
    <3>3. req[r].handler # NoHandler
      BY <3>2, BusyHandler
    <3>4. OwnersKept /\ owner'[c] # NoHandler
      BY <1>1, <2>1, <3>3, TypeParts DEF CoreEstablish, OwnersKept, CoreTypes
    <3>5. UNCHANGED <<registry, crashed>>
      BY <1>1 DEF CoreEstablish, global
    <3>6. /\ req'[r].ctx \in coreContexts' /\ req'[r].ctx \in Ctx
          /\ owner[req'[r].ctx] = NoHandler /\ owner'[req'[r].ctx] # NoHandler
          /\ coreContexts \subseteq coreContexts'
      BY <2>1, <3>1, <3>4
    <3> QED BY <3>1, <3>2, <3>4, <3>5, <3>6, Obtains
  <2>2. CASE Goto(r, "done") /\ UNCHANGED <<owner, coreContexts>>
    BY <1>1, <2>2, GoesOn DEF CoreEstablish, PC, global, Admitted
  <2> QED BY <1>1, <2>1, <2>2 DEF CoreEstablish
<1>2. CASE CoreConnect(r)
  <2> DEFINE c == req[r].ctx
  <2>0. /\ req[r].pc = "core" /\ req[r].op \in ConnectStep
        /\ OfContext(req[r]) /\ ~OfHandle(req[r])
        /\ UNCHANGED <<handler, registry, jobs, global>>
    BY <1>2 DEF CoreConnect, OfContext, OfHandle, ConnectStep, HandleCall, DisconnectStep
  <2>1. CASE c \notin coreContexts /\ Goto(r, "revoke") /\ UNCHANGED core
    BY <2>0, <2>1, GoesOn, LostContext DEF PC, global, core
  <2>2. ASSUME NEW k \in Card, cardOwner[k] = NoHandler,
               cardOwner' = [cardOwner EXCEPT ![k] = req[r].handler],
               req' = [req EXCEPT ![r].pc = "register", ![r].card = k],
               UNCHANGED <<coreContexts, owner>>
        PROVE  CInv'
    <3>1. /\ req'[r].pc = "register" /\ req'[r].ctx = c /\ req'[r].op = req[r].op
          /\ req'[r].handler = req[r].handler /\ req'[r].card = k
          /\ \A q \in Request \ {r} : req'[q] = req[q]
      BY <2>2, TypeParts DEF RequestType
    <3>2. req[r].handler # NoHandler /\ c \in contexts[req[r].handler]
      BY <2>0, BusyHandler DEF CInv, Registered, RegisteredOK, Admitted
    <3>3. OwnersKept /\ cardOwner'[k] # NoHandler
      BY <2>2, <3>2, TypeParts DEF OwnersKept, CoreTypes
    <3> QED BY <2>0, <2>2, <3>1, <3>2, <3>3, Obtains DEF global
  <2>3. CASE (Goto(r, "policy") \/ Goto(r, "done")) /\ UNCHANGED core
    BY <2>0, <2>3, GoesOn DEF PC, global, core, Admitted
  <2> QED BY <1>2, <2>1, <2>2, <2>3 DEF CoreConnect
<1> QED BY <1>1, <1>2

\* A client releases its context: it is the only call for it.
LEMMA Releases ==
  ASSUME IInv, CInv, ThreadingRule, NEW r \in Request, CoreRelease(r)
  PROVE  CInv'
<1> DEFINE c == req[r].ctx  h == req[r].handler
<1>0. /\ req[r].pc = "core" /\ req[r].op = "release"
      /\ OfContext(req[r]) /\ ~OfHandle(req[r])
      /\ UNCHANGED <<handler, registry, jobs, global>>
  BY DEF CoreRelease, OfContext, OfHandle, ContextCall, HandleCall, DisconnectStep
<1>1. h \in Handler /\ c \in Ctx /\ owner[c] = h /\ c \in contexts[h]
  BY <1>0, BusyHandler, AdmittedOwn DEF Admitted, CInv, Registered, RegisteredOK
<1>2. CASE c \notin coreContexts
  BY <1>0, <1>2, GoesOn, LostContext DEF CoreRelease, PC, global, core
<1>3. CASE c \in coreContexts
  <2>1. /\ Forget(c)
        /\ Goto(r, "register") \/ (CoreMayRevoke /\ Goto(r, "done"))
    BY <1>3 DEF CoreRelease
  <2>2. /\ SameCall(r) /\ \A q \in Request \ {r} : req'[q] = req[q]
        /\ req'[r].pc = "register" \/ (CoreMayRevoke /\ req'[r].pc = "done")
    BY <2>1, TypeParts DEF Goto, SameCall, RequestType
  <2>3. HandlesShrink /\ OwnersKept /\ \A q \in Request : SameCall(q)
    BY <1>0, <2>1, <2>2 DEF HandlesShrink, OwnersKept, Forget, registry, SameCall
  <2>4. Given' /\ Alone' /\ Exclusive'
    BY <2>3, CallsKept
  <2>5. Registered'
    <3>1. RegisteredOK(r)'
      BY <1>0, <1>1, <2>2
         DEF RegisteredOK, SameCall, registry, OfContext, OfHandle, ConnectStep, Admitted
    <3>2. \A q \in Request \ {r} : RegisteredOK(q)'
      BY <1>0, <2>2, RestKeeps DEF Rests
    <3> QED BY <3>1, <3>2 DEF Registered
  <2>6. Present'
    <3> SUFFICES ASSUME ~CoreMayRevoke
                 PROVE  /\ \A q \in Request : req'[q].pc = "revoke" => ~OfContext(req'[q])
                        /\ \A q \in Request, d \in Ctx :
                             Establishing(q, d)' => d \in coreContexts'
                        /\ \A g \in Handler : \A d \in contexts[g] :
                             d \in coreContexts' \/ \E q \in Busy(g)' : Releasing(q, d)'
      BY <1>0 DEF Present, registry
    <3>1. ASSUME NEW q \in Request, req'[q].pc = "revoke" PROVE ~OfContext(req'[q])
      BY <2>2, <3>1 DEF CInv, Present
    <3>2. ASSUME NEW g \in Handler, NEW d \in contexts[g], d \notin coreContexts'
          PROVE  \E q \in Busy(g)' : Releasing(q, d)'
      <4>1. CASE d = c
        <5>1. g = h
          BY <1>1, <3>2, <4>1 DEF IInv, RegistryInv
        <5>2. r \in Busy(g)' /\ Releasing(r, d)'
          BY <1>0, <2>2, <4>1, <5>1 DEF Busy, Releasing, SameCall
        <5> QED BY <5>2
      <4>2. CASE d # c
        <5>1. d \notin coreContexts
          BY <2>1, <3>2, <4>2 DEF Forget
        <5>2. PICK q \in Busy(g) : Releasing(q, d)
          BY <3>2, <5>1 DEF CInv, Present
        <5>3. q \in Busy(g)' /\ Releasing(q, d)'
          BY <1>0, <2>2, <5>2 DEF Busy, Releasing
        <5> QED BY <5>3
      <4> QED BY <4>1, <4>2
    <3>3. ASSUME NEW q \in Request, NEW d \in Ctx, Establishing(q, d)'
          PROVE  d \in coreContexts'
      <4>1. q # r /\ Establishing(q, d) /\ req[q].ctx = d /\ d # NoCtx
        BY <1>0, <2>2, <3>3, ClientAssumption DEF Establishing, SameCall
      <4>2. d \in coreContexts /\ d # c
        BY <4>1 DEF CInv, Present, Alone, Establishing
      <4> QED BY <2>1, <4>2 DEF Forget
    <3> QED BY <3>1, <3>2, <3>3
  <2> QED BY <1>0, <2>4, <2>5, <2>6 DEF CInv, NoCheckFailure, global
<1> QED BY <1>2, <1>3

-----------------------------------------------------------------------------
(* The registries are brought up to date, and find what they expect        *)

\* No other thread of the client is at work for r's context.
LEMMA OnlyCall ==
  ASSUME IInv, CInv, ThreadingRule, NEW r \in Request, NEW q \in Request \ {r},
         req[r].handler # NoHandler, req[q].handler = req[r].handler,
         CallContext(q) = CallContext(r), CallContext(r) # NoCtx,
         req[r].op \notin {"cancel", "status"} \/ CoreMayRevoke
  PROVE  FALSE
BY DEF CInv, Exclusive, MayOverlap, ThreadingRule

\* The record of a thread that has its result.
LEMMA AtDone ==
  ASSUME IInv, NEW r \in Request, Goto(r, "done")
  PROVE  /\ SameCall(r) /\ req'[r].pc = "done"
         /\ \A q \in Request \ {r} : req'[q] = req[q]
BY TypeParts DEF Goto, SameCall, RequestType

\* A context leaves the registry with the call that is alone with it.
LEMMA Removes ==
  ASSUME IInv, CInv, ThreadingRule, NEW r \in Request, req[r].pc \in {"register", "revoke"},
         OfContext(req[r]),
         RemoveContext(req[r].handler, req[r].ctx), Goto(r, "done"),
         req[r].op \notin {"cancel", "status"} \/ CoreMayRevoke,
         UNCHANGED <<crashed, core>>
  PROVE  CInv'
<1> DEFINE c == req[r].ctx  h == req[r].handler
<1>1. h \in Handler /\ h # NoHandler /\ c \in Ctx /\ c # NoCtx
  BY BusyHandler, AdmittedOwn, ClientAssumption DEF Admitted
<1>2. /\ contexts'[h] = contexts[h] \ {c}
      /\ \A k \in Card : handles'[h][k] = IF handles[h][k] = c THEN NoCtx ELSE handles[h][k]
      /\ \A g \in Handler \ {h} : contexts'[g] = contexts[g] /\ handles'[g] = handles[g]
  BY <1>1, TypeParts DEF RemoveContext, OtherTypes
<1>3. /\ SameCall(r) /\ req'[r].pc = "done"
      /\ \A q \in Request \ {r} : req'[q] = req[q]
  BY AtDone
<1>4. Given' /\ Alone' /\ Exclusive'
  <2>1. HandlesShrink /\ OwnersKept /\ \A q \in Request : SameCall(q)
    BY <1>1, <1>2, <1>3 DEF HandlesShrink, OwnersKept, core, SameCall
  <2> QED BY <2>1, CallsKept
<1>5. ASSUME NEW q \in Request \ {r}, req[q].handler = h PROVE CallContext(q) # c
  <2>1. CallContext(r) = c
    BY DEF CallContext, ContextOf, OfContext, ContextCall, ConnectStep, Fallback
  <2> QED BY <1>1, <1>5, <2>1, OnlyCall
<1>6. ASSUME NEW q \in Request PROVE RegisteredOK(q)'
  <2>0. RegisteredOK(q)
    BY DEF CInv, Registered
  <2>1. CASE q = r
    <3>1. req[r].op # "disconnect_reset"
      BY DEF OfContext, ContextCall, ConnectStep
    <3> QED BY <1>3, <2>1, <3>1 DEF RegisteredOK, Admitted, SameCall
  <2>2. CASE q # r /\ req[q].handler = h
    <3>1. OfHandle(req[q]) => req[q].card \in Card
      BY DEF IInv, RequestInv, RequestOK, ShapeOK
    <3>2. OfContext(req[q]) => req[q].ctx # c
      BY <1>5, <2>2
         DEF CallContext, ContextOf, OfContext, ContextCall, ConnectStep, Fallback
    <3>3. OfHandle(req[q]) /\ handles[h][req[q].card] # NoCtx => handles[h][req[q].card] # c
      <4>1. CASE req[q].op \in HandleCall
        BY <1>5, <2>2, <4>1
           DEF CallContext, ContextOf, ContextCall, HandleCall, Fallback
      <4>2. CASE req[q].op = "disconnect_reset"
        BY <1>1, <1>5, <2>0, <2>2, <4>2
           DEF CallContext, ContextOf, Fallback, RegisteredOK
      <4> QED BY <4>1, <4>2 DEF OfHandle, DisconnectStep, HandleCall
    <3>4. /\ req[q].pc = "register" /\ req[q].op \in ConnectStep => req[q].card \in Card
          /\ req[q].op = "disconnect_reset" => req[q].card \in Card
      BY <3>1 DEF IInv, RequestInv, RequestOK, ShapeOK, OfHandle, DisconnectStep
    <3> QED BY <1>1, <1>2, <1>3, <2>0, <2>2, <3>1, <3>2, <3>3, <3>4
            DEF RegisteredOK, OfContext, OfHandle, Admitted
  <2>3. CASE q # r /\ req[q].handler \in Handler \ {h}
    BY <1>2, <1>3, <2>0, <2>3 DEF RegisteredOK, OfContext, OfHandle, Admitted
  <2>4. CASE q # r /\ req[q].handler = NoHandler
    <3>1. req[q].pc = "idle"
      BY <2>4 DEF IInv, RequestInv, RequestOK, ShapeOK
    <3> QED BY <1>3, <2>4, <3>1 DEF RegisteredOK, Admitted
  <2>5. req[q].handler \in Handler \union {NoHandler}
    BY TypeParts DEF RequestType
  <2> QED BY <2>1, <2>2, <2>3, <2>4, <2>5
<1>7. Present'
  <2> SUFFICES ASSUME ~CoreMayRevoke
               PROVE  /\ \A q \in Request : req'[q].pc = "revoke" => ~OfContext(req'[q])
                      /\ \A q \in Request, d \in Ctx : Establishing(q, d)' => d \in coreContexts
                      /\ \A g \in Handler : \A d \in contexts'[g] :
                           d \in coreContexts \/ \E q \in Busy(g)' : Releasing(q, d)'
    BY DEF Present, core
  <2>1. ASSUME NEW q \in Request, req'[q].pc = "revoke" PROVE ~OfContext(req'[q])
    BY <1>3, <2>1 DEF CInv, Present
  <2>2. ASSUME NEW q \in Request, NEW d \in Ctx, Establishing(q, d)' PROVE d \in coreContexts
    BY <1>3, <2>2 DEF CInv, Present, Establishing
  <2>3. ASSUME NEW g \in Handler, NEW d \in contexts'[g], d \notin coreContexts
        PROVE  \E q \in Busy(g)' : Releasing(q, d)'
    <3>1. d \in contexts[g] /\ (g = h => d # c)
      BY <1>2, <2>3
    <3>2. PICK q \in Busy(g) : Releasing(q, d)
      BY <2>3, <3>1 DEF CInv, Present
    <3>3. q # r
      BY <3>1, <3>2 DEF Busy, Releasing
    <3>4. q \in Busy(g)' /\ Releasing(q, d)'
      BY <1>3, <3>2, <3>3 DEF Busy, Releasing
    <3> QED BY <3>4
  <2> QED BY <2>1, <2>2, <2>3
<1>8. Registered' /\ NoCheckFailure'
  BY <1>6 DEF Registered, CInv, NoCheckFailure
<1> QED BY <1>4, <1>7, <1>8 DEF CInv

\* No context comes that PC/SC-Lite does not have, and the thread r, which moves, was
\* about to release none.
LEMMA PresentKept ==
  ASSUME CInv, NEW r \in Request, req'[r].pc \notin {"register", "revoke"},
         req[r].op # "release",
         \A q \in Request \ {r} : req'[q] = req[q],
         UNCHANGED coreContexts,
         \A g \in Handler : \A d \in contexts'[g] : d \in contexts[g] \/ d \in coreContexts
  PROVE  Present'
<1> SUFFICES ASSUME ~CoreMayRevoke
             PROVE  /\ \A q \in Request : req'[q].pc = "revoke" => ~OfContext(req'[q])
                    /\ \A q \in Request, d \in Ctx : Establishing(q, d)' => d \in coreContexts
                    /\ \A g \in Handler : \A d \in contexts'[g] :
                         d \in coreContexts \/ \E q \in Busy(g)' : Releasing(q, d)'
  BY DEF Present
<1>1. ASSUME NEW q \in Request, req'[q].pc = "revoke" PROVE ~OfContext(req'[q])
  BY <1>1 DEF CInv, Present
<1>2. ASSUME NEW q \in Request, NEW d \in Ctx, Establishing(q, d)' PROVE d \in coreContexts
  BY <1>2 DEF CInv, Present, Establishing
<1>3. ASSUME NEW g \in Handler, NEW d \in contexts'[g], d \notin coreContexts
      PROVE  \E q \in Busy(g)' : Releasing(q, d)'
  <2>1. d \in contexts[g]
    BY <1>3
  <2>2. PICK q \in Busy(g) : Releasing(q, d)
    BY <1>3, <2>1 DEF CInv, Present
  <2>3. q # r
    BY <2>2 DEF Busy, Releasing
  <2>4. q \in Busy(g)' /\ Releasing(q, d)'
    BY <2>2, <2>3 DEF Busy, Releasing
  <2> QED BY <2>4
<1> QED BY <1>1, <1>2, <1>3

\* A handle leaves the registry with the call that is alone with its context.
LEMMA RemovesHandle ==
  ASSUME IInv, CInv, ThreadingRule, NEW r \in Request, req[r].pc \in {"register", "revoke"},
         OfHandle(req[r]), RemoveHandle(req[r].handler, req[r].card),
         \/ Goto(r, "done")
         \/ req[r].op = "disconnect_reset" /\ Continue(r, "connect_again", NoCard),
         UNCHANGED <<crashed, core>>
  PROVE  CInv'
<1> DEFINE k == req[r].card  h == req[r].handler
<1>1. h \in Handler /\ h # NoHandler /\ k \in Card
  BY BusyHandler, AdmittedOwn DEF Admitted
<1>2. /\ handles'[h][k] = NoCtx
      /\ \A j \in Card \ {k} : handles'[h][j] = handles[h][j]
      /\ \A g \in Handler \ {h} : handles'[g] = handles[g]
      /\ contexts' = contexts
  BY <1>1, TypeParts DEF RemoveHandle, OtherTypes
<1>3. /\ SameCall(r) \/ NextCall(r)
      /\ req'[r].pc \in {"done", "start"} /\ req'[r].handler = h
      /\ req'[r].card = k \/ req'[r].op # "disconnect_reset"
      /\ \A q \in Request \ {r} : req'[q] = req[q]
  BY TypeParts DEF Goto, Continue, SameCall, NextCall, Fallback, RequestType
<1>4. Given' /\ Alone' /\ Exclusive'
  <2>1. HandlesShrink /\ OwnersKept
    BY <1>1, <1>2 DEF HandlesShrink, OwnersKept, core
  <2>2. \A q \in Request : SameCall(q) \/ NextCall(q)
    BY <1>3 DEF SameCall
  <2> QED BY <2>1, <2>2, CallsKept
<1>5. handles[h][k] \in Ctx \union {NoCtx} /\ handles[h][k] # NoCtx
  BY <1>1, TypeParts DEF OtherTypes, CInv, Registered, RegisteredOK, Admitted
<1>6. ASSUME NEW q \in Request, req[q].handler = h, OfHandle(req[q]), req[q].card = k
      PROVE  CallContext(q) = handles[h][k]
  <2>1. CASE req[q].op \in HandleCall
    BY <1>6, <2>1 DEF CallContext, ContextOf, ContextCall, HandleCall, Fallback
  <2>2. CASE req[q].op = "disconnect_reset"
    BY <1>1, <1>5, <1>6, <2>2
       DEF CallContext, ContextOf, Fallback, CInv, Registered, RegisteredOK
  <2> QED BY <1>6, <2>1, <2>2 DEF OfHandle, DisconnectStep, HandleCall
<1>7. ASSUME NEW q \in Request \ {r}, req[q].handler = h, OfHandle(req[q])
      PROVE  req[q].card # k
  <2>1. req[r].op \notin {"cancel", "status"}
    BY DEF OfHandle, HandleCall, DisconnectStep
  <2> QED BY <1>1, <1>5, <1>6, <1>7, <2>1, OnlyCall
<1>8. ASSUME NEW q \in Request PROVE RegisteredOK(q)'
  <2>0. RegisteredOK(q)
    BY DEF CInv, Registered
  <2>1. CASE q = r
    BY <1>2, <1>3, <2>1 DEF RegisteredOK, Admitted
  <2>2. CASE q # r /\ req[q].handler = h
    <3>1. OfHandle(req[q]) => req[q].card \in Card \ {k}
      BY <1>7, <2>2 DEF IInv, RequestInv, RequestOK, ShapeOK
    <3>2. /\ req[q].pc = "register" /\ req[q].op \in ConnectStep => req[q].card \in Card
          /\ req[q].op = "disconnect_reset" => req[q].card \in Card \ {k}
      BY <3>1 DEF IInv, RequestInv, RequestOK, ShapeOK, OfHandle, DisconnectStep
    <3> QED BY <1>1, <1>2, <1>3, <2>0, <2>2, <3>1, <3>2
            DEF RegisteredOK, OfContext, OfHandle, Admitted
  <2>3. CASE q # r /\ req[q].handler \in Handler \ {h}
    BY <1>2, <1>3, <2>0, <2>3 DEF RegisteredOK, OfContext, OfHandle, Admitted
  <2>4. CASE q # r /\ req[q].handler = NoHandler
    <3>1. req[q].pc = "idle"
      BY <2>4 DEF IInv, RequestInv, RequestOK, ShapeOK
    <3> QED BY <1>3, <2>4, <3>1 DEF RegisteredOK, Admitted
  <2>5. req[q].handler \in Handler \union {NoHandler}
    BY TypeParts DEF RequestType
  <2> QED BY <2>1, <2>2, <2>3, <2>4, <2>5
<1>9. Present'
  <2>1. req[r].op # "release"
    BY DEF OfHandle, HandleCall, DisconnectStep
  <2> QED BY <1>2, <1>3, <2>1, PresentKept DEF core
<1>10. Registered' /\ NoCheckFailure'
  BY <1>8 DEF Registered, CInv, NoCheckFailure
<1> QED BY <1>4, <1>9, <1>10 DEF CInv

\* A new handle enters the registry: no other thread knows it yet.
LEMMA AddsHandle ==
  ASSUME IInv, CInv, ThreadingRule, NEW r \in Request, req[r].pc = "register",
         req[r].op \in ConnectStep,
         AddHandle(req[r].handler, req[r].ctx, req[r].card),
         IF req[r].op = "connect_any"
         THEN Continue(r, "disconnect_reset", req[r].card)
         ELSE Goto(r, "done"),
         UNCHANGED <<crashed, core>>
  PROVE  CInv'
<1> DEFINE c == req[r].ctx  k == req[r].card  h == req[r].handler
<1>1. h \in Handler /\ h # NoHandler /\ k \in Card /\ k # NoCard
  BY BusyHandler, ClientAssumption DEF IInv, RequestInv, RequestOK, ShapeOK
<1>2. /\ handles'[h][k] = c
      /\ \A j \in Card \ {k} : handles'[h][j] = handles[h][j]
      /\ \A g \in Handler \ {h} : handles'[g] = handles[g]
      /\ contexts' = contexts
  BY <1>1, TypeParts DEF AddHandle, OtherTypes
<1>3. /\ SameCall(r) \/ NextCall(r)
      /\ req'[r].pc \in {"done", "start"} /\ req'[r].handler = h
      /\ req'[r].card = k /\ req'[r].ctx = c
      /\ req'[r].op \in ConnectStep \union {"disconnect_reset"}
      /\ \A q \in Request \ {r} : req'[q] = req[q]
  BY TypeParts DEF Goto, Continue, SameCall, NextCall, Fallback, RequestType, ConnectStep
<1>4. \A q \in Request \ {r} : req[q].card # k
  BY <1>1 DEF CInv, Alone
<1>5. Given' /\ Alone' /\ Exclusive'
  <2>1. OwnersKept
    BY DEF OwnersKept, core
  <2>2. \A q \in Request : SameCall(q) \/ NextCall(q)
    BY <1>3 DEF SameCall
  <2>3. ASSUME NEW q \in Request, req'[q].handler # NoHandler
        PROVE  CallContext(q)' \in {CallContext(q), NoCtx}
    <3>1. CASE q = r
      BY <1>3, <3>1
         DEF CallContext, ContextOf, ConnectStep, ContextCall, Fallback, HandleCall
    <3>2. CASE q # r
      <4>1. req'[q] = req[q] /\ req[q].handler \in Handler
        BY <1>3, <2>3, <3>2, TypeParts DEF RequestType
      <4>2. req[q].op \in HandleCall => req[q].card \in Card \ {k}
        BY <1>4, <2>3, <3>2, <4>1, Worker
      <4> QED BY <1>1, <1>2, <4>1, <4>2 DEF CallContext, ContextOf
    <3> QED BY <3>1, <3>2
  <2> QED BY <2>1, <2>2, <2>3, CallsApart
<1>6. ASSUME NEW q \in Request PROVE RegisteredOK(q)'
  <2>0. RegisteredOK(q)
    BY DEF CInv, Registered
  <2>1. CASE q = r
    BY <1>2, <1>3, <2>1 DEF RegisteredOK, Admitted
  <2>2. CASE q # r /\ req[q].handler = NoHandler
    <3>1. req[q].pc = "idle"
      BY <2>2 DEF IInv, RequestInv, RequestOK, ShapeOK
    <3> QED BY <1>3, <2>2, <3>1 DEF RegisteredOK, Admitted
  <2>3. CASE q # r /\ req[q].handler \in Handler
    <3>1. /\ OfHandle(req[q]) => req[q].card \in Card \ {k}
          /\ req[q].pc = "register" /\ req[q].op \in ConnectStep => req[q].card \in Card \ {k}
      BY <1>4, <2>3 DEF IInv, RequestInv, RequestOK, ShapeOK
    <3>2. req[q].op = "disconnect_reset" => req[q].card \in Card \ {k}
      BY <3>1 DEF OfHandle, DisconnectStep
    <3> QED BY <1>1, <1>2, <1>3, <2>0, <2>3, <3>1, <3>2
            DEF RegisteredOK, OfContext, OfHandle, Admitted
  <2>5. req[q].handler \in Handler \union {NoHandler}
    BY TypeParts DEF RequestType
  <2> QED BY <2>1, <2>2, <2>3, <2>5
<1>7. Present'
  <2>1. req[r].op # "release"
    BY DEF ConnectStep
  <2> QED BY <1>2, <1>3, <2>1, PresentKept DEF core
<1>8. Registered' /\ NoCheckFailure'
  BY <1>6 DEF Registered, CInv, NoCheckFailure
<1> QED BY <1>5, <1>7, <1>8 DEF CInv

\* A new context enters the registry: no other thread knows it yet.
LEMMA AddsContext ==
  ASSUME IInv, CInv, ThreadingRule, NEW r \in Request, req[r].pc = "register",
         req[r].op = "establish",
         AddContext(req[r].handler, req[r].ctx), Goto(r, "done"),
         UNCHANGED <<crashed, core>>
  PROVE  CInv'
<1> DEFINE c == req[r].ctx  h == req[r].handler
<1>1. h \in Handler /\ h # NoHandler /\ c \in Ctx /\ c # NoCtx
  BY BusyHandler, ClientAssumption DEF IInv, RequestInv, RequestOK, ShapeOK
<1>2. /\ contexts'[h] = contexts[h] \union {c} /\ handles' = handles
      /\ \A g \in Handler \ {h} : contexts'[g] = contexts[g]
  BY <1>1, TypeParts DEF AddContext, OtherTypes
<1>3. /\ SameCall(r) /\ req'[r].pc = "done"
      /\ \A q \in Request \ {r} : req'[q] = req[q]
  BY AtDone
<1>4. Given' /\ Alone' /\ Exclusive'
  <2>1. HandlesShrink /\ OwnersKept /\ \A q \in Request : SameCall(q)
    BY <1>2, <1>3 DEF HandlesShrink, OwnersKept, core, SameCall
  <2> QED BY <2>1, CallsKept
<1>5. ASSUME NEW q \in Request PROVE RegisteredOK(q)'
  <2>0. RegisteredOK(q)
    BY DEF CInv, Registered
  <2>1. CASE q = r
    BY <1>3, <2>1 DEF RegisteredOK, Admitted, SameCall
  <2>2. CASE q # r /\ req[q].handler = NoHandler
    <3>1. req[q].pc = "idle"
      BY <2>2 DEF IInv, RequestInv, RequestOK, ShapeOK
    <3> QED BY <1>3, <2>2, <3>1 DEF RegisteredOK, Admitted
  <2>3. CASE q # r /\ req[q].handler \in Handler
    <3>1. req[q].ctx # c
      BY <1>1, <2>3 DEF CInv, Alone
    <3> QED BY <1>1, <1>2, <1>3, <2>0, <2>3, <3>1
            DEF RegisteredOK, OfContext, OfHandle, Admitted
  <2>4. req[q].handler \in Handler \union {NoHandler}
    BY TypeParts DEF RequestType
  <2> QED BY <2>1, <2>2, <2>3, <2>4
<1>6. Present'
  <2>1. CoreMayRevoke \/ c \in coreContexts
    BY <1>1 DEF CInv, Present, Establishing
  <2>2. \A g \in Handler : \A d \in contexts'[g] : d \in contexts[g] \/ (d = c /\ g = h)
    BY <1>2
  <2> QED BY <1>3, <2>1, <2>2, PresentKept DEF core, Present
<1>7. Registered' /\ NoCheckFailure'
  BY <1>5 DEF Registered, CInv, NoCheckFailure
<1> QED BY <1>4, <1>6, <1>7 DEF CInv

\* Every GOOGLE_SMART_CARD_CHECK on a registry finds it as it expects.
LEMMA Registers ==
  ASSUME IInv, CInv, ThreadingRule, NEW r \in Request, Register(r) \/ Revoke(r)
  PROVE  CInv'
<1> DEFINE c == req[r].ctx  k == req[r].card  h == req[r].handler
<1>0. req[r].pc \in {"register", "revoke"} /\ UNCHANGED core
  BY DEF Register, Revoke
<1>1. h \in Handler /\ h # NoHandler
  BY <1>0, BusyHandler
<1>2. RegisteredOK(r)
  BY DEF CInv, Registered
<1>3. OfContext(req[r]) => c \in contexts[h]
  BY <1>0, <1>2 DEF RegisteredOK, Admitted
<1>4. OfHandle(req[r]) => handles[h][k] \in contexts[h]
  <2> SUFFICES ASSUME OfHandle(req[r]) PROVE handles[h][k] \in contexts[h]
    OBVIOUS
  <2>1. k \in Card /\ handles[h][k] # NoCtx
    BY <1>0, <1>2, AdmittedOwn DEF RegisteredOK, Admitted
  <2> QED BY <1>1, <2>1, TypeParts DEF MapsAgree
<1>5. CASE Register(r)
  <2>0. req[r].pc = "register"
    BY <1>5 DEF Register
  <2>1. CASE RegisterEstablished(r, h, c)
    <3>1. c \notin contexts[h] /\ req[r].op = "establish"
      BY <1>2, <2>0, <2>1 DEF RegisterEstablished, RegisteredOK
    <3> QED BY <1>0, <2>0, <2>1, <3>1, AddsContext DEF RegisterEstablished, Check
  <2>2. CASE RegisterReleased(r, h, c)
    <3>1. req[r].op = "release" /\ OfContext(req[r])
      BY <2>2 DEF RegisterReleased, OfContext, ContextCall
    <3> QED BY <1>0, <1>3, <2>2, <3>1, Removes DEF RegisterReleased, Check
  <2>3. CASE RegisterConnected(r, h, c, k)
    <3>1. req[r].op \in ConnectStep /\ OfContext(req[r])
      BY <2>3 DEF RegisterConnected, OfContext
    <3>2. handles[h][k] = NoCtx
      BY <1>2, <2>0, <3>1 DEF RegisteredOK
    <3> QED BY <1>0, <1>3, <2>0, <2>3, <3>1, <3>2, AddsHandle DEF RegisterConnected, Check
  <2>4. CASE RegisterDisconnected(r, h, k)
    <3>1. OfHandle(req[r])
      BY <2>4 DEF RegisterDisconnected, OfHandle
    <3> QED BY <1>0, <1>4, <2>4, <3>1, RemovesHandle DEF RegisterDisconnected, Check
  <2> QED BY <1>5, <2>1, <2>2, <2>3, <2>4 DEF Register
<1>6. CASE Revoke(r)
  <2>0. req[r].pc = "revoke"
    BY <1>6 DEF Revoke
  <2>1. CASE req[r].op \in ContextCall \union ConnectStep
    <3>1. OfContext(req[r]) /\ ~OfHandle(req[r])
      BY <2>1 DEF OfContext, OfHandle, ContextCall, ConnectStep, HandleCall, DisconnectStep
    <3>2. CoreMayRevoke
      BY <2>0, <3>1, ClientAssumption DEF CInv, Present
    <3> QED BY <1>0, <1>3, <1>6, <3>1, <3>2, Removes DEF Revoke, Check, OfHandle
  <2>2. CASE req[r].op \in HandleCall \union DisconnectStep
    <3>1. OfHandle(req[r]) /\ ~OfContext(req[r])
      BY <2>2 DEF OfContext, OfHandle, ContextCall, ConnectStep, HandleCall, DisconnectStep
    <3> QED BY <1>0, <1>4, <1>6, <3>1, RemovesHandle DEF Revoke, Check, OfContext
  <2> QED BY <1>6, <2>1, <2>2 DEF Revoke
<1> QED BY <1>5, <1>6

-----------------------------------------------------------------------------
LEMMA InitCInv == Init => CInv
<1> SUFFICES ASSUME Init PROVE CInv
  OBVIOUS
<1>1. \A r \in Request : req[r] = IdleRequest
  BY DEF Init
<1> QED BY <1>1 DEF Init, CInv, NoCheckFailure, Given, Alone, Exclusive, Registered,
                   RegisteredOK, Present, IdleRequest, Admitted, ConnectStep, Fallback,
                   Establishing

LEMMA NextCInv == IInv /\ CInv /\ ThreadingRule /\ [Next]_vars => CInv'
<1> SUFFICES ASSUME IInv, CInv, ThreadingRule, [Next]_vars PROVE CInv'
  OBVIOUS
<1>1. CASE UNCHANGED vars
  BY <1>1, Elsewhere
<1>2. CASE ManagerStep
  BY <1>2, Elsewhere, Ends, Receives DEF ManagerStep
<1>3. ASSUME NEW r \in Request, RequestStep(r) \/ WaitEnds(r) \/ ReaderEvent(r)
      PROVE  CInv'
  BY <1>3, ChecksContext, Establishes, Releases, CallsCore, Interrupts, Registers, Consults,
     Ends
     DEF RequestStep, WaitEnds
<1>4. ASSUME NEW h \in Handler, JobStep(h) PROVE CInv'
  BY <1>4, Interrupts, Elsewhere DEF JobStep
<1>5. ASSUME NEW c \in Ctx, CoreRevokes(c) PROVE CInv'
  BY <1>5, Elsewhere
<1> QED BY <1>1, <1>2, <1>3, <1>4, <1>5 DEF Next

\* No check of a handles registry fails, so no client brings the module down, as long
\* as clients follow the threading rule.
THEOREM ChecksHold == ThreadingRule => (Spec => []NoCheckFailure)
<1> SUFFICES ASSUME ThreadingRule PROVE Spec => []NoCheckFailure
  OBVIOUS
<1>1. Init => IInv /\ CInv
  BY InitIInv, InitCInv
<1>2. IInv /\ CInv /\ [Next]_vars => IInv' /\ CInv'
  BY NextIInv, NextCInv
<1>3. CInv => NoCheckFailure
  BY DEF CInv
<1> QED BY <1>1, <1>2, <1>3, PTL DEF Spec
=============================================================================
