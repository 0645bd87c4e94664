---------------------------- MODULE ModuleLoading ----------------------------
(***************************************************************************)
(* Loading the executable module and the channel to it, in the extension:  *)
(* the background page's OffscreenDocEmscriptenModule opens an offscreen   *)
(* document, whose main script runs an EmscriptenModule and connects two   *)
(* ports back, for its status and for the module's messages.               *)
(*                                                                         *)
(* Every await of load_ is a point where the page may find that the module *)
(* has been disposed of, that the document has gone, that the binary has   *)
(* crashed.  What the document's two ports carry arrives in the order in   *)
(* which it was posted, in either direction.                               *)
(***************************************************************************)
EXTENDS Naturals, Sequences, FiniteSets, DelayedChannel

CONSTANT MaxMessages    \* how many messages each side sends

VARIABLES
  outer,        \* the background page's OffscreenDocEmscriptenModule
  document,     \* "none", "opening", "open", "closed"
  inner,        \* the document's EmscriptenModule
  toPage,       \* what the document's ports carry to the page
  toDocument,   \* and back
  sent,         \* history: how many messages the page has sent
  received      \* history: the messages the binary has received

vars == <<outer, document, inner, toPage, toDocument, sent, received>>

\* `at` is the await load_ stands at; `status` and `messages` are the two
\* channels the waiters have got: "here" is one that nobody listens to yet.
NewOuter ==
  [at |-> "idle", load |-> "pending", disposed |-> FALSE, active |-> FALSE,
   status |-> "none", messages |-> "none", channel |-> NewDelayed,
   failed |-> FALSE]    \* a check of the page has failed

NewInner ==
  [at |-> "idle", disposed |-> FALSE, binary |-> "none", channel |-> NewDelayed]

Init ==
  /\ outer = NewOuter /\ document = "none" /\ inner = NewInner
  /\ toPage = <<>> /\ toDocument = <<>>
  /\ sent = 0 /\ received = <<>>

-----------------------------------------------------------------------------
\* disposeInternal: the load promise is rejected, unless it is settled.
DisposeOuter(o) ==
  [o EXCEPT !.disposed = TRUE, !.active = FALSE,
            !.status = IF @ = "taken" THEN "disposed" ELSE @,
            !.messages = IF o.channel.linked THEN "disposed" ELSE @,
            !.channel = DisposeDelayed(@),
            !.load = IF @ = "pending" THEN "rejected" ELSE @]

\* load_ throws: the promise is rejected, and that is all.
Abandon(o) ==
  [o EXCEPT !.at = "over", !.load = IF @ = "pending" THEN "rejected" ELSE @]

\* PortMessageChannelWaiter.onConnect_ for the port of the given name.
OnConnect(o, name) == [o EXCEPT ![name] = IF @ = "none" THEN "here" ELSE @]

StartLoading ==
  /\ outer.at = "idle"
  /\ outer' = [outer EXCEPT !.at = "createDocument"]
  /\ document' = "opening"
  /\ UNCHANGED <<inner, toPage, toDocument, sent, received>>

\* load_ has the status channel it awaits: it goes on before any other event.
Resumes == outer.at = "status" /\ outer.status # "none"

\* Somebody disposes of the module.
Dispose ==
  /\ ~outer.disposed /\ outer.at # "idle" /\ ~Resumes
  /\ outer' = DisposeOuter(outer)
  /\ document' = IF outer.active THEN "closed" ELSE document
  /\ UNCHANGED <<inner, toPage, toDocument, sent, received>>

\* Mutant: after the await, the disposal is not looked for.
DocumentCreatedUnchecked ==
  /\ outer.at = "createDocument" /\ document = "open"
  /\ outer' = [outer EXCEPT !.active = TRUE, !.at = "status"]
  /\ UNCHANGED <<document, inner, toPage, toDocument, sent, received>>

\* createDocument fulfils its promise once the document's page has been loaded,
\* or rejects it.
DocumentCreated ==
  /\ outer.at = "createDocument" /\ document = "open"
  /\ IF outer.disposed
     THEN outer' = Abandon(outer) /\ document' = "closed"
     ELSE /\ outer' = [outer EXCEPT !.active = TRUE, !.at = "status"]
          /\ UNCHANGED document
  /\ UNCHANGED <<inner, toPage, toDocument, sent, received>>

\* The document could not be opened, or has gone before it was loaded.
DocumentRefused ==
  /\ outer.at = "createDocument" /\ document \in {"opening", "closed"}
  /\ outer' = Abandon(outer) /\ document' = "closed"
  /\ UNCHANGED <<inner, toPage, toDocument, sent, received>>

\* The await of the status channel's waiter goes on.
StatusConnected ==
  /\ Resumes
  /\ outer' = IF outer.disposed THEN Abandon([outer EXCEPT !.status = "disposed"])
              ELSE IF outer.status = "disposed" THEN Abandon(outer)
              ELSE [outer EXCEPT !.status = "taken", !.at = "loaded"]
  /\ UNCHANGED <<document, inner, toPage, toDocument, sent, received>>

\* The "loaded" message wins the race: load_ goes on to the end.
OnLoaded(o) ==
  [o EXCEPT !.at = "over",
            !.channel = SetReady(SetUnderlyingChannel(@)),
            !.load = IF @ = "pending" THEN "resolved" ELSE @]

\* The ports are disconnected: their channels are disposed of, and the waiters
\* for the status messages reject.
OnGone(o) ==
  LET cut == [o EXCEPT !.status = "disposed", !.messages = "disposed"]
  IN IF o.at = "loaded" THEN Abandon(cut) ELSE cut

\* waitForDisposedMessage_: the module is disposed of, and the race lost.
OnDisposed(o) == DisposeOuter(IF o.at = "loaded" THEN Abandon(o) ELSE o)

\* The page goes on with what has come.
Heard(o, m) ==
  CASE m \in {"status", "messages"} -> OnConnect(o, m)
    [] m = "gone" -> OnGone(o)
    [] m = "loaded" /\ o.at = "loaded" /\ ~o.disposed -> OnLoaded(o)
    [] m = "disposed" /\ o.status = "taken" -> OnDisposed(o)
    [] OTHER -> o

\* PortMessageChannel.defaultServiceCallback_: a message that no service is
\* registered for fails the page, and is lost.
Unhandled(o, m) ==
  \/ m \in {"loaded", "disposed"} /\ o.status = "here"
  \/ m = "answer" /\ o.messages = "here" /\ ~o.channel.linked

\* A port's event in the background page.
PageHears ==
  /\ toPage # <<>> /\ ~Resumes
  /\ toPage' = Tail(toPage)
  /\ LET m == Head(toPage)
     IN /\ outer' = IF Unhandled(outer, m) THEN [outer EXCEPT !.failed = TRUE]
                    ELSE Heard(outer, m)
        /\ document' = IF m = "disposed" /\ outer.status = "taken" /\ outer.active
                       THEN "closed" ELSE document
  /\ UNCHANGED <<inner, toDocument, sent, received>>

\* The page sends a message to the module.
PageSends ==
  /\ sent < MaxMessages /\ outer.at # "idle" /\ ~Resumes
  /\ sent' = sent + 1
  /\ outer' = [outer EXCEPT !.channel = DelayedSend(@, <<sent + 1>>)]
  /\ UNCHANGED <<document, inner, toPage, toDocument, received>>

PagePosts ==
  /\ outer.channel.passed # <<>>
  /\ outer' = [outer EXCEPT !.channel.passed = Tail(@)]
  /\ toDocument' = IF outer.messages = "here"
                   THEN Append(toDocument, Head(outer.channel.passed)) ELSE toDocument
  /\ UNCHANGED <<document, inner, toPage, sent, received>>

-----------------------------------------------------------------------------
\* startLoading; disposeInternal
StartInner(i) == [i EXCEPT !.at = "loading"]
DisposeInner(i) ==
  [i EXCEPT !.at = "over", !.disposed = TRUE, !.binary = "gone",
            !.channel = DisposeDelayed(@)]

\* The main script connects both ports, the messages' one first.
DocumentOpens ==
  /\ document = "opening"
  /\ document' = "open"
  /\ toPage' = toPage \o <<"messages", "status">>
  /\ inner' = StartInner([inner EXCEPT !.channel = SetUnderlyingChannel(@)])
  /\ UNCHANGED <<outer, toDocument, sent, received>>

\* The script and the binary have been loaded: the C++ object is created, the
\* channel made ready, the page told.  The document's load event, which
\* createDocument awaits, waits for the script, and not for the binary, which the
\* script only begins to fetch and which takes far longer.
BinaryLoads ==
  /\ document = "open" /\ inner.at = "loading" /\ outer.at # "createDocument"
  /\ inner' = [inner EXCEPT !.at = "over", !.binary = "running",
                            !.channel = SetReady(@)]
  /\ toPage' = Append(toPage, "loaded")
  /\ UNCHANGED <<outer, document, toDocument, sent, received>>

\* load_ rejects: the module is disposed of and the page told so.  The script's
\* failure may come before the document's load event.
LoadFails ==
  /\ document = "open" /\ inner.at = "loading"
  /\ inner' = DisposeInner(inner)
  /\ toPage' = Append(toPage, "disposed")
  /\ UNCHANGED <<outer, document, toDocument, sent, received>>

\* onModuleCrashed_: the binary aborts, and likewise.
ModuleCrashes ==
  /\ document = "open" /\ inner.binary = "running"
  /\ inner' = DisposeInner(inner)
  /\ toPage' = Append(toPage, "disposed")
  /\ UNCHANGED <<outer, document, toDocument, sent, received>>

\* The default service of the messages' port in the document.
DocumentForwards ==
  /\ document = "open" /\ toDocument # <<>>
  /\ toDocument' = Tail(toDocument)
  /\ inner' = [inner EXCEPT !.channel = DelayedSend(@, <<Head(toDocument)>>)]
  /\ UNCHANGED <<outer, document, toPage, sent, received>>

BinaryReceives ==
  /\ document = "open" /\ inner.binary = "running" /\ inner.channel.passed # <<>>
  /\ inner' = [inner EXCEPT !.channel.passed = Tail(@)]
  /\ received' = Append(received, Head(inner.channel.passed))
  /\ UNCHANGED <<outer, document, toPage, toDocument, sent>>

\* The binary sends a message of its own.
BinarySends ==
  /\ document = "open" /\ inner.binary = "running"
  /\ Cardinality({i \in DOMAIN toPage : toPage[i] = "answer"}) < MaxMessages
  /\ toPage' = Append(toPage, "answer")
  /\ UNCHANGED <<outer, document, inner, toDocument, sent, received>>

\* The document goes away: closed by the page, or killed by the browser.
DocumentGoes ==
  /\ document \in {"open", "closed"} /\ inner.at # "idle"
  /\ document' = "closed"
  /\ inner' = NewInner
  /\ toPage' = Append(toPage, "gone")
  /\ toDocument' = <<>>
  /\ UNCHANGED <<outer, sent, received>>

Next ==
  \/ StartLoading \/ Dispose \/ DocumentCreated \/ DocumentRefused
  \/ StatusConnected \/ PageHears \/ PageSends \/ PagePosts
  \/ DocumentOpens \/ BinaryLoads \/ LoadFails \/ ModuleCrashes
  \/ DocumentForwards \/ BinaryReceives \/ BinarySends \/ DocumentGoes

\* Events are delivered, and the browser opens or refuses, loads or fails, and
\* closes what it was asked to.  Nobody has to dispose, send or kill.
Fairness ==
  /\ WF_vars(DocumentOpens \/ DocumentRefused)
  /\ WF_vars(DocumentCreated)
  /\ WF_vars(StatusConnected) /\ WF_vars(PageHears) /\ WF_vars(PagePosts)
  /\ WF_vars(BinaryLoads \/ LoadFails)
  /\ WF_vars(DocumentForwards) /\ WF_vars(BinaryReceives)
  /\ WF_vars(document = "closed" /\ DocumentGoes)

Spec == Init /\ [][Next]_vars /\ Fairness

-----------------------------------------------------------------------------
\* The messages sent through the two delayed channels and the port between them
\* reach the binary in the order they were sent, none twice, none skipped,
\* however early they were sent.
MessagesInOrder == \A i \in DOMAIN received : received[i] = i

\* No document outlives its module, even if that was disposed of while the
\* document was being created; and the load promise is settled, whatever the
\* document, the binary and the ports do, unless the page has failed loudly on the
\* "disposed" of a module that came while createDocument was still awaited: then
\* it waits for a status message that was lost.
LoadingEnds ==
  /\ outer.disposed ~> document = "closed"
  /\ outer.at # "idle" ~>
       \/ outer.load # "pending"
       \/ outer.failed /\ outer.at = "loaded" /\ inner.binary = "gone"
=============================================================================
