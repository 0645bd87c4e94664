---------------------------- MODULE ExampleClients ----------------------------
(***************************************************************************)
(* The two JavaScript sample clients over PcscLiteClient.Context: the      *)
(* standalone one's chain of PC/SC calls, each made by the callback of the *)
(* one before, and the example app's PC/SC demo, which is followed by a    *)
(* PIN dialog.  The connection to the Connector may be shut down at any    *)
(* moment; its listener forgets everything, and the call that was pending  *)
(* is rejected.                                                            *)
(*                                                                         *)
(* A promise's callbacks run as microtasks, before the page gets any other *)
(* event; so an answer and what its callback calls are one step.  Context, *)
(* API and Demo are third-party code, seen here by what they call back.    *)
(***************************************************************************)
EXTENDS Naturals, Sequences

CONSTANTS SCardContexts, NoContext, Readers

ClientsAssumption == NoContext \notin SCardContexts

VARIABLES
  link,         \* the connection of each sample: "opening", "open" or "shut"
  sample,       \* the standalone sample's variables, and its pending call
  app,          \* the example app's
  valid         \* the contexts the server has established for the sample

vars == <<link, sample, app, valid>>

Clients == {"sample", "app"}
NoCall == [name |-> "none", sCardContext |-> NoContext]

-----------------------------------------------------------------------------
\* A call of the API, which a null api makes fail.
Call(s, name) ==
  IF s.api = "live" THEN [s EXCEPT !.call = [name |-> name, sCardContext |-> s.sCardContext]]
  ELSE [s EXCEPT !.failed = TRUE]
Idle(s) == [s EXCEPT !.call = NoCall]

EstablishContext(s) == Call(s, "SCardEstablishContext")
ListReaders(s) == Call(s, "SCardListReaders")
GetReaderState(s) == Call(s, "first SCardGetStatusChange")

OnInitializationSucceeded(s) == EstablishContext([s EXCEPT !.api = "live"])
OnContextEstablished(s, c) == ListReaders([s EXCEPT !.sCardContext = c])
OnReadersListed(s, readers) == IF readers = {} THEN Idle(s) ELSE GetReaderState(s)
OnReaderStateGot(s) == Call(s, "second SCardGetStatusChange")
OnReaderStateChanged(s) == Idle(s)
OnPcscLiteError(s) == Idle(s)
OnRequestFailed(s) == Idle(s)

\* contextDisposedListener of the standalone sample.
SampleDisposed(s) ==
  [s EXCEPT !.sCardContext = NoContext, !.api = "null", !.apiContext = "null"]

\* initialize of the sample, initializeContext of the app.
Initialize ==
  [apiContext |-> "live", api |-> "null", sCardContext |-> NoContext,
   call |-> NoCall, failed |-> FALSE]
InitializeContext == [context |-> "live", demo |-> "none", pinDialogs |-> 0]

Init ==
  /\ link = [c \in Clients |-> "opening"]
  /\ sample = Initialize /\ app = InitializeContext
  /\ valid = {}

-----------------------------------------------------------------------------
Connect(c) ==
  /\ link[c] = "opening"
  /\ link' = [link EXCEPT ![c] = "open"]
  /\ UNCHANGED valid

SampleConnects ==
  /\ Connect("sample")
  /\ sample' = OnInitializationSucceeded(sample)
  /\ UNCHANGED app

\* The answer to the pending call arrives: result.get calls one of the two.
SampleAnswered ==
  /\ link["sample"] = "open"
  /\ LET name == sample.call.name
     IN \/ /\ name = "SCardEstablishContext"
           /\ \E c \in SCardContexts : /\ sample' = OnContextEstablished(sample, c)
                                       /\ valid' = valid \cup {c}
        \/ /\ name = "SCardListReaders"
           /\ \E rs \in SUBSET Readers : sample' = OnReadersListed(sample, rs)
           /\ UNCHANGED valid
        \/ /\ name = "first SCardGetStatusChange"
           /\ sample' = OnReaderStateGot(sample) /\ UNCHANGED valid
        \/ /\ name = "second SCardGetStatusChange"
           /\ sample' = OnReaderStateChanged(sample) /\ UNCHANGED valid
        \/ /\ name # "none"
           /\ sample' = OnPcscLiteError(sample) /\ UNCHANGED valid
  /\ UNCHANGED <<link, app>>

\* The connection is shut down: the listener runs, then what was pending is
\* rejected.  The server forgets the contexts.
Shut(c) == link[c] # "shut" /\ link' = [link EXCEPT ![c] = "shut"]

SampleShutDown ==
  /\ Shut("sample")
  /\ sample' = LET s == SampleDisposed(sample)
               IN IF s.call = NoCall THEN s ELSE OnRequestFailed(s)
  /\ valid' = {}
  /\ UNCHANGED app

-----------------------------------------------------------------------------
\* work: Demo.run calls back once, when it has succeeded or failed.
RunPcscLiteDemo(a) == [a EXCEPT !.demo = "running"]
RunPinDialogDemo(a) == [a EXCEPT !.demo = "over", !.pinDialogs = @ + 1]

\* contextInitializedListener
ContextInitialized ==
  /\ Connect("app")
  /\ app' = RunPcscLiteDemo(app)
  /\ UNCHANGED sample

DemoEnds ==
  /\ app.demo = "running"
  /\ app' = RunPinDialogDemo(app)
  /\ UNCHANGED <<link, sample, valid>>

\* contextDisposedListener of the app, with stopWork; the demo's pending call is
\* rejected, which ends the demo.
ContextDisposed ==
  /\ Shut("app")
  /\ app' = LET a == [app EXCEPT !.context = "null"]
            IN IF a.demo = "running" THEN RunPinDialogDemo(a) ELSE a
  /\ UNCHANGED <<sample, valid>>

Next ==
  \/ SampleConnects \/ SampleAnswered \/ SampleShutDown
  \/ ContextInitialized \/ DemoEnds \/ ContextDisposed

Spec == Init /\ [][Next]_vars

-----------------------------------------------------------------------------
\* Whenever the connection ends, no sample calls anything without an API, or
\* names a context that is not one of this connection; the forgotten connection
\* leaves no call behind; and a demo that was started is followed by one dialog.
SamplesConnected ==
  /\ ~sample.failed
  /\ sample.call.name \notin {"none", "SCardEstablishContext"} =>
       sample.call.sCardContext \in valid
  /\ link["sample"] = "shut" =>
       sample.call = NoCall /\ sample.sCardContext = NoContext
  /\ app.pinDialogs = IF app.demo = "over" THEN 1 ELSE 0
  /\ link["app"] = "shut" => app.demo # "running"
=============================================================================
