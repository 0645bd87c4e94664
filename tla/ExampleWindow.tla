---------------------------- MODULE ExampleWindow ----------------------------
(***************************************************************************)
(* The main window of the C++ sample client: its button starts a test in   *)
(* the executable module, which sends the test's output to the `ui`        *)
(* service.  The background page ignores that service; the window takes it *)
(* over while it is open.  In a release the application reloads itself     *)
(* when the module is disposed of.                                         *)
(***************************************************************************)
EXTENDS Naturals, Sequences

CONSTANT MaxTests       \* how many tests are run
WindowAssumption == MaxTests \in Nat

VARIABLES
  debug,        \* goog.DEBUG
  module,       \* the executable module: "loading", "running" or "gone"
  service,      \* who is registered for `ui`: "page" or "window"
  tests,        \* run_test commands the module has not taken
  output,       \* messages on their way to `ui`
  main          \* the window, and what it displays

vars == <<debug, module, service, tests, output, main>>

ClosedMain == [open |-> FALSE, text |-> <<>>]

\* The background page registers for `ui`, then starts the loading.
RegisterIgnoring == service' = "page"

Init ==
  /\ debug \in BOOLEAN
  /\ module = "loading" /\ service = "page"
  /\ tests = [sent |-> 0, taken |-> 0] /\ output = <<>>
  /\ main = ClosedMain

\* onLaunched: a second window of the same id is not created.  The window's
\* script registers for `ui`.
Launch ==
  /\ ~main.open
  /\ main' = [ClosedMain EXCEPT !.open = TRUE]
  /\ service' = "window"
  /\ UNCHANGED <<debug, module, tests, output>>

\* onRunTestClicked: what is sent to a disposed module is lost.
RunTestClicked ==
  /\ main.open /\ module # "gone" /\ tests.sent < MaxTests
  /\ tests' = [tests EXCEPT !.sent = @ + 1]
  /\ UNCHANGED <<debug, module, service, output, main>>

ModuleLoads ==
  /\ module = "loading"
  /\ module' = "running"
  /\ UNCHANGED <<debug, service, tests, output, main>>

\* The module runs the next test, whose output is two messages.
ModuleTests ==
  /\ module = "running" /\ tests.taken < tests.sent
  /\ tests' = [tests EXCEPT !.taken = @ + 1]
  /\ output' = output \o <<2 * tests.taken + 1, 2 * tests.taken + 2>>
  /\ UNCHANGED <<debug, module, service, main>>

DisplayOutputMessage(w, text) == [w EXCEPT !.text = Append(@, text)]

\* A message for `ui` arrives.
UiHears ==
  /\ output # <<>>
  /\ output' = Tail(output)
  /\ main' = IF service = "window" THEN DisplayOutputMessage(main, Head(output)) ELSE main
  /\ UNCHANGED <<debug, module, service, tests>>

\* onCloseWindowClicked and the listener of onClosed.
CloseClicked ==
  /\ main.open
  /\ main' = ClosedMain
  /\ RegisterIgnoring
  /\ UNCHANGED <<debug, module, tests, output>>

\* executableModuleDisposedListener: the reloaded application starts anew.
ModuleDisposed ==
  /\ module # "gone"
  /\ output' = <<>>
  /\ IF debug
     THEN module' = "gone" /\ UNCHANGED <<service, tests, main>>
     ELSE /\ module' = "loading" /\ service' = "page"
          /\ tests' = [sent |-> 0, taken |-> 0] /\ main' = ClosedMain
  /\ UNCHANGED debug

Next ==
  \/ Launch \/ RunTestClicked \/ CloseClicked \/ UiHears
  \/ ModuleLoads \/ ModuleTests \/ ModuleDisposed

Spec == Init /\ [][Next]_vars

-----------------------------------------------------------------------------
\* However often the window is closed and opened while tests run, what it shows
\* and what is still on its way to it is the module's latest output, without a
\* gap, a repetition or a line out of order.
OutputShown ==
  LET lines == main.text \o output
      latest == 2 * tests.taken
  IN main.open =>
       /\ \A i \in 1 .. Len(lines) - 1 : lines[i + 1] = lines[i] + 1
       /\ module = "running" /\ lines # <<>> => lines[Len(lines)] = latest
       /\ service = "window"
=============================================================================
