-------------------------------- MODULE WindowApps --------------------------------
(***************************************************************************)
(* The client applications in the Connector's main window: the background  *)
(* page sends the origins of the pool's channels through a port, and the   *)
(* window looks their names up before it shows them.  A second port tells  *)
(* the window that the executable module has been disposed of.             *)
(*                                                                         *)
(* The registry of the names is not in this code: names are found in any   *)
(* order, or not at all.                                                   *)
(***************************************************************************)
EXTENDS Naturals, Sequences, SequencesExt

CONSTANTS
  Senders,      \* the browser's MessageSender of each client application
  MaxChanges    \* how often a client comes or goes, or the window closes

AppsAssumption == MaxChanges \in Nat

VARIABLES
  changes,
  clients,      \* MessageChannelPool: how many channels each origin has
  debug,        \* goog.DEBUG
  os,           \* what chrome.runtime.getPlatformInfo will say
  disposed,     \* the executable module has been disposed of
  window        \* the window, its ports, and what it shows

vars == <<changes, clients, debug, os, disposed, window>>

\* The origin of an extension's id, or else of a page's URL, if that can be
\* parsed.
NoOrigin == [scheme |-> "null", host |-> ""]
GetFromExtensionId(id) == [scheme |-> "chrome-extension", host |-> id]

GetFromChromeMessageSender(sender) ==
  CASE sender.id # ""                             -> GetFromExtensionId(sender.id)
    [] sender.id = "" /\ sender.url.kind = "page" -> sender.url.origin
    [] OTHER                                      -> NoOrigin

Origins == {GetFromChromeMessageSender(s) : s \in Senders} \ {NoOrigin}

PortNames == {"apps", "crash"}
ClosedWindow ==
  [open |-> FALSE, connected |-> {}, port |-> [n \in PortNames |-> <<>>],
   lookups |-> <<>>, last |-> 0, apps |-> {}, named |-> FALSE, warning |-> FALSE,
   asksPlatform |-> FALSE, osWarning |-> FALSE, listening |-> FALSE]

Init ==
  /\ changes = 0
  /\ clients = [o \in Origins |-> 0]
  /\ debug \in BOOLEAN /\ os \in {"cros", "other"} /\ disposed = FALSE
  /\ window = ClosedWindow

\* What is sent through the window's port of that name, if it is connected.
Send(w, name, m) ==
  IF name \in w.connected THEN [w EXCEPT !.port[name] = Append(@, m)] ELSE w

\* getMessagingOrigins, and fireOnUpdateListeners_ of the pool.
GetMessagingOrigins(pool) == {o \in Origins : pool[o] > 0}
FireOnUpdate(w, pool) ==
  IF w.listening THEN Send(w, "apps", GetMessagingOrigins(pool)) ELSE w

\* addOnUpdateListener fires once at once; removeOnUpdateListener.
AddOnUpdateListener(w) == FireOnUpdate([w EXCEPT !.listening = TRUE], clients)
RemoveOnUpdateListener(w) == [w EXCEPT !.listening = FALSE]

Change == changes < MaxChanges /\ changes' = changes + 1

-----------------------------------------------------------------------------
\* createClientHandler, for a channel the pool has been given: without a module
\* it is disposed of at once, and the pool fires again.
CreateClientHandler(o) ==
  LET more == [clients EXCEPT ![o] = @ + 1]
      added == FireOnUpdate(window, more)
  IN IF disposed
     THEN window' = FireOnUpdate(added, clients) /\ UNCHANGED clients
     ELSE window' = added /\ clients' = more

\* externalConnectionListener: without an origin the client is ignored.
ClientConnects(sender) ==
  /\ Change
  /\ LET o == GetFromChromeMessageSender(sender)
     IN IF o = NoOrigin THEN UNCHANGED <<clients, window>> ELSE CreateClientHandler(o)
  /\ UNCHANGED <<debug, os, disposed>>

ClientDisconnects(o) ==
  /\ Change /\ clients[o] > 0
  /\ clients' = [clients EXCEPT ![o] = @ - 1]
  /\ window' = FireOnUpdate(window, clients')
  /\ UNCHANGED <<debug, os, disposed>>

\* The module is disposed of, and with it the clients' channels.  In a release
\* the extension reloads itself: executableModuleDisposedListener.
ModuleDisposed ==
  /\ Change /\ ~disposed
  /\ clients' = [o \in Origins |-> 0]
  /\ IF debug
     THEN /\ disposed' = TRUE
          /\ window' = Send(FireOnUpdate(window, clients'), "crash", "crashed")
     ELSE /\ window' = ClosedWindow /\ UNCHANGED disposed
  /\ UNCHANGED <<debug, os>>

-----------------------------------------------------------------------------
\* The window's page is loaded: its parts connect their ports and ask for the
\* platform.
DisplayNonChromeOsWarningIfNeeded(w) == [w EXCEPT !.asksPlatform = TRUE]
InitializeApps(w) == [w EXCEPT !.open = TRUE]
InitializeStatus(w) == DisplayNonChromeOsWarningIfNeeded(w)

\* openWindowDueToUserRequest
OpenWindow ==
  /\ ~window.open
  /\ window' = InitializeStatus(InitializeApps(ClosedWindow))
  /\ UNCHANGED <<changes, clients, debug, os, disposed>>

\* The window's ports are disconnected, which disposes of the page's channels.
CloseWindow ==
  /\ window.open /\ Change
  /\ window' = RemoveOnUpdateListener([ClosedWindow EXCEPT !.listening = window.listening])
  /\ UNCHANGED <<clients, debug, os, disposed>>

\* onMessagePortConnected: a port is given the current state, and will be sent
\* every other.
SetUpSendingAppList(w) == AddOnUpdateListener(w)
SetUpSendingCrashEvent(w) == IF disposed THEN Send(w, "crash", "crashed") ELSE w

OnMessagePortConnected(name) ==
  /\ window.open /\ name \notin window.connected
  /\ LET w == [window EXCEPT !.connected = @ \cup {name}]
     IN window' = CASE name = "apps" -> SetUpSendingAppList(w)
                    [] name = "crash" -> SetUpSendingCrashEvent(w)
  /\ UNCHANGED <<changes, clients, debug, os, disposed>>

-----------------------------------------------------------------------------
\* onUpdateListener: the names are looked up, as a promise remembered as the
\* last one.
OnUpdateListener(w, origins) ==
  [w EXCEPT !.lookups = Append(@, [number |-> w.last + 1, apps |-> origins]),
            !.last = @ + 1]

\* The platform's information arrives.
PlatformInfo ==
  /\ window.asksPlatform
  /\ window' = [window EXCEPT !.asksPlatform = FALSE, !.osWarning = os # "cros"]
  /\ UNCHANGED <<changes, clients, debug, os, disposed>>

OnExecutableModuleDisposed(w) == [w EXCEPT !.warning = TRUE]

WindowHears(name) ==
  /\ window.port[name] # <<>>
  /\ LET m == Head(window.port[name])
         w == [window EXCEPT !.port[name] = Tail(@)]
     IN window' = CASE name = "apps" -> OnUpdateListener(w, m)
                    [] name = "crash" -> OnExecutableModuleDisposed(w)
  /\ UNCHANGED <<changes, clients, debug, os, disposed>>

\* Mutant: a lookup that has been overtaken is shown.
UpdateAppViewAlways(w, lookup, found) == [w EXCEPT !.apps = lookup.apps, !.named = found]

\* updateAppView: the names of a list that is not the last one are not shown.
\* If the lookup has failed the origins are shown instead.
UpdateAppView(w, lookup, found) ==
  IF lookup.number # w.last THEN w
  ELSE [w EXCEPT !.apps = lookup.apps, !.named = found]

LookupSettles(i, found) ==
  /\ window' = UpdateAppView([window EXCEPT !.lookups = RemoveAt(@, i)],
                             window.lookups[i], found)
  /\ UNCHANGED <<changes, clients, debug, os, disposed>>

Next ==
  \/ \E s \in Senders : ClientConnects(s)
  \/ \E o \in Origins : ClientDisconnects(o)
  \/ PlatformInfo \/ ModuleDisposed \/ OpenWindow \/ CloseWindow
  \/ \E name \in PortNames : OnMessagePortConnected(name) \/ WindowHears(name)
  \/ \E i \in DOMAIN window.lookups, found \in BOOLEAN : LookupSettles(i, found)

Spec == Init /\ [][Next]_vars

-----------------------------------------------------------------------------
Quiet(name) == name \in window.connected /\ window.port[name] = <<>>

\* Once everything that is on its way has arrived the open window shows the
\* connected applications, however their names' lookups have overtaken one
\* another, and the warning if and only if the module is gone.
AppsCurrent ==
  /\ Quiet("apps") /\ window.lookups = <<>> =>
       window.apps = {o \in Origins : clients[o] > 0}
  /\ Quiet("crash") => window.warning = disposed
  /\ window.open /\ ~window.asksPlatform => window.osWarning = (os # "cros")
=============================================================================
