---------------------------- MODULE MCApplication ----------------------------
(***************************************************************************)
(* The components of the two applications, for TLC: their own JavaScript,  *)
(* the permission checks, and the sockets inside the module.  They share   *)
(* no state, so a behaviour is one of one component: only its part moves,  *)
(* and the others stay where they start.                                   *)
(***************************************************************************)
EXTENDS Integers, Sequences

CONSTANTS
  MaxMessages,                                  \* ModuleLoading
  Requests, Contexts, Handles, Nothing,         \* ChromeApiProvider, CertificateBridge
  Pages, Capacity, MaxLogs,                     \* Logging
  Window, MaxTime, MaxReloads,                  \* CrashLoopDetection
  Objects, MaxItems,                            \* DebugDump
  MaxDialogs, WindowIds, NoWindowId,            \* Dialogs
  MaxChanges,                                   \* WindowDevices, WindowApps
  MaxSent,                                      \* MessageChannelPair
  SCardContexts, NoContext, Readers,            \* ExampleClients
  MaxTests,                                     \* ExampleWindow
  Connections, ClientOrigins, NullOrigin,       \* Permissions
  NoConnection, MaxPolicies,
  Sessions, MaxRequests, Nobody                 \* EmulatedSockets

VARIABLES
  part,
  outer, document, inner, toPage, toDocument, sent, received,
  request, server, opened,
  api, module, bridge, chromeRequest, call,
  emitted, ports, buffer, systemLog, seen, button, export,
  crash, storage, now, reloads,
  graph, logged,
  mode, lastUsedPopupId, dialog, windowIdMap,
  changes, attached, session, platform, hook, readers, listed, window,
  appChanges, clients, debug, os, disposed, appWindow,
  pair, items, ticks, itemSent, delivered,
  link, sample, app, valid,
  cppDebug, cppModule, service, tests, output, main,
  enabled, iframes, port, background,
  registry, prompter, check, prompt, selections, policies, allowedOnce,
  file, closing, thread, queue, shuttingDown, partsReceived

\* A card reader, one with a vendor's own interface, and something else.
Interface(class, extraData) == [class |-> class, extraData |-> extraData]
Devices ==
  {[name |-> "reader", interfaces |-> {Interface("smartCard", 0), Interface("other", 0)}],
   [name |-> "vendor", interfaces |-> {Interface("vendorSpecific", 54)}],
   [name |-> "mouse", interfaces |-> {Interface("vendorSpecific", 3), Interface("other", 0)}]}

\* Integers around the ends of the widths, and where adding 2^16 rounds.
SomeIntegers ==
  {-65536, -32776, -32768, -32760, -8194, -8192, -8191, -1000, -256} \cup (-140 .. -120)
    \cup {-9, -8, -7, -1, 0, 1, 7, 8, 15, 16, 127, 128, 255, 256, 8191, 65528, 65536}

\* An extension, a web page, and one whose URL cannot be parsed.
Sender(id, kind, host) ==
  [id |-> id, url |-> [kind |-> kind, origin |-> [scheme |-> "https", host |-> host]]]
Senders == {Sender("a", "page", "a"), Sender("", "page", "b"), Sender("", "malformed", "")}

Loading  == INSTANCE ModuleLoading
Provider == INSTANCE ChromeApiProvider
Bridge   == INSTANCE CertificateBridge WITH request <- chromeRequest
Logs     == INSTANCE Logging
Crashes  == INSTANCE CrashLoopDetection
\* Small widths, the last one wider than a number's significant bits: 4, 8, 16
\* and 13 for 8, 32, 64 and 53.
Dumps    == INSTANCE DebugDump WITH BIT_LENGTHS <- <<4, 8, 16>>, Significand <- 13, Numbers <- SomeIntegers
Popups   == INSTANCE Dialogs
DevicesShown == INSTANCE WindowDevices
AppsShown == INSTANCE WindowApps WITH changes <- appChanges, window <- appWindow
Pair     == INSTANCE MessageChannelPair WITH disposed <- items, sent <- itemSent
Samples  == INSTANCE ExampleClients
CppWindow == INSTANCE ExampleWindow WITH debug <- cppDebug, module <- cppModule
Keeping  == INSTANCE UnloadPreventing
Permitting == INSTANCE Permissions WITH dialog <- prompt, Origins <- ClientOrigins
Sockets  == INSTANCE EmulatedSockets WITH received <- partsReceived

ASSUME ComponentsAssumption ==
  /\ Provider!NothingAssumption /\ Logs!LoggingAssumption
  /\ Crashes!CrashAssumption /\ Popups!DialogsAssumption
  /\ DevicesShown!DevicesAssumption /\ AppsShown!AppsAssumption
  /\ Pair!PairAssumption /\ Samples!ClientsAssumption
  /\ CppWindow!WindowAssumption
  /\ Permitting!PermissionsAssumption /\ Sockets!SocketsAssumption
  /\ Dumps!NumbersAssumption

loadingVars == <<outer, document, inner, toPage, toDocument, sent, received>>
providerVars == <<request, server, opened>>
bridgeVars == <<api, module, bridge, chromeRequest, call>>
logsVars == <<emitted, ports, buffer, systemLog, seen, button, export>>
crashesVars == <<crash, storage, now, reloads>>
dumpsVars == <<graph, logged>>
popupsVars == <<mode, lastUsedPopupId, dialog, windowIdMap>>
devicesVars == <<changes, attached, session, platform, hook, readers, listed, window>>
appsVars == <<appChanges, clients, debug, os, disposed, appWindow>>
pairVars == <<pair, items, ticks, itemSent, delivered>>
samplesVars == <<link, sample, app, valid>>
cppVars == <<cppDebug, cppModule, service, tests, output, main>>
keepingVars == <<enabled, iframes, port, background>>
permissionsVars == <<registry, prompter, check, prompt, selections, policies, allowedOnce>>
socketsVars == <<file, closing, thread, queue, shuttingDown, partsReceived>>

vars == <<part, loadingVars, providerVars, bridgeVars, logsVars, crashesVars,
          dumpsVars, popupsVars, devicesVars, appsVars,
          pairVars, samplesVars, cppVars, keepingVars, permissionsVars, socketsVars>>

\* A part that does not move has one of its initial states.
Init ==
  /\ part \in {"loading", "provider", "bridge", "logs", "crashes", "dumps",
               "popups", "devices", "apps", "pair", "samples",
               "cpp", "keeping", "permissions", "sockets"}
  /\ Loading!Init /\ Provider!Init /\ Pair!Init /\ Samples!Init /\ Keeping!Init
  /\ Sockets!Init
  /\ Permitting!Init /\ (part # "permissions" => selections = [o \in ClientOrigins |-> "none"])
  /\ CppWindow!Init /\ (part # "cpp" => cppDebug)
  /\ Logs!Init /\ (part # "logs" => systemLog.available)
  /\ Bridge!Init /\ (part # "bridge" => api = "none")
  /\ Crashes!Init /\ (part # "crashes" => storage.works)
  /\ Popups!Init /\ (part # "popups" => mode = "app")
  /\ AppsShown!Init /\ (part # "apps" => debug /\ os = "cros")
  /\ DevicesShown!Init
  /\ part # "devices" => attached = {} /\ session = [profile |-> "none", state |-> "lock"]
  \* Bound: the platforms differ where the session does not matter.
  /\ \/ platform = [usb |-> "chrome.usb", mode |-> "app"]
     \/ part = "devices" /\ attached = {} /\ session = [profile |-> "none", state |-> "lock"]
  /\ Dumps!Init
  /\ part # "dumps" => \A o \in Objects : graph[o] = [type |-> "array", items |-> <<>>]

Next ==
  /\ UNCHANGED part
  /\ \/ part = "loading" /\ Loading!Next
     \/ part # "loading" /\ UNCHANGED loadingVars
  /\ \/ part = "provider" /\ Provider!Next
     \/ part # "provider" /\ UNCHANGED providerVars
  /\ \/ part = "bridge" /\ Bridge!Next
     \/ part # "bridge" /\ UNCHANGED bridgeVars
  /\ \/ part = "logs" /\ Logs!Next
     \/ part # "logs" /\ UNCHANGED logsVars
  /\ \/ part = "crashes" /\ Crashes!Next
     \/ part # "crashes" /\ UNCHANGED crashesVars
  /\ \/ part = "dumps" /\ Dumps!Next
     \/ part # "dumps" /\ UNCHANGED dumpsVars
  /\ \/ part = "popups" /\ Popups!Next
     \/ part # "popups" /\ UNCHANGED popupsVars
  /\ \/ part = "devices" /\ DevicesShown!Next
     \/ part # "devices" /\ UNCHANGED devicesVars
  /\ \/ part = "apps" /\ AppsShown!Next
     \/ part # "apps" /\ UNCHANGED appsVars
  /\ \/ part = "pair" /\ Pair!Next
     \/ part # "pair" /\ UNCHANGED pairVars
  /\ \/ part = "samples" /\ Samples!Next
     \/ part # "samples" /\ UNCHANGED samplesVars
  /\ \/ part = "cpp" /\ CppWindow!Next
     \/ part # "cpp" /\ UNCHANGED cppVars
  /\ \/ part = "keeping" /\ Keeping!Next
     \/ part # "keeping" /\ UNCHANGED keepingVars
  /\ \/ part = "permissions" /\ Permitting!Next
     \/ part # "permissions" /\ UNCHANGED permissionsVars
  /\ \/ part = "sockets" /\ Sockets!Next
     \/ part # "sockets" /\ UNCHANGED socketsVars

\* The components' own fairness, for the part that moves.
LoadingFairness ==
  /\ WF_loadingVars(part = "loading" /\ (Loading!DocumentOpens \/ Loading!DocumentRefused))
  /\ WF_loadingVars(part = "loading" /\ (Loading!DocumentCreated \/ Loading!StatusConnected))
  /\ WF_loadingVars(part = "loading" /\ Loading!PageHears)
  /\ WF_loadingVars(part = "loading" /\ (Loading!BinaryLoads \/ Loading!LoadFails))
  /\ WF_loadingVars(part = "loading" /\ document = "closed" /\ Loading!DocumentGoes)

ProviderFairness ==
  /\ WF_providerVars(part = "provider" /\ (Provider!ServerReady \/ Provider!ServerGone))
  /\ \A r \in Requests :
       /\ WF_providerVars(part = "provider" /\ Provider!Report(r))
       /\ WF_providerVars(part = "provider" /\ request[r].event \notin Provider!Blocking
                            /\ Provider!Fail(r, "invalidHandle"))

PermissionsFairness ==
  /\ WF_permissionsVars(part = "permissions" /\ Permitting!Loads)
  /\ \A o \in ClientOrigins : WF_permissionsVars(part = "permissions" /\ Permitting!PromptStep(o))

SocketsFairness ==
  /\ WF_socketsVars(part = "sockets" /\ Sockets!WaitAndPop)
  /\ WF_socketsVars(part = "sockets" /\ Sockets!FinishClosing)
  /\ \A e \in Sockets!Ends :
       /\ WF_socketsVars(part = "sockets" /\ Sockets!ThreadStep(e))
       /\ WF_socketsVars(part = "sockets" /\ shuttingDown /\ Sockets!CloseInMemoryFile(e))

Spec ==
  /\ Init /\ [][Next]_vars
  /\ LoadingFairness /\ ProviderFairness /\ PermissionsFairness /\ SocketsFairness

\* The properties of the components, and those of two that go together: every
\* event of the browser is answered, what is exported of the logs is what was
\* logged, the window shows what is there.
MessagesInOrder == Loading!MessagesInOrder /\ Pair!PairInOrder
LoadingEnds == part = "loading" => Loading!LoadingEnds
NoHandleLost == Provider!NoHandleLost /\ Samples!SamplesConnected /\ CppWindow!OutputShown
RequestsReported ==
  /\ []Bridge!CertificatesReported
  /\ part = "provider" => Provider!RequestsReported
  /\ part = "permissions" => Permitting!ChecksEnd
  /\ part = "sockets" => Sockets!RequestsEnd
SettledForReason == Permitting!SettledForReason
SocketsFaithful == Sockets!StreamsInOrder /\ Sockets!NoLostWakeup
DumpsFaithful == Dumps!DumpUnfolds
NoReloadLoop == Crashes!NoReloadLoop /\ Keeping!KeptLoaded
AnswerIsOwn == Popups!AnswerIsOwn
WindowCurrent ==
  DevicesShown!DevicesCurrent /\ AppsShown!AppsCurrent /\ Logs!ExportFaithful
=============================================================================
