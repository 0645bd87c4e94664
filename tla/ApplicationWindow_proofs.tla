----------------------- MODULE ApplicationWindow_proofs ------------------------
(***************************************************************************)
(* WindowCurrent, what the Connector's window shows and exports, as part   *)
(* of MCApplication.                                                       *)
(*                                                                         *)
(* Applications.  AppsInv: the list of clients is the last one in the      *)
(* window's port, or else that of the last lookup, whatever lookups are    *)
(* still under way; the crash is shown or in its port.                     *)
(*                                                                         *)
(* Logs.  LogsInv: the buffer keeps the first and the last of the records, *)
(* and says how many are between them; what a page has read of an export   *)
(* and what is still in its port make up what there was to be said.        *)
(*                                                                         *)
(* Devices.  DevicesInv: the hook of a locked session learns of it, the    *)
(* list is right for what the hook lets through, and it is in the window's *)
(* port or shown.  Every device has exactly one reader that is shown.      *)
(***************************************************************************)
EXTENDS ApplicationPages_proofs, FiniteSetTheorems

-----------------------------------------------------------------------------
\* The applications in the window.
\* What an element leaves of a sequence it is removed from: all the others.
LEMMA RemovedIs ==
  ASSUME NEW S, NEW s \in Seq(S), NEW i \in DOMAIN s
  PROVE  LET r == AppsShown!RemoveAt(s, i)
         IN /\ r \in Seq(S) /\ Len(r) = Len(s) - 1
            /\ \A k \in DOMAIN r : \E j \in DOMAIN s : j # i /\ r[k] = s[j]
            /\ \A j \in DOMAIN s : j # i => \E k \in DOMAIN r : r[k] = s[j]
<1> DEFINE n == Len(s)
           a == SubSeq(s, 1, i - 1)
           b == SubSeq(s, i + 1, n)
           r == AppsShown!RemoveAt(s, i)
<1>1. n \in Nat /\ i \in 1 .. n /\ DOMAIN s = 1 .. n
  OBVIOUS
<1>2. r = a \o b
  BY DEF AppsShown!RemoveAt
<1>3. /\ a \in Seq(S) /\ Len(a) = i - 1 /\ \A k \in 1 .. i - 1 : a[k] = s[k]
      /\ b \in Seq(S) /\ Len(b) = n - i /\ \A k \in 1 .. n - i : b[k] = s[i + k]
  <2>1. i - 1 \in 0 .. n /\ i + 1 \in 1 .. n + 1
    BY <1>1
  <2>2. \A k \in 1 .. i - 1 : k \in 1 .. n
    BY <1>1
  <2>3. \A k \in 1 .. n - i : i + k \in 1 .. n /\ i + 1 + k - 1 = i + k
    BY <1>1
  <2>4. /\ a \in Seq(S) /\ Len(a) = i - 1 /\ \A k \in 1 .. i - 1 : a[k] = s[k]
    BY <1>1, <2>1, <2>2
  <2>5. /\ b \in Seq(S) /\ Len(b) = n - i /\ \A k \in 1 .. n - i : b[k] = s[i + k]
    BY <1>1, <2>1, <2>3
  <2> QED BY <2>4, <2>5
<1> HIDE DEF a, b, r
<1>4. /\ r \in Seq(S) /\ Len(r) = n - 1
      /\ \A k \in 1 .. i - 1 : r[k] = a[k]
      /\ \A k \in i .. n - 1 : r[k] = b[k - (i - 1)]
  <2>1. /\ a \o b \in Seq(S) /\ Len(a \o b) = Len(a) + Len(b)
        /\ \A k \in 1 .. Len(a) + Len(b) : (a \o b)[k] = IF k <= Len(a) THEN a[k] ELSE b[k - Len(a)]
    <3>1. a \in Seq(S) /\ b \in Seq(S)
      BY <1>3
    <3> HIDE <1>1, <1>3
    <3> QED BY <3>1
  <2>2. Len(a) + Len(b) = n - 1 /\ Len(a) + 1 = i
    BY <1>1, <1>3
  <2>3. /\ \A k \in 1 .. i - 1 : k \in 1 .. Len(a) + Len(b) /\ k <= Len(a)
        /\ \A k \in i .. n - 1 : k \in 1 .. Len(a) + Len(b) /\ ~(k <= Len(a))
    BY <1>1, <1>3, <2>2
  <2> QED BY <1>2, <1>3, <2>1, <2>2, <2>3
<1>5. DOMAIN r = 1 .. n - 1
  BY <1>4
<1>6. ASSUME NEW k \in DOMAIN r PROVE \E j \in DOMAIN s : j # i /\ r[k] = s[j]
  <2>1. CASE k \in 1 .. i - 1
    <3>1. k \in DOMAIN s /\ k # i
      BY <1>1, <2>1
    <3> QED BY <1>3, <1>4, <2>1, <3>1
  <2>2. CASE k \in i .. n - 1
    <3>1. k + 1 \in DOMAIN s /\ k + 1 # i /\ k - (i - 1) \in 1 .. n - i /\ i + (k - (i - 1)) = k + 1
      BY <1>1, <2>2
    <3> QED BY <1>3, <1>4, <2>2, <3>1
  <2> QED BY <1>1, <1>5, <2>1, <2>2
<1>7. ASSUME NEW j \in DOMAIN s, j # i PROVE \E k \in DOMAIN r : r[k] = s[j]
  <2>1. CASE j < i
    <3>1. j \in 1 .. i - 1 /\ j \in DOMAIN r
      BY <1>1, <1>5, <2>1
    <3> QED BY <1>3, <1>4, <3>1
  <2>2. CASE i < j
    <3>1. /\ j - 1 \in DOMAIN r /\ j - 1 \in i .. n - 1 /\ (j - 1) - (i - 1) \in 1 .. n - i
          /\ i + ((j - 1) - (i - 1)) = j
      BY <1>1, <1>5, <2>2
    <3> QED BY <1>3, <1>4, <3>1
  <2> QED BY <1>1, <1>7, <2>1, <2>2
<1> QED BY <1>1, <1>4, <1>6, <1>7 DEF r

PortNames == {"apps", "crash"}
AppLists == (SUBSET AppsShown!Origins) \cup {"crashed"}
AppWindows ==
  [open : BOOLEAN, connected : SUBSET PortNames, port : [PortNames -> Seq(AppLists)],
   lookups : Seq([number : Nat, apps : AppLists]), last : Nat, apps : AppLists,
   named : BOOLEAN, warning : BOOLEAN, asksPlatform : BOOLEAN, osWarning : BOOLEAN,
   listening : BOOLEAN]

\* The window w shows the list of clients, or will: it is the last one in its
\* port, or else that of the last lookup.
ShowsOrWill(w, shown) ==
  /\ w.port["apps"] # <<>> => w.port["apps"][Len(w.port["apps"])] = shown
  /\ w.port["apps"] = <<>> =>
       /\ w.apps = shown \/ (\E i \in DOMAIN w.lookups : w.lookups[i].number = w.last)
       /\ \A i \in DOMAIN w.lookups : w.lookups[i].number = w.last => w.lookups[i].apps = shown

\* The crash is shown, or in its port.
CrashRight(w, gone) ==
  /\ w.warning \/ w.port["crash"] # <<>> => gone
  /\ "crash" \in w.connected /\ gone => w.warning \/ w.port["crash"] # <<>>

WindowRest(w) ==
  /\ \A name \in PortNames : name \notin w.connected => w.port[name] = <<>>
  /\ "apps" \in w.connected => w.listening
  /\ \A i \in DOMAIN w.lookups : w.lookups[i].number <= w.last
  /\ w.open /\ ~w.asksPlatform => w.osWarning = (os # "cros")
WindowRight(w, shown, gone) ==
  WindowRest(w) /\ CrashRight(w, gone) /\ ("apps" \in w.connected => ShowsOrWill(w, shown))
AppsInv ==
  /\ appWindow \in AppWindows /\ disposed \in BOOLEAN
  /\ WindowRight(appWindow, AppsShown!GetMessagingOrigins(clients), disposed)

\* A window of which nothing but one port changes.
PortOnly(w, v, name) ==
  /\ v \in AppWindows
  /\ v.open = w.open /\ v.connected = w.connected /\ v.lookups = w.lookups /\ v.last = w.last
  /\ v.apps = w.apps /\ v.named = w.named /\ v.warning = w.warning
  /\ v.asksPlatform = w.asksPlatform /\ v.osWarning = w.osWarning /\ v.listening = w.listening
  /\ \A n \in PortNames : n # name => v.port[n] = w.port[n]

LEMMA PortIs ==
  ASSUME NEW w \in AppWindows, NEW name \in PortNames, NEW q \in Seq(AppLists)
  PROVE  LET v == [w EXCEPT !.port[name] = q] IN PortOnly(w, v, name) /\ v.port[name] = q
<1> DEFINE p == [w.port EXCEPT ![name] = q]
           v == [w EXCEPT !.port = p]
<1>1. p \in [PortNames -> Seq(AppLists)] /\ p[name] = q /\ \A n \in PortNames : n # name => p[n] = w.port[n]
  BY DEF AppWindows
<1>2. [w EXCEPT !.port[name] = q] = v
  OBVIOUS
<1> HIDE DEF p
<1>3. v \in AppWindows
  BY <1>1 DEF AppWindows
<1>4. PortOnly(w, v, name) /\ v.port[name] = q
  BY <1>1, <1>3 DEF PortOnly, AppWindows
<1> HIDE DEF v
<1> QED BY <1>2, <1>4

LEMMA SendIs ==
  ASSUME NEW w \in AppWindows, NEW name \in PortNames, NEW m \in AppLists
  PROVE  /\ PortOnly(w, AppsShown!Send(w, name, m), name)
         /\ name \in w.connected => AppsShown!Send(w, name, m).port[name] = Append(w.port[name], m)
         /\ name \notin w.connected => AppsShown!Send(w, name, m) = w
<1> DEFINE q == Append(w.port[name], m)
           v == [w EXCEPT !.port[name] = q]
<1>1. w.port[name] \in Seq(AppLists) /\ q \in Seq(AppLists)
  BY DEF AppWindows
<1>2. AppsShown!Send(w, name, m) = IF name \in w.connected THEN v ELSE w
  BY DEF AppsShown!Send
<1> HIDE DEF q
<1>3. PortOnly(w, v, name) /\ v.port[name] = q
  BY <1>1, PortIs
<1>4. PortOnly(w, w, name)
  BY DEF PortOnly
<1> HIDE DEF v
<1> QED BY <1>2, <1>3, <1>4 DEF q

LEMMA ListIs ==
  ASSUME NEW pool
  PROVE  AppsShown!GetMessagingOrigins(pool) \in AppLists
<1> DEFINE shown == AppsShown!GetMessagingOrigins(pool)
<1>1. shown \subseteq AppsShown!Origins
  BY DEF AppsShown!GetMessagingOrigins
<1> HIDE DEF shown
<1>2. shown \in AppLists
  BY <1>1 DEF AppLists
<1> QED BY <1>2 DEF shown

\* Whatever the list has been, the listener makes the window right for the new.
LEMMA FireIs ==
  ASSUME NEW w \in AppWindows, NEW gone, WindowRest(w), CrashRight(w, gone), NEW pool
  PROVE  LET v == AppsShown!FireOnUpdate(w, pool)
         IN v \in AppWindows /\ WindowRight(v, AppsShown!GetMessagingOrigins(pool), gone)
<1> DEFINE shown == AppsShown!GetMessagingOrigins(pool)
           v == AppsShown!FireOnUpdate(w, pool)
<1>1. shown \in AppLists /\ "apps" \in PortNames /\ "crash" \in PortNames
  BY ListIs DEF PortNames
<1>2. v = IF w.listening THEN AppsShown!Send(w, "apps", shown) ELSE w
  BY DEF AppsShown!FireOnUpdate
<1> HIDE DEF shown, v
<1>3. PortOnly(w, v, "apps") /\ ("apps" \notin w.connected => v = w)
  <2>1. PortOnly(w, w, "apps")
    BY DEF PortOnly
  <2> QED BY <1>1, <1>2, <2>1, SendIs
<1>4. ASSUME "apps" \in w.connected PROVE v.port["apps"] = Append(w.port["apps"], shown)
  <2>1. w.listening
    BY <1>4 DEF WindowRest
  <2> QED BY <1>1, <1>2, <1>4, <2>1, SendIs
<1>5. ASSUME "apps" \in w.connected PROVE ShowsOrWill(v, shown)
  <2>1. w.port["apps"] \in Seq(AppLists)
    BY <1>1 DEF AppWindows
  <2> DEFINE q == w.port["apps"]
  <2> HIDE DEF q
  <2>2. Append(q, shown) # <<>> /\ Append(q, shown)[Len(Append(q, shown))] = shown
    BY <1>1, <2>1 DEF q
  <2> QED BY <1>4, <1>5, <2>2 DEF ShowsOrWill, q
<1>6. v.port["crash"] = w.port["crash"]
  BY <1>1, <1>3 DEF PortOnly
<1>7. \A name \in PortNames : name \notin v.connected => v.port[name] = <<>>
  BY <1>3, <1>6 DEF PortOnly, WindowRest, PortNames
<1>8. WindowRest(v) /\ CrashRight(v, gone)
  BY <1>3, <1>6, <1>7 DEF WindowRest, CrashRight, PortOnly
<1>9. WindowRight(v, shown, gone)
  BY <1>3, <1>5, <1>8 DEF WindowRight, PortOnly
<1> QED BY <1>3, <1>9 DEF PortOnly, shown, v

\* The crash is sent.
LEMMA CrashIs ==
  ASSUME NEW w \in AppWindows, NEW shown, WindowRest(w),
         "apps" \in w.connected => ShowsOrWill(w, shown)
  PROVE  LET v == AppsShown!Send(w, "crash", "crashed")
         IN v \in AppWindows /\ WindowRight(v, shown, TRUE)
<1> DEFINE v == AppsShown!Send(w, "crash", "crashed")
<1>1. "crashed" \in AppLists /\ "apps" \in PortNames /\ "crash" \in PortNames
  BY DEF AppLists, PortNames
<1>2. /\ PortOnly(w, v, "crash") /\ ("crash" \notin w.connected => v = w)
      /\ "crash" \in w.connected => v.port["crash"] = Append(w.port["crash"], "crashed")
  BY <1>1, SendIs
<1> HIDE DEF v
<1>3. "crash" \in w.connected => v.port["crash"] # <<>>
  <2> DEFINE q == w.port["crash"]
             m == "crashed"
  <2>1. q \in Seq(AppLists) /\ m \in AppLists
    BY <1>1 DEF AppWindows
  <2> HIDE DEF q, m
  <2>2. Append(q, m) # <<>>
    BY <2>1
  <2> QED BY <1>2, <2>2 DEF q, m
<1>4. v.port["apps"] = w.port["apps"]
  BY <1>1, <1>2 DEF PortOnly
<1>5. ShowsOrWill(w, shown) => ShowsOrWill(v, shown)
  BY <1>2, <1>4 DEF ShowsOrWill, PortOnly
<1>6. \A name \in PortNames : name \notin v.connected => v.port[name] = <<>>
  BY <1>2, <1>4 DEF PortOnly, WindowRest, PortNames
<1>7. WindowRest(v) /\ CrashRight(v, TRUE)
  BY <1>2, <1>3, <1>6 DEF WindowRest, CrashRight, PortOnly
<1>8. WindowRight(v, shown, TRUE)
  BY <1>2, <1>5, <1>7 DEF WindowRight, PortOnly
<1> QED BY <1>2, <1>8 DEF v, PortOnly

-----------------------------------------------------------------------------
LEMMA ClosedIs ==
  ASSUME NEW shown, NEW gone
  PROVE  AppsShown!ClosedWindow \in AppWindows /\ WindowRight(AppsShown!ClosedWindow, shown, gone)
<1>1. AppsShown!ClosedWindow \in AppWindows
  <2>1. {} \in AppLists
    BY DEF AppLists
  <2> QED BY <2>1 DEF AppWindows, AppsShown!ClosedWindow, AppsShown!PortNames, PortNames
<1>2. /\ "apps" \notin AppsShown!ClosedWindow.connected
      /\ "crash" \notin AppsShown!ClosedWindow.connected
      /\ \A name \in PortNames : AppsShown!ClosedWindow.port[name] = <<>>
      /\ AppsShown!ClosedWindow.lookups = <<>>
      /\ ~AppsShown!ClosedWindow.warning /\ ~AppsShown!ClosedWindow.open
  BY DEF AppsShown!ClosedWindow, AppsShown!PortNames, PortNames
<1>3. "crash" \in PortNames /\ DOMAIN <<>> = {}
  BY DEF PortNames
<1> QED BY <1>1, <1>2, <1>3 DEF WindowRight, WindowRest, CrashRight

\* A step that leaves the platform alone.
LEMMA AppsMove ==
  ASSUME NEW v, v \in AppWindows, appWindow' = v, UNCHANGED os, disposed' \in BOOLEAN,
         WindowRight(v, AppsShown!GetMessagingOrigins(clients'), disposed')
  PROVE  AppsInv'
<1>1. appWindow' \in AppWindows
  OBVIOUS
<1>2. WindowRight(v, AppsShown!GetMessagingOrigins(clients'), disposed')
        = WindowRight(appWindow, AppsShown!GetMessagingOrigins(clients), disposed)'
  BY DEF WindowRight, WindowRest, CrashRight, ShowsOrWill, AppsShown!GetMessagingOrigins
<1> QED BY <1>1, <1>2 DEF AppsInv

LEMMA AppsStart == AppsShown!Init => AppsInv
BY ClosedIs DEF AppsShown!Init, AppsInv

LEMMA ClientComes ==
  ASSUME AppsInv, NEW s \in Senders, AppsShown!ClientConnects(s)
  PROVE  AppsInv'
<1> DEFINE o == AppsShown!GetFromChromeMessageSender(s)
           more == [clients EXCEPT ![o] = @ + 1]
           w == AppsShown!FireOnUpdate(appWindow, more)
<1>1. /\ appWindow \in AppWindows /\ disposed \in BOOLEAN
      /\ WindowRest(appWindow) /\ CrashRight(appWindow, disposed)
      /\ WindowRight(appWindow, AppsShown!GetMessagingOrigins(clients), disposed)
  BY DEF AppsInv, WindowRight
<1>2. /\ UNCHANGED <<os, disposed>>
      /\ \/ UNCHANGED <<clients, appWindow>>
         \/ disposed /\ appWindow' = AppsShown!FireOnUpdate(w, clients) /\ clients' = clients
         \/ appWindow' = w /\ clients' = more
  BY DEF AppsShown!ClientConnects, AppsShown!CreateClientHandler
<1> HIDE DEF more
<1>3. w \in AppWindows /\ WindowRight(w, AppsShown!GetMessagingOrigins(more), disposed)
  BY <1>1, FireIs
<1> HIDE DEF w
<1>4. CASE UNCHANGED <<clients, appWindow>>
  BY <1>1, <1>2, <1>4, AppsMove
<1>5. CASE disposed /\ appWindow' = AppsShown!FireOnUpdate(w, clients) /\ clients' = clients
  <2>1. WindowRest(w) /\ CrashRight(w, disposed)
    BY <1>3 DEF WindowRight
  <2> DEFINE v == AppsShown!FireOnUpdate(w, clients)
  <2>2. v \in AppWindows /\ WindowRight(v, AppsShown!GetMessagingOrigins(clients), disposed)
    BY <1>3, <2>1, FireIs
  <2> HIDE DEF v
  <2>3. appWindow' = v
    BY <1>5 DEF v
  <2> QED BY <1>1, <1>2, <1>5, <2>2, <2>3, AppsMove
<1>6. CASE appWindow' = w /\ clients' = more
  BY <1>1, <1>2, <1>3, <1>6, AppsMove
<1> QED BY <1>2, <1>4, <1>5, <1>6

LEMMA ClientGoes ==
  ASSUME AppsInv, NEW o \in AppsShown!Origins, AppsShown!ClientDisconnects(o)
  PROVE  AppsInv'
<1> DEFINE v == AppsShown!FireOnUpdate(appWindow, clients')
<1>1. /\ appWindow \in AppWindows /\ disposed \in BOOLEAN
      /\ WindowRest(appWindow) /\ CrashRight(appWindow, disposed)
  BY DEF AppsInv, WindowRight
<1>2. UNCHANGED <<os, disposed>> /\ appWindow' = v
  BY DEF AppsShown!ClientDisconnects
<1>3. v \in AppWindows /\ WindowRight(v, AppsShown!GetMessagingOrigins(clients'), disposed)
  <2> DEFINE pool == clients'
  <2> HIDE DEF pool
  <2>1. AppsShown!FireOnUpdate(appWindow, pool) \in AppWindows
        /\ WindowRight(AppsShown!FireOnUpdate(appWindow, pool),
                       AppsShown!GetMessagingOrigins(pool), disposed)
    BY <1>1, FireIs
  <2> QED BY <2>1 DEF pool
<1> HIDE DEF v
<1> QED BY <1>1, <1>2, <1>3, AppsMove

LEMMA ModuleGoes ==
  ASSUME AppsInv, AppsShown!ModuleDisposed
  PROVE  AppsInv'
<1>1. /\ appWindow \in AppWindows /\ disposed \in BOOLEAN
      /\ WindowRest(appWindow) /\ CrashRight(appWindow, disposed)
  BY DEF AppsInv, WindowRight
<1>2. CASE debug
  <2> DEFINE pool == clients'
             w == AppsShown!FireOnUpdate(appWindow, pool)
             v == AppsShown!Send(w, "crash", "crashed")
  <2>1. UNCHANGED os /\ disposed' = TRUE /\ appWindow' = v
    BY <1>2 DEF AppsShown!ModuleDisposed
  <2> HIDE DEF pool
  <2>2. w \in AppWindows /\ WindowRight(w, AppsShown!GetMessagingOrigins(pool), disposed)
    BY <1>1, FireIs
  <2> HIDE DEF w
  <2>3. /\ WindowRest(w)
        /\ "apps" \in w.connected => ShowsOrWill(w, AppsShown!GetMessagingOrigins(pool))
    BY <2>2 DEF WindowRight
  <2>4. v \in AppWindows /\ WindowRight(v, AppsShown!GetMessagingOrigins(pool), TRUE)
    BY <2>2, <2>3, CrashIs
  <2> HIDE DEF v
  <2> QED BY <2>1, <2>4, AppsMove DEF pool
<1>3. CASE ~debug
  <2>1. UNCHANGED <<os, disposed>> /\ appWindow' = AppsShown!ClosedWindow
    BY <1>3 DEF AppsShown!ModuleDisposed
  <2>2. /\ AppsShown!ClosedWindow \in AppWindows
        /\ WindowRight(AppsShown!ClosedWindow, AppsShown!GetMessagingOrigins(clients'), disposed')
    BY ClosedIs
  <2> DEFINE v == AppsShown!ClosedWindow
  <2> HIDE DEF v
  <2> QED BY <1>1, <2>1, <2>2, AppsMove DEF v
<1> QED BY <1>2, <1>3

LEMMA WindowOpensAndCloses ==
  ASSUME AppsInv, AppsShown!OpenWindow \/ AppsShown!CloseWindow
  PROVE  AppsInv'
<1> DEFINE closed == AppsShown!ClosedWindow
<1>1. closed \in AppWindows /\ WindowRight(closed, AppsShown!GetMessagingOrigins(clients), disposed)
  BY ClosedIs
<1>2. /\ closed.connected = {} /\ closed.lookups = <<>> /\ ~closed.warning /\ ~closed.open
      /\ \A name \in PortNames : closed.port[name] = <<>>
  BY DEF AppsShown!ClosedWindow, AppsShown!PortNames, PortNames
<1>3. UNCHANGED <<clients, os, disposed>> /\ disposed \in BOOLEAN
  BY DEF AppsShown!OpenWindow, AppsShown!CloseWindow, AppsInv
<1>4. "crash" \in PortNames /\ DOMAIN <<>> = {}
  BY DEF PortNames
<1>5. CASE AppsShown!OpenWindow
  <2> DEFINE v == [closed EXCEPT !.open = TRUE, !.asksPlatform = TRUE]
  <2>1. appWindow' = v
    BY <1>5 DEF AppsShown!OpenWindow, AppsShown!InitializeStatus, AppsShown!InitializeApps,
                AppsShown!DisplayNonChromeOsWarningIfNeeded, AppsShown!ClosedWindow
  <2> HIDE DEF closed
  <2>2. /\ v \in AppWindows /\ v.connected = closed.connected /\ v.port = closed.port
        /\ v.lookups = closed.lookups /\ v.warning = closed.warning /\ v.asksPlatform
    BY <1>1 DEF AppWindows
  <2> HIDE DEF v
  <2>3. WindowRight(v, AppsShown!GetMessagingOrigins(clients), disposed)
    BY <1>2, <1>4, <2>2 DEF WindowRight, WindowRest, CrashRight
  <2> QED BY <1>3, <2>1, <2>2, <2>3, AppsMove
<1>6. CASE AppsShown!CloseWindow
  <2>1. appWindow' = closed
    BY <1>6 DEF AppsShown!CloseWindow, AppsShown!RemoveOnUpdateListener, AppsShown!ClosedWindow
  <2> HIDE DEF closed
  <2> QED BY <1>1, <1>3, <2>1, AppsMove
<1> QED BY <1>5, <1>6

LEMMA PortConnects ==
  ASSUME AppsInv, NEW name \in PortNames, AppsShown!OnMessagePortConnected(name)
  PROVE  AppsInv'
<1> DEFINE w == [appWindow EXCEPT !.connected = @ \cup {name}]
           u == [w EXCEPT !.listening = TRUE]
           shown == AppsShown!GetMessagingOrigins(clients)
<1>1. /\ appWindow \in AppWindows /\ disposed \in BOOLEAN
      /\ WindowRest(appWindow) /\ CrashRight(appWindow, disposed)
      /\ "apps" \in appWindow.connected => ShowsOrWill(appWindow, shown)
  BY DEF AppsInv, WindowRight
<1>2. UNCHANGED <<clients, os, disposed>> /\ name \notin appWindow.connected
  BY DEF AppsShown!OnMessagePortConnected
<1>3. /\ w \in AppWindows /\ w.connected = appWindow.connected \cup {name} /\ w.port = appWindow.port
      /\ w.lookups = appWindow.lookups /\ w.last = appWindow.last /\ w.apps = appWindow.apps
      /\ w.warning = appWindow.warning /\ w.open = appWindow.open
      /\ w.asksPlatform = appWindow.asksPlatform /\ w.osWarning = appWindow.osWarning
      /\ w.listening = appWindow.listening
  BY <1>1 DEF AppWindows
<1>4. "apps" \in PortNames /\ "crash" \in PortNames
  BY DEF PortNames
<1>5. CASE name = "apps"
  <2> DEFINE v == AppsShown!FireOnUpdate(u, clients)
  <2>1. appWindow' = v
    BY <1>5 DEF AppsShown!OnMessagePortConnected, AppsShown!SetUpSendingAppList,
                AppsShown!AddOnUpdateListener
  <2> HIDE DEF w
  <2>2. /\ u \in AppWindows /\ u.connected = w.connected /\ u.port = w.port /\ u.lookups = w.lookups
        /\ u.last = w.last /\ u.warning = w.warning /\ u.open = w.open /\ u.listening
        /\ u.asksPlatform = w.asksPlatform /\ u.osWarning = w.osWarning
    BY <1>3 DEF AppWindows
  <2> HIDE DEF u
  <2>3. WindowRest(u)
    BY <1>1, <1>2, <1>3, <1>5, <2>2 DEF WindowRest
  <2>4. CrashRight(u, disposed)
    BY <1>1, <1>3, <1>5, <2>2 DEF CrashRight
  <2>5. v \in AppWindows /\ WindowRight(v, shown, disposed)
    BY <2>2, <2>3, <2>4, FireIs
  <2> HIDE DEF v
  <2> QED BY <1>1, <1>2, <2>1, <2>5, AppsMove
<1>6. CASE name = "crash"
  <2>1. appWindow' = IF disposed THEN AppsShown!Send(w, "crash", "crashed") ELSE w
    BY <1>6 DEF AppsShown!OnMessagePortConnected, AppsShown!SetUpSendingCrashEvent
  <2> HIDE DEF w
  <2>2. WindowRest(w)
    BY <1>1, <1>3, <1>6 DEF WindowRest
  <2>3. "apps" \in w.connected => ShowsOrWill(w, shown)
    BY <1>1, <1>3, <1>6 DEF ShowsOrWill
  <2>4. CASE disposed
    <3> DEFINE v == AppsShown!Send(w, "crash", "crashed")
    <3>1. v \in AppWindows /\ WindowRight(v, shown, TRUE) /\ disposed = TRUE
      <4> HIDE DEF shown
      <4> QED BY <1>1, <1>3, <2>2, <2>3, <2>4, CrashIs
    <3>2. appWindow' = v
      BY <2>1, <2>4
    <3> HIDE DEF v
    <3> QED BY <1>2, <3>1, <3>2, AppsMove
  <2>5. CASE ~disposed
    <3>1. WindowRight(w, shown, disposed)
      BY <1>1, <1>3, <2>2, <2>3, <2>5 DEF WindowRight, CrashRight
    <3> QED BY <1>1, <1>2, <1>3, <2>1, <2>5, <3>1, AppsMove
  <2> QED BY <2>4, <2>5
<1> QED BY <1>5, <1>6 DEF PortNames

LEMMA PlatformIsTold ==
  ASSUME AppsInv, AppsShown!PlatformInfo
  PROVE  AppsInv'
<1> DEFINE warns == os # "cros"
           v == [appWindow EXCEPT !.asksPlatform = FALSE, !.osWarning = warns]
           shown == AppsShown!GetMessagingOrigins(clients)
<1>1. appWindow \in AppWindows /\ disposed \in BOOLEAN /\ WindowRight(appWindow, shown, disposed)
  BY DEF AppsInv
<1>2. UNCHANGED <<clients, os, disposed>> /\ appWindow' = v
  BY DEF AppsShown!PlatformInfo
<1>3. warns \in BOOLEAN /\ warns = (os # "cros")
  OBVIOUS
<1> HIDE DEF warns
<1>4. /\ v \in AppWindows /\ v.connected = appWindow.connected /\ v.port = appWindow.port
      /\ v.lookups = appWindow.lookups /\ v.last = appWindow.last /\ v.apps = appWindow.apps
      /\ v.warning = appWindow.warning /\ v.listening = appWindow.listening /\ v.osWarning = warns
  BY <1>1, <1>3 DEF AppWindows
<1> HIDE DEF v
<1>5. WindowRest(v)
  BY <1>1, <1>3, <1>4 DEF WindowRest, WindowRight
<1>6. WindowRight(v, shown, disposed)
  BY <1>1, <1>4, <1>5 DEF CrashRight, ShowsOrWill, WindowRight
<1> QED BY <1>1, <1>2, <1>4, <1>6, AppsMove

\* The window gets a list and looks its names up, or gets the crash.
LEMMA WindowGets ==
  ASSUME AppsInv, NEW name \in PortNames, AppsShown!WindowHears(name)
  PROVE  AppsInv'
<1> DEFINE q == appWindow.port[name]
           t == Tail(q)
           m == Head(q)
           w == [appWindow EXCEPT !.port[name] = t]
           shown == AppsShown!GetMessagingOrigins(clients)
<1>1. /\ appWindow \in AppWindows /\ disposed \in BOOLEAN
      /\ WindowRest(appWindow) /\ CrashRight(appWindow, disposed)
      /\ "apps" \in appWindow.connected => ShowsOrWill(appWindow, shown)
  BY DEF AppsInv, WindowRight
<1>2. UNCHANGED <<clients, os, disposed>> /\ q # <<>>
  BY DEF AppsShown!WindowHears
<1>3. q \in Seq(AppLists)
  BY <1>1 DEF AppWindows
<1>4. /\ m \in AppLists /\ t \in Seq(AppLists) /\ Len(q) \in Nat \ {0}
      /\ (t = <<>> => Len(q) = 1 /\ m = q[Len(q)])
      /\ (t # <<>> => t[Len(t)] = q[Len(q)])
  <2> HIDE DEF q
  <2>1. m \in AppLists /\ t \in Seq(AppLists) /\ Len(t) = Len(q) - 1 /\ Len(q) \in Nat \ {0} /\ m = q[1]
        /\ \A k \in 1 .. Len(t) : t[k] = q[k + 1]
    BY <1>2, <1>3
  <2> HIDE DEF t, m
  <2>2. t = <<>> => Len(q) = 1
    BY <2>1
  <2>3. t # <<>> => t[Len(t)] = q[Len(q)]
    <3>1. t # <<>> => Len(t) \in 1 .. Len(t) /\ Len(t) + 1 = Len(q)
      BY <2>1
    <3> QED BY <2>1, <3>1
  <2> QED BY <2>1, <2>2, <2>3
<1>5. "apps" \in PortNames /\ "crash" \in PortNames /\ name \in appWindow.connected
  BY <1>1, <1>2 DEF PortNames, WindowRest
<1>6. name = "apps" => appWindow' = AppsShown!OnUpdateListener(w, m)
  BY DEF AppsShown!WindowHears
<1>7. name = "crash" => appWindow' = AppsShown!OnExecutableModuleDisposed(w)
  BY DEF AppsShown!WindowHears
<1> HIDE DEF t, m
<1>8. PortOnly(appWindow, w, name) /\ w.port[name] = t
  BY <1>1, <1>4, PortIs
<1> HIDE DEF w
<1>9. CASE name = "apps"
  <2> DEFINE l == [number |-> w.last + 1, apps |-> m]
             ls == Append(w.lookups, l)
             n == w.last + 1
             v == [w EXCEPT !.lookups = ls, !.last = n]
  <2>1. appWindow' = v
    BY <1>6, <1>9, <1>8 DEF AppsShown!OnUpdateListener, PortOnly, AppWindows
  <2>2. n \in Nat /\ w.last \in Nat /\ l \in [number : Nat, apps : AppLists] /\ l.number = n /\ l.apps = m
        /\ w.lookups \in Seq([number : Nat, apps : AppLists])
    BY <1>4, <1>8 DEF PortOnly, AppWindows
  <2> HIDE DEF l
  <2>3. /\ ls \in Seq([number : Nat, apps : AppLists]) /\ DOMAIN ls = 1 .. Len(w.lookups) + 1
        /\ DOMAIN w.lookups = 1 .. Len(w.lookups) /\ Len(w.lookups) \in Nat
        /\ ls[Len(w.lookups) + 1] = l /\ \A k \in 1 .. Len(w.lookups) : ls[k] = w.lookups[k]
    <3> DEFINE S == [number : Nat, apps : AppLists]
               x == w.lookups
    <3>1. x \in Seq(S) /\ l \in S
      BY <2>2
    <3> HIDE DEF S, x
    <3>2. /\ Append(x, l) \in Seq(S) /\ DOMAIN Append(x, l) = 1 .. Len(x) + 1
          /\ DOMAIN x = 1 .. Len(x) /\ Len(x) \in Nat
          /\ Append(x, l)[Len(x) + 1] = l /\ \A k \in 1 .. Len(x) : Append(x, l)[k] = x[k]
      BY <3>1
    <3> QED BY <3>2 DEF S, x
  <2> HIDE DEF ls, n
  <2>4. /\ v \in AppWindows /\ v.lookups = ls /\ v.last = n /\ v.connected = w.connected /\ v.port = w.port
        /\ v.apps = w.apps /\ v.warning = w.warning /\ v.listening = w.listening /\ v.open = w.open
        /\ v.asksPlatform = w.asksPlatform /\ v.osWarning = w.osWarning
    BY <1>8, <2>2, <2>3 DEF PortOnly, AppWindows
  <2> HIDE DEF v
  <2>5. \A i \in DOMAIN ls : ls[i].number <= n /\ (ls[i].number = n => i = Len(w.lookups) + 1)
    <3> SUFFICES ASSUME NEW i \in DOMAIN ls
                 PROVE  ls[i].number <= n /\ (ls[i].number = n => i = Len(w.lookups) + 1)
      OBVIOUS
    <3>1. CASE i = Len(w.lookups) + 1
      BY <2>2, <2>3, <3>1
    <3>2. CASE i # Len(w.lookups) + 1
      <4>1. i \in DOMAIN w.lookups /\ ls[i] = w.lookups[i]
        BY <2>3, <3>2
      <4>2. w.lookups[i].number <= w.last
        BY <1>1, <1>8, <4>1 DEF WindowRest, PortOnly
      <4>3. w.lookups[i] \in [number : Nat, apps : AppLists]
        <5> DEFINE S == [number : Nat, apps : AppLists]
                   x == w.lookups
        <5>1. x \in Seq(S) /\ i \in DOMAIN x
          BY <2>2, <4>1
        <5> HIDE DEF S, x
        <5>2. x[i] \in S
          BY <5>1
        <5> QED BY <5>2 DEF S, x
      <4>4. w.lookups[i].number \in Nat /\ n = w.last + 1
        BY <4>3 DEF n
      <4> HIDE DEF n
      <4> QED BY <2>2, <4>1, <4>2, <4>4
    <3> QED BY <3>1, <3>2
  <2>6. WindowRest(v)
    <3>1. \A p \in PortNames : p \notin v.connected => v.port[p] = <<>>
      BY <1>1, <1>5, <1>8, <2>4 DEF WindowRest, PortOnly
    <3> QED BY <1>1, <1>8, <2>4, <2>5, <3>1 DEF WindowRest, PortOnly
  <2>7. CrashRight(v, disposed)
    BY <1>1, <1>5, <1>8, <1>9, <2>4 DEF CrashRight, PortOnly
  <2>8. ShowsOrWill(v, shown)
    <3>1. q = appWindow.port["apps"] /\ v.port["apps"] = t
      BY <1>8, <1>9, <2>4
    <3>2. q[Len(q)] = shown
      BY <1>1, <1>2, <1>5, <1>9, <3>1 DEF ShowsOrWill
    <3> HIDE DEF q, shown
    <3>3. CASE t # <<>>
      BY <1>4, <3>1, <3>2, <3>3 DEF ShowsOrWill
    <3>4. CASE t = <<>>
      <4>1. m = shown
        BY <1>4, <3>2, <3>4
      <4>2. Len(w.lookups) + 1 \in DOMAIN ls
        BY <2>3
      <4>3. \E i \in DOMAIN v.lookups : v.lookups[i].number = v.last
        BY <2>2, <2>3, <2>4, <4>2
      <4>4. \A i \in DOMAIN v.lookups : v.lookups[i].number = v.last => v.lookups[i].apps = shown
        BY <2>2, <2>3, <2>4, <2>5, <4>1
      <4> QED BY <3>1, <3>4, <4>3, <4>4 DEF ShowsOrWill
    <3> QED BY <3>3, <3>4
  <2>9. WindowRight(v, shown, disposed)
    BY <2>6, <2>7, <2>8 DEF WindowRight
  <2> QED BY <1>1, <1>2, <2>1, <2>4, <2>9, AppsMove
<1>10. CASE name = "crash"
  <2> DEFINE v == [w EXCEPT !.warning = TRUE]
  <2>1. appWindow' = v
    BY <1>7, <1>10 DEF AppsShown!OnExecutableModuleDisposed
  <2>2. /\ v \in AppWindows /\ v.warning /\ v.lookups = w.lookups /\ v.last = w.last
        /\ v.connected = w.connected /\ v.port = w.port
        /\ v.apps = w.apps /\ v.listening = w.listening /\ v.open = w.open
        /\ v.asksPlatform = w.asksPlatform /\ v.osWarning = w.osWarning
    BY <1>8 DEF PortOnly, AppWindows
  <2> HIDE DEF v
  <2>3. WindowRest(v)
    <3>1. \A p \in PortNames : p \notin v.connected => v.port[p] = <<>>
      BY <1>1, <1>5, <1>8, <2>2 DEF WindowRest, PortOnly
    <3> QED BY <1>1, <1>8, <2>2, <3>1 DEF WindowRest, PortOnly
  <2>4. disposed
    BY <1>1, <1>2, <1>10 DEF CrashRight
  <2>5. CrashRight(v, disposed)
    BY <2>2, <2>4 DEF CrashRight
  <2>6. "apps" \in v.connected => ShowsOrWill(v, shown)
    BY <1>1, <1>5, <1>8, <1>10, <2>2 DEF ShowsOrWill, PortOnly
  <2>7. WindowRight(v, shown, disposed)
    BY <2>3, <2>5, <2>6 DEF WindowRight
  <2> QED BY <1>1, <1>2, <2>1, <2>2, <2>7, AppsMove
<1> QED BY <1>9, <1>10 DEF PortNames

\* A lookup of names is over, in any order.
LEMMA NamesArrive ==
  ASSUME AppsInv, NEW i \in DOMAIN appWindow.lookups, NEW found \in BOOLEAN,
         AppsShown!LookupSettles(i, found)
  PROVE  AppsInv'
<1> DEFINE s == appWindow.lookups
           r == AppsShown!RemoveAt(s, i)
           w == [appWindow EXCEPT !.lookups = r]
           l == s[i]
           a == l.apps
           u == [w EXCEPT !.apps = a, !.named = found]
           v == IF l.number # w.last THEN w ELSE u
           shown == AppsShown!GetMessagingOrigins(clients)
           S == [number : Nat, apps : AppLists]
<1>1. /\ appWindow \in AppWindows /\ disposed \in BOOLEAN
      /\ WindowRest(appWindow) /\ CrashRight(appWindow, disposed)
      /\ "apps" \in appWindow.connected => ShowsOrWill(appWindow, shown)
  BY DEF AppsInv, WindowRight
<1>2. UNCHANGED <<clients, os, disposed>>
  BY DEF AppsShown!LookupSettles
<1>3. appWindow' = v
  BY DEF AppsShown!LookupSettles, AppsShown!UpdateAppView
<1>4. s \in Seq(S) /\ i \in DOMAIN s
  BY <1>1 DEF AppWindows
<1> HIDE DEF S
<1>5. /\ r \in Seq(S)
      /\ \A k \in DOMAIN r : \E j \in DOMAIN s : j # i /\ r[k] = s[j]
      /\ \A j \in DOMAIN s : j # i => \E k \in DOMAIN r : r[k] = s[j]
  <2> HIDE DEF s
  <2> QED BY <1>4, RemovedIs
<1>6. l \in S
  BY <1>4
<1>7. a \in AppLists
  <2> HIDE DEF l
  <2> QED BY <1>6 DEF S
<1> HIDE DEF r, l, a
<1>8. /\ w \in AppWindows /\ w.lookups = r /\ w.last = appWindow.last /\ w.apps = appWindow.apps
      /\ w.warning = appWindow.warning /\ w.connected = appWindow.connected /\ w.port = appWindow.port
      /\ w.listening = appWindow.listening /\ w.open = appWindow.open
      /\ w.asksPlatform = appWindow.asksPlatform /\ w.osWarning = appWindow.osWarning
  BY <1>1, <1>5 DEF AppWindows, S
<1> HIDE DEF w
<1>9. /\ u \in AppWindows /\ u.lookups = w.lookups /\ u.last = w.last /\ u.apps = a
      /\ u.warning = w.warning /\ u.connected = w.connected /\ u.port = w.port
      /\ u.listening = w.listening /\ u.open = w.open
      /\ u.asksPlatform = w.asksPlatform /\ u.osWarning = w.osWarning
  BY <1>7, <1>8 DEF AppWindows
<1> HIDE DEF u
<1>10. /\ v \in AppWindows /\ v.lookups = r /\ v.last = appWindow.last
       /\ v.warning = appWindow.warning /\ v.connected = appWindow.connected /\ v.port = appWindow.port
       /\ v.listening = appWindow.listening /\ v.open = appWindow.open
       /\ v.asksPlatform = appWindow.asksPlatform /\ v.osWarning = appWindow.osWarning
       /\ v.apps = IF l.number # appWindow.last THEN appWindow.apps ELSE a
  BY <1>8, <1>9
<1> HIDE DEF v
<1>11. WindowRest(v) /\ CrashRight(v, disposed)
  <2>1. \A k \in DOMAIN v.lookups : v.lookups[k].number <= v.last
    BY <1>1, <1>5, <1>10 DEF WindowRest
  <2> QED BY <1>1, <1>10, <2>1 DEF WindowRest, CrashRight
<1>12. ASSUME "apps" \in v.connected PROVE ShowsOrWill(v, shown)
  <2>1. ShowsOrWill(appWindow, shown)
    BY <1>1, <1>10, <1>12
  <2>2. CASE appWindow.port["apps"] # <<>>
    BY <1>10, <2>1, <2>2 DEF ShowsOrWill
  <2>3. CASE appWindow.port["apps"] = <<>>
    <3>1. /\ appWindow.apps = shown \/ (\E j \in DOMAIN s : s[j].number = appWindow.last)
          /\ \A j \in DOMAIN s : s[j].number = appWindow.last => s[j].apps = shown
      BY <2>1, <2>3 DEF ShowsOrWill
    <3>2. \A k \in DOMAIN v.lookups : v.lookups[k].number = v.last => v.lookups[k].apps = shown
      BY <1>5, <1>10, <3>1
    <3>3. v.apps = shown \/ \E k \in DOMAIN v.lookups : v.lookups[k].number = v.last
      <4>1. CASE l.number = appWindow.last
        BY <1>4, <1>10, <3>1, <4>1 DEF l, a
      <4>2. CASE l.number # appWindow.last
        <5>1. \A j \in DOMAIN s : s[j].number = appWindow.last => j # i
          BY <4>2 DEF l
        <5> QED BY <1>5, <1>10, <3>1, <4>2, <5>1
      <4> QED BY <4>1, <4>2
    <3> QED BY <1>10, <2>3, <3>2, <3>3 DEF ShowsOrWill
  <2> QED BY <2>2, <2>3
<1>13. WindowRight(v, shown, disposed)
  BY <1>11, <1>12 DEF WindowRight
<1> QED BY <1>1, <1>2, <1>3, <1>10, <1>13, AppsMove

LEMMA AppsStep == AppsInv /\ AppsShown!Next => AppsInv'
<1> SUFFICES ASSUME AppsInv, AppsShown!Next PROVE AppsInv'
  OBVIOUS
<1>1. AppsShown!PortNames = PortNames
  BY DEF AppsShown!PortNames, PortNames
<1>2. ASSUME NEW s \in Senders, AppsShown!ClientConnects(s) PROVE AppsInv'
  BY <1>2, ClientComes
<1>3. ASSUME NEW o \in AppsShown!Origins, AppsShown!ClientDisconnects(o) PROVE AppsInv'
  BY <1>3, ClientGoes
<1>4. CASE AppsShown!PlatformInfo
  BY <1>4, PlatformIsTold
<1>5. CASE AppsShown!ModuleDisposed
  BY <1>5, ModuleGoes
<1>6. CASE AppsShown!OpenWindow \/ AppsShown!CloseWindow
  BY <1>6, WindowOpensAndCloses
<1>7. ASSUME NEW name \in PortNames, AppsShown!OnMessagePortConnected(name) PROVE AppsInv'
  BY <1>7, PortConnects
<1>8. ASSUME NEW name \in PortNames, AppsShown!WindowHears(name) PROVE AppsInv'
  BY <1>8, WindowGets
<1>9. ASSUME NEW i \in DOMAIN appWindow.lookups, NEW found \in BOOLEAN,
             AppsShown!LookupSettles(i, found)
      PROVE  AppsInv'
  BY <1>9, NamesArrive
<1> QED BY <1>1, <1>2, <1>3, <1>4, <1>5, <1>6, <1>7, <1>8, <1>9 DEF AppsShown!Next

\* The window shows the applications that are connected, however they come and
\* go and their names' lookups overtake one another, and the module's crash.
THEOREM AppsAreCurrent == Spec => []AppsShown!AppsCurrent
<1>1. Init => AppsInv
  BY AppsStart DEF Init
<1>2. AppsInv /\ [Next]_vars => AppsInv'
  <2> SUFFICES ASSUME AppsInv, [Next]_vars PROVE AppsInv'
    OBVIOUS
  <2>1. CASE UNCHANGED appsVars
    BY <2>1 DEF appsVars, AppsInv, WindowRight, WindowRest, CrashRight, ShowsOrWill,
                AppsShown!GetMessagingOrigins
  <2>2. CASE AppsShown!Next
    BY <2>2, AppsStep
  <2> QED BY <2>1, <2>2 DEF Next, vars
<1>3. AppsInv => AppsShown!AppsCurrent
  <2> SUFFICES ASSUME AppsInv PROVE AppsShown!AppsCurrent
    OBVIOUS
  <2>1. /\ appWindow \in AppWindows /\ disposed \in BOOLEAN
        /\ WindowRest(appWindow) /\ CrashRight(appWindow, disposed)
        /\ "apps" \in appWindow.connected =>
             ShowsOrWill(appWindow, AppsShown!GetMessagingOrigins(clients))
    BY DEF AppsInv, WindowRight
  <2>2. AppsShown!Quiet("apps") /\ appWindow.lookups = <<>> =>
          appWindow.apps = {o \in AppsShown!Origins : clients[o] > 0}
    <3>1. DOMAIN <<>> = {}
      OBVIOUS
    <3> QED BY <2>1, <3>1 DEF AppsShown!Quiet, ShowsOrWill, AppsShown!GetMessagingOrigins
  <2>3. AppsShown!Quiet("crash") => appWindow.warning = disposed
    <3>1. appWindow.warning \in BOOLEAN
      BY <2>1 DEF AppWindows
    <3> QED BY <2>1, <3>1 DEF AppsShown!Quiet, CrashRight
  <2> QED BY <2>1, <2>2, <2>3 DEF AppsShown!AppsCurrent, WindowRest
<1> QED BY <1>1, <1>2, <1>3, PTL DEF Spec

-----------------------------------------------------------------------------
\* The export of the logs.
Record == [logger : {Logs!FormattedDocumentLocation(p) : p \in Pages}, number : Nat]
Message == Record \cup {Logs!Skipped(n) : n \in Nat}
Rest == Capacity - Logs!PrefixCapacity

\* The buffer b keeps, of what has been seen, the first records and the last.
Kept(b, s) ==
  /\ s \in Seq(Record)
  /\ b \in [size : Nat, prefix : Seq(Record), suffix : Seq(Record)]
  /\ b.size = Len(s)
  /\ Len(b.prefix) = IF Len(s) < Logs!PrefixCapacity THEN Len(s) ELSE Logs!PrefixCapacity
  /\ Len(b.suffix) = IF Len(s) - Len(b.prefix) < Rest THEN Len(s) - Len(b.prefix) ELSE Rest
  /\ \A k \in 1 .. Len(b.prefix) : b.prefix[k] = s[k]
  /\ \A k \in 1 .. Len(b.suffix) : b.suffix[k] = s[Len(s) - Len(b.suffix) + k]

\* What the export is to say of the records s.
Full(s) ==
  LET skipped == Len(s) - Capacity
  IN IF skipped <= 0 THEN s
     ELSE SubSeq(s, 1, Logs!PrefixCapacity) \o <<Logs!Skipped(skipped)>>
            \o SubSeq(s, Logs!PrefixCapacity + skipped + 1, Len(s))

LogsInv ==
  /\ emitted \in Nat /\ ports \in [Pages -> Seq(Nat)]
  /\ Kept(buffer, seen)
  /\ button = "reading" =>
       /\ export \in [posted : Seq(Message), got : Seq(Message), records : Seq(Record)]
       /\ export.got \o export.posted = Full(export.records)
  /\ button = "exported" => export.got = Full(export.records)

LEMMA CapacitiesAre ==
  /\ Capacity \in Nat /\ Logs!PrefixCapacity \in Nat /\ Rest \in Nat
  /\ Capacity = Logs!PrefixCapacity + Rest
<1>1. Capacity \in Nat
  BY ComponentsAssumption DEF Logs!LoggingAssumption
<1> QED BY <1>1 DEF Logs!PrefixCapacity, Rest

\* Two sequences of the same elements are the same.
LEMMA SameSeq ==
  ASSUME NEW S, NEW s \in Seq(S), NEW t \in Seq(S), Len(s) = Len(t),
         \A k \in 1 .. Len(s) : s[k] = t[k]
  PROVE  s = t
OBVIOUS

LEMMA JoinIs ==
  ASSUME NEW S, NEW s \in Seq(S), NEW t \in Seq(S)
  PROVE  /\ s \o t \in Seq(S) /\ Len(s \o t) = Len(s) + Len(t)
         /\ \A k \in 1 .. Len(s) : (s \o t)[k] = s[k]
         /\ \A k \in 1 .. Len(t) : (s \o t)[Len(s) + k] = t[k]
OBVIOUS

LEMMA PartIs ==
  ASSUME NEW S, NEW s \in Seq(S), NEW m \in Nat \ {0}, NEW n \in 0 .. Len(s), m <= n + 1
  PROVE  /\ SubSeq(s, m, n) \in Seq(S) /\ Len(SubSeq(s, m, n)) = n - m + 1
         /\ \A k \in 1 .. n - m + 1 : SubSeq(s, m, n)[k] = s[m - 1 + k]
<1>1. \A k \in m .. n : k \in 1 .. Len(s)
  OBVIOUS
<1>2. SubSeq(s, m, n) \in Seq(S) /\ Len(SubSeq(s, m, n)) = n - m + 1
  BY <1>1
<1>3. \A k \in 1 .. n - m + 1 : SubSeq(s, m, n)[k] = s[m + k - 1] /\ m + k - 1 = m - 1 + k
  OBVIOUS
<1> QED BY <1>2, <1>3

LEMMA ReadOn ==
  ASSUME NEW S, NEW g \in Seq(S), NEW p \in Seq(S), p # <<>>
  PROVE  /\ Append(g, Head(p)) \in Seq(S) /\ Tail(p) \in Seq(S)
         /\ Append(g, Head(p)) \o Tail(p) = g \o p
<1> DEFINE h == Head(p)
           t == Tail(p)
           a == Append(g, h)
<1>1. /\ h \in S /\ h = p[1] /\ t \in Seq(S) /\ Len(t) = Len(p) - 1 /\ Len(p) \in Nat \ {0}
      /\ \A k \in 1 .. Len(t) : t[k] = p[k + 1]
  OBVIOUS
<1> HIDE DEF h, t
<1>2. /\ a \in Seq(S) /\ Len(a) = Len(g) + 1 /\ Len(g) \in Nat
      /\ a[Len(g) + 1] = h /\ \A k \in 1 .. Len(g) : a[k] = g[k]
  BY <1>1
<1> HIDE DEF a
<1>3. /\ a \o t \in Seq(S) /\ Len(a \o t) = Len(a) + Len(t)
      /\ \A k \in 1 .. Len(a) : (a \o t)[k] = a[k]
      /\ \A k \in 1 .. Len(t) : (a \o t)[Len(a) + k] = t[k]
  <2>1. a \in Seq(S) /\ t \in Seq(S)
    BY <1>1, <1>2
  <2> QED BY <2>1, JoinIs
<1>4. /\ g \o p \in Seq(S) /\ Len(g \o p) = Len(g) + Len(p)
      /\ \A k \in 1 .. Len(g) : (g \o p)[k] = g[k]
      /\ \A k \in 1 .. Len(p) : (g \o p)[Len(g) + k] = p[k]
  BY JoinIs
<1> DEFINE x == a \o t
           y == g \o p
<1> HIDE DEF x, y
<1>5. ASSUME NEW k \in 1 .. Len(x) PROVE x[k] = y[k]
  <2>1. Len(x) = Len(g) + Len(p)
    BY <1>1, <1>2, <1>3 DEF x
  <2>2. CASE k \in 1 .. Len(g)
    <3>1. k \in 1 .. Len(a)
      BY <1>2, <2>2
    <3> QED BY <1>2, <1>3, <1>4, <2>2, <3>1 DEF x, y
  <2>3. CASE k = Len(g) + 1
    <3>1. k \in 1 .. Len(a) /\ 1 \in 1 .. Len(p)
      BY <1>1, <1>2, <2>3
    <3> QED BY <1>1, <1>2, <1>3, <1>4, <2>3, <3>1 DEF x, y
  <2>4. CASE k > Len(g) + 1
    <3> DEFINE j == k - Len(g) - 1
    <3>1. j \in 1 .. Len(t) /\ Len(a) + j = k /\ j + 1 \in 1 .. Len(p) /\ Len(g) + (j + 1) = k
      BY <1>1, <1>2, <2>1, <2>4
    <3> HIDE DEF j
    <3>2. x[k] = t[j]
      BY <1>3, <3>1 DEF x
    <3>3. y[k] = p[j + 1]
      BY <1>4, <3>1 DEF y
    <3> QED BY <1>1, <3>1, <3>2, <3>3
  <2> QED BY <1>2, <2>1, <2>2, <2>3, <2>4
<1>6. x \in Seq(S) /\ y \in Seq(S) /\ Len(x) = Len(y)
  BY <1>1, <1>2, <1>3, <1>4 DEF x, y
<1>7. x = y
  BY <1>5, <1>6, SameSeq
<1> QED BY <1>1, <1>2, <1>7 DEF x, y, a, h, t

-----------------------------------------------------------------------------
LEMMA LastRecordsAre ==
  ASSUME NEW s \in Seq(Record), NEW n \in Nat
  PROVE  LET r == Logs!Last(s, n)
         IN /\ r \in Seq(Record) /\ Len(r) = IF n < Len(s) THEN n ELSE Len(s)
            /\ \A k \in 1 .. Len(r) : r[k] = s[Len(s) - Len(r) + k]
<1> DEFINE m == IF n < Len(s) THEN n ELSE Len(s)
           r == SubSeq(s, Len(s) - m + 1, Len(s))
<1>1. Logs!Last(s, n) = r
  BY DEF Logs!Last
<1>2. /\ Len(s) \in 0 .. Len(s) /\ Len(s) - m + 1 \in Nat \ {0} /\ Len(s) - m + 1 <= Len(s) + 1
      /\ Len(s) - (Len(s) - m + 1) + 1 = m /\ Len(s) - m + 1 - 1 = Len(s) - m /\ m \in Nat
  <2> DEFINE l == Len(s)
  <2>1. l \in Nat
    OBVIOUS
  <2>2. m \in Nat /\ m <= l
    <3> HIDE DEF l
    <3>1. (IF n < l THEN n ELSE l) \in Nat /\ (IF n < l THEN n ELSE l) <= l
      BY <2>1
    <3> QED BY <3>1 DEF l
  <2> HIDE DEF m, l
  <2>3. /\ l \in 0 .. l /\ l - m + 1 \in Nat \ {0} /\ l - m + 1 <= l + 1
        /\ l - (l - m + 1) + 1 = m /\ l - m + 1 - 1 = l - m
    BY <2>1, <2>2
  <2> QED BY <2>2, <2>3 DEF l
<1> HIDE DEF m
<1>3. /\ r \in Seq(Record) /\ Len(r) = Len(s) - (Len(s) - m + 1) + 1
      /\ \A k \in 1 .. Len(s) - (Len(s) - m + 1) + 1 : r[k] = s[Len(s) - m + 1 - 1 + k]
  BY <1>2, PartIs
<1>4. /\ r \in Seq(Record) /\ Len(r) = m /\ \A k \in 1 .. m : r[k] = s[Len(s) - m + k]
  BY <1>2, <1>3
<1>5. (LET x == Logs!Last(s, n)
       IN /\ x \in Seq(Record) /\ Len(x) = m /\ \A k \in 1 .. Len(x) : x[k] = s[Len(s) - Len(x) + k])
  <2> HIDE DEF r
  <2> QED BY <1>1, <1>4
<1> QED BY <1>5 DEF m

\* What is to be shown of what is kept, in numbers.
LEMMA KeptIf ==
  ASSUME NEW b, NEW s \in Seq(Record), NEW n \in Nat, NEW lp, NEW ls,
         b \in [size : Nat, prefix : Seq(Record), suffix : Seq(Record)],
         b.size = n, Len(s) = n, Len(b.prefix) = lp, Len(b.suffix) = ls,
         lp = IF n < Logs!PrefixCapacity THEN n ELSE Logs!PrefixCapacity,
         ls = IF n - lp < Rest THEN n - lp ELSE Rest,
         \A k \in 1 .. lp : b.prefix[k] = s[k],
         \A k \in 1 .. ls : b.suffix[k] = s[n - ls + k]
  PROVE  Kept(b, s)
BY DEF Kept

LEMMA ChangedBuffer ==
  ASSUME NEW S, NEW b \in [size : Nat, prefix : S, suffix : S], NEW x \in S, NEW z \in Nat
  PROVE  /\ [b EXCEPT !.prefix = x, !.size = z] = [size |-> z, prefix |-> x, suffix |-> b.suffix]
         /\ [b EXCEPT !.suffix = x, !.size = z] = [size |-> z, prefix |-> b.prefix, suffix |-> x]
<1> DEFINE r == [b EXCEPT !.prefix = x]
           t == [b EXCEPT !.suffix = x]
<1>1. /\ r \in [size : Nat, prefix : S, suffix : S] /\ r.prefix = x /\ r.suffix = b.suffix
      /\ t \in [size : Nat, prefix : S, suffix : S] /\ t.suffix = x /\ t.prefix = b.prefix
  OBVIOUS
<1> HIDE DEF r, t
<1>2. ASSUME NEW a \in [size : Nat, prefix : S, suffix : S]
      PROVE  [a EXCEPT !.size = z] = [size |-> z, prefix |-> a.prefix, suffix |-> a.suffix]
  OBVIOUS
<1>3. /\ [r EXCEPT !.size = z] = [size |-> z, prefix |-> x, suffix |-> b.suffix]
      /\ [t EXCEPT !.size = z] = [size |-> z, prefix |-> b.prefix, suffix |-> x]
  BY <1>1, <1>2
<1> QED BY <1>3 DEF r, t

\* A record is added to what is kept.
LEMMA AddedIsKept ==
  ASSUME NEW b, NEW s, Kept(b, s), NEW l \in Record
  PROVE  Kept(Logs!AddFormattedLogRecord(b, l), Append(s, l))
<1> DEFINE P == Logs!PrefixCapacity
           S == Seq(Record)
           q == Append(s, l)
           n == Len(s)
           lp == Len(b.prefix)
           ls == Len(b.suffix)
           c == Logs!AddFormattedLogRecord(b, l)
           z == b.size + 1
<1>1. /\ b \in [size : Nat, prefix : S, suffix : S] /\ b.prefix \in S /\ b.suffix \in S
      /\ s \in S /\ S = Seq(Record)
  BY DEF Kept
<1>2. P \in Nat /\ Rest \in Nat /\ n \in Nat /\ lp \in Nat /\ ls \in Nat
  BY <1>1, CapacitiesAre
<1>3. /\ q \in Seq(Record) /\ Len(q) = n + 1 /\ q[n + 1] = l /\ \A k \in 1 .. n : q[k] = s[k]
  BY <1>1
<1>4. /\ lp = IF n < P THEN n ELSE P
      /\ ls = IF n - lp < Rest THEN n - lp ELSE Rest
  BY DEF Kept
<1>5. /\ \A k \in 1 .. lp : b.prefix[k] = s[k]
      /\ \A k \in 1 .. ls : b.suffix[k] = s[n - ls + k]
  BY DEF Kept
<1>6. z = n + 1 /\ z \in Nat /\ Len(b.prefix) = lp /\ Len(b.suffix) = ls
  BY <1>2 DEF Kept
<1>7. CASE lp < P
  <2> DEFINE x == Append(b.prefix, l)
  <2>1. x \in S /\ Len(x) = lp + 1 /\ x[lp + 1] = l /\ \A k \in 1 .. lp : x[k] = b.prefix[k]
    BY <1>1
  <2>2. c = [b EXCEPT !.prefix = x, !.size = z]
    BY <1>7 DEF Logs!AddFormattedLogRecord
  <2> HIDE DEF x, c, n, lp, ls, P, q, z, S
  <2>3. c = [size |-> z, prefix |-> x, suffix |-> b.suffix]
    BY <1>1, <1>6, <2>1, <2>2, ChangedBuffer
  <2>4. lp = n /\ ls = 0 /\ n < P
    BY <1>2, <1>4, <1>7
  <2>5. /\ n + 1 = IF n + 1 < P THEN n + 1 ELSE P
        /\ 0 = IF (n + 1) - (n + 1) < Rest THEN (n + 1) - (n + 1) ELSE Rest
        /\ n + 1 \in Nat /\ 1 .. 0 = {} /\ \A k \in 1 .. n + 1 : k \in 1 .. n \/ k = n + 1
    BY <1>2, <2>4
  <2>6. \A k \in 1 .. n + 1 : x[k] = q[k]
    BY <1>3, <1>5, <2>1, <2>4, <2>5
  <2>7. /\ c \in [size : Nat, prefix : Seq(Record), suffix : Seq(Record)] /\ c.size = n + 1
        /\ c.prefix = x /\ c.suffix = b.suffix
    BY <1>1, <1>6, <2>1, <2>3
  <2>8. Len(c.prefix) = n + 1 /\ Len(c.suffix) = 0
    BY <1>6, <2>1, <2>4, <2>7
  <2>9. /\ \A k \in 1 .. n + 1 : c.prefix[k] = q[k]
        /\ \A k \in 1 .. 0 : c.suffix[k] = q[(n + 1) - 0 + k]
    BY <2>5, <2>6, <2>7
  <2>10. /\ n + 1 = IF n + 1 < Logs!PrefixCapacity THEN n + 1 ELSE Logs!PrefixCapacity
    BY <2>5 DEF P
  <2>11. Kept(c, q)
    BY <1>3, <2>5, <2>7, <2>8, <2>9, <2>10, KeptIf
  <2> QED BY <2>11 DEF c, q
<1>8. CASE ~(lp < P)
  <2> DEFINE y == Append(b.suffix, l)
             x == Logs!Last(y, Rest)
             m == Len(x)
  <2>1. y \in S /\ Len(y) = ls + 1 /\ y[ls + 1] = l /\ \A k \in 1 .. ls : y[k] = b.suffix[k]
    BY <1>1
  <2>2. c = [b EXCEPT !.suffix = x, !.size = z]
    BY <1>8 DEF Logs!AddFormattedLogRecord, Rest
  <2> HIDE DEF y, c, n, lp, ls, P, q, z
  <2>3. /\ x \in S /\ Len(x) = IF Rest < Len(y) THEN Rest ELSE Len(y)
        /\ \A k \in 1 .. Len(x) : x[k] = y[Len(y) - Len(x) + k]
    BY <1>2, <2>1, LastRecordsAre
  <2>4. /\ m = IF Rest < ls + 1 THEN Rest ELSE ls + 1
        /\ \A k \in 1 .. m : x[k] = y[ls + 1 - m + k]
    <3> HIDE DEF x
    <3>1. m = IF Rest < Len(y) THEN Rest ELSE Len(y)
      BY <2>3
    <3>2. ASSUME NEW k \in 1 .. m PROVE x[k] = y[Len(y) - m + k]
      BY <2>3
    <3> HIDE DEF m
    <3>3. Len(y) = ls + 1
      BY <2>1
    <3>4. m = IF Rest < ls + 1 THEN Rest ELSE ls + 1
      BY <3>1, <3>3
    <3>5. ASSUME NEW k \in 1 .. m PROVE x[k] = y[ls + 1 - m + k]
      <4>1. Len(y) - m + k = ls + 1 - m + k
        BY <1>2, <3>3, <3>4
      <4> QED BY <3>2, <4>1
    <3> QED BY <3>4, <3>5
  <2>5. Len(x) = m
    OBVIOUS
  <2> HIDE DEF x, m, S
  <2>6. c = [size |-> z, prefix |-> b.prefix, suffix |-> x]
    BY <1>1, <1>6, <2>2, <2>3, ChangedBuffer
  <2>7. /\ c \in [size : Nat, prefix : Seq(Record), suffix : Seq(Record)] /\ c.size = n + 1
        /\ c.suffix = x /\ c.prefix = b.prefix
    BY <1>1, <1>6, <2>3, <2>6
  <2>8. lp = P /\ ~(n < P) /\ ls = IF n - P < Rest THEN n - P ELSE Rest
    BY <1>2, <1>4, <1>8
  <2>9. m \in Nat /\ m = (IF (n + 1) - P < Rest THEN (n + 1) - P ELSE Rest) /\ m <= ls + 1
        /\ ls <= n
    BY <1>2, <2>4, <2>8
  <2>10. ASSUME NEW k \in 1 .. m PROVE x[k] = q[(n + 1) - m + k]
    <3> DEFINE j == ls + 1 - m + k
               i == (n + 1) - m + k
    <3>1. x[k] = y[j]
      BY <2>4
    <3>2. j \in 1 .. ls + 1 /\ n - ls + j = i /\ (j = ls + 1 => i = n + 1)
          /\ (j # ls + 1 => j \in 1 .. ls /\ i \in 1 .. n)
      BY <1>2, <2>9
    <3> HIDE DEF i, j
    <3> SUFFICES x[k] = q[i]
      BY DEF i
    <3>3. CASE j = ls + 1
      BY <1>3, <2>1, <3>1, <3>2, <3>3
    <3>4. CASE j # ls + 1
      BY <1>3, <1>5, <2>1, <3>1, <3>2, <3>4
    <3> QED BY <3>3, <3>4
  <2>11. P = (IF n + 1 < P THEN n + 1 ELSE P) /\ n + 1 \in Nat /\ \A k \in 1 .. P : k \in 1 .. n
    BY <1>2, <2>8
  <2>12. \A k \in 1 .. P : c.prefix[k] = q[k]
    BY <1>3, <1>5, <2>7, <2>8, <2>11
  <2>13. Len(c.prefix) = P /\ Len(c.suffix) = m
    BY <1>6, <2>5, <2>7, <2>8
  <2>14. \A k \in 1 .. m : c.suffix[k] = q[(n + 1) - m + k]
    BY <2>7, <2>10
  <2>15. P = IF n + 1 < Logs!PrefixCapacity THEN n + 1 ELSE Logs!PrefixCapacity
    BY <2>11 DEF P
  <2>16. Kept(c, q)
    <3>1. q \in Seq(Record) /\ n + 1 \in Nat /\ Len(q) = n + 1
      BY <1>3, <2>11
    <3>2. m = IF (n + 1) - P < Rest THEN (n + 1) - P ELSE Rest
      BY <2>9
    <3>3. /\ c \in [size : Nat, prefix : Seq(Record), suffix : Seq(Record)]
          /\ c.size = n + 1 /\ Len(c.prefix) = P /\ Len(c.suffix) = m
      BY <2>7, <2>13
    <3> DEFINE v == n + 1
    <3>4. /\ q \in Seq(Record) /\ v \in Nat /\ Len(q) = v /\ c.size = v
          /\ m = IF v - P < Rest THEN v - P ELSE Rest
          /\ P = IF v < Logs!PrefixCapacity THEN v ELSE Logs!PrefixCapacity
          /\ \A k \in 1 .. m : c.suffix[k] = q[v - m + k]
      BY <2>14, <2>15, <3>1, <3>2, <3>3
    <3> HIDE DEF v
    <3>5. Len(c.prefix) = IF Len(q) < Logs!PrefixCapacity THEN Len(q) ELSE Logs!PrefixCapacity
      BY <3>3, <3>4
    <3>6. Len(c.suffix) = IF Len(q) - Len(c.prefix) < Rest THEN Len(q) - Len(c.prefix) ELSE Rest
      BY <3>3, <3>4
    <3>7. \A k \in 1 .. Len(c.prefix) : c.prefix[k] = q[k]
      BY <2>12, <3>3
    <3>8. \A k \in 1 .. Len(c.suffix) : c.suffix[k] = q[Len(q) - Len(c.suffix) + k]
      BY <3>3, <3>4
    <3> QED BY <3>3, <3>4, <3>5, <3>6, <3>7, <3>8 DEF Kept
  <2> QED BY <2>16 DEF c, q
<1> QED BY <1>7, <1>8

\* What is exported of what is kept.
LEMMA ExportIs ==
  ASSUME NEW b, NEW s, Kept(b, s)
  PROVE  /\ Logs!ExportMessages(Logs!State(b)) \in Seq(Message)
         /\ Logs!ExportMessages(Logs!State(b)) = Full(s)
<1> DEFINE P == Logs!PrefixCapacity
           n == Len(s)
           a == b.prefix
           z == b.suffix
           la == Len(a)
           lz == Len(z)
           skipped == n - Capacity
           k == n - la - lz
           e == Logs!ExportMessages(Logs!State(b))
<1>1. a \in Seq(Record) /\ z \in Seq(Record) /\ s \in Seq(Record)
  BY DEF Kept
<1>2. /\ P \in Nat /\ Rest \in Nat /\ Capacity = P + Rest /\ Capacity \in Nat /\ n \in Nat
      /\ la \in Nat /\ lz \in Nat
  BY <1>1, CapacitiesAre
<1>3. /\ la = IF n < P THEN n ELSE P
      /\ lz = IF n - la < Rest THEN n - la ELSE Rest
  BY DEF Kept
<1>4. /\ \A i \in 1 .. la : a[i] = s[i]
      /\ \A i \in 1 .. lz : z[i] = s[n - lz + i]
  BY DEF Kept
<1>5. e = a \o (IF k > 0 THEN <<Logs!Skipped(k)>> ELSE <<>>) \o z
  <2>1. b.size = n
    BY DEF Kept
  <2> QED BY <2>1 DEF Logs!ExportMessages, Logs!State
<1>6. Len(a) = la /\ Len(z) = lz /\ Len(s) = n
  OBVIOUS
<1> HIDE DEF e, a, z, n, la, lz, P
<1>7. a \in Seq(Message) /\ z \in Seq(Message)
  <2>1. Record \subseteq Message
    BY DEF Message
  <2> QED BY <1>1, <2>1
<1>8. CASE skipped <= 0
  <2>1. ~(k > 0) /\ la + lz = n /\ n - lz = la
    BY <1>2, <1>3, <1>8
  <2> DEFINE x == a \o z
  <2>2. e = x
    <3>1. a \o <<>> = a
      BY <1>1
    <3> HIDE DEF k
    <3> QED BY <1>5, <2>1, <3>1
  <2>3. /\ x \in Seq(Record) /\ Len(x) = n
        /\ \A i \in 1 .. la : x[i] = a[i]
        /\ \A i \in 1 .. lz : x[la + i] = z[i]
    <3>1. /\ x \in Seq(Record) /\ Len(x) = Len(a) + Len(z)
          /\ \A i \in 1 .. Len(a) : x[i] = a[i]
          /\ \A i \in 1 .. Len(z) : x[Len(a) + i] = z[i]
      BY <1>1, JoinIs
    <3> HIDE DEF x
    <3> QED BY <1>6, <2>1, <3>1
  <2> HIDE DEF x
  <2>4. ASSUME NEW i \in 1 .. n PROVE x[i] = s[i]
    <3> DEFINE j == i - la
    <3>1. i \in 1 .. la \/ (j \in 1 .. lz /\ la + j = i /\ n - lz + j = i)
      BY <1>2, <2>1
    <3> HIDE DEF j
    <3> QED BY <1>4, <2>3, <3>1
  <2>5. x = s
    BY <1>1, <1>6, <2>3, <2>4, SameSeq
  <2>6. Full(s) = s
    BY <1>8 DEF Full, n
  <2>7. x \in Seq(Message)
    BY <1>7, JoinIs DEF x
  <2> QED BY <2>2, <2>5, <2>6, <2>7 DEF e
<1>9. CASE ~(skipped <= 0)
  <2>1. /\ k > 0 /\ k = skipped /\ la = P /\ lz = Rest /\ k \in Nat
    BY <1>2, <1>3, <1>9
  <2> DEFINE from == P + skipped + 1
             first == SubSeq(s, 1, P)
             last == SubSeq(s, from, n)
  <2>2. /\ from \in Nat \ {0} /\ from <= n + 1 /\ n - from + 1 = Rest /\ from - 1 = n - Rest
        /\ n \in 0 .. n /\ P \in 0 .. n /\ 1 \in Nat \ {0} /\ 1 <= P + 1 /\ P - 1 + 1 = P
        /\ skipped \in Nat
    BY <1>2, <2>1
  <2>3. \A i \in 1 .. P : 1 - 1 + i = i
    BY <1>2
  <2> HIDE DEF skipped, k, from
  <2>4. first \in Seq(Record) /\ Len(first) = P /\ \A i \in 1 .. P : first[i] = s[i]
    <3>1. /\ first \in Seq(Record) /\ Len(first) = P - 1 + 1
          /\ \A i \in 1 .. P - 1 + 1 : first[i] = s[1 - 1 + i]
      BY <1>1, <1>6, <2>2, PartIs
    <3> HIDE DEF first
    <3> QED BY <2>2, <2>3, <3>1
  <2>5. last \in Seq(Record) /\ Len(last) = Rest /\ \A i \in 1 .. Rest : last[i] = s[n - Rest + i]
    <3>1. /\ last \in Seq(Record) /\ Len(last) = n - from + 1
          /\ \A i \in 1 .. n - from + 1 : last[i] = s[from - 1 + i]
      BY <1>1, <1>6, <2>2, PartIs
    <3> HIDE DEF last
    <3> QED BY <2>2, <3>1
  <2> HIDE DEF first, last
  <2>6. first = a
    BY <1>1, <1>4, <1>6, <2>1, <2>4, SameSeq
  <2>7. last = z
    <3>1. \A i \in 1 .. Rest : last[i] = z[i]
      BY <1>4, <2>1, <2>5
    <3> QED BY <1>1, <1>6, <2>1, <2>5, <3>1, SameSeq
  <2>8. Full(s) = first \o <<Logs!Skipped(skipped)>> \o last
    BY <1>9 DEF Full, first, last, from, skipped, n, P
  <2>9. e = a \o <<Logs!Skipped(skipped)>> \o z
    BY <1>5, <2>1
  <2>10. e \in Seq(Message)
    <3> DEFINE m == Logs!Skipped(skipped)
    <3>1. m \in Message
      BY <2>2 DEF Message
    <3> HIDE DEF m
    <3>2. <<m>> \in Seq(Message)
      BY <3>1
    <3> DEFINE u == <<m>>
    <3> HIDE DEF u
    <3>3. u \in Seq(Message)
      BY <3>2 DEF u
    <3>4. a \o u \in Seq(Message)
      BY <1>7, <3>3, JoinIs
    <3>5. a \o u \o z \in Seq(Message)
      <4> DEFINE v == a \o u
      <4>1. v \in Seq(Message)
        BY <3>4
      <4> HIDE DEF v
      <4>2. v \o z \in Seq(Message)
        BY <1>7, <4>1, JoinIs
      <4> QED BY <4>2 DEF v
    <3> QED BY <2>9, <3>5 DEF m, u
  <2> QED BY <2>6, <2>7, <2>8, <2>9, <2>10 DEF e
<1> QED BY <1>8, <1>9

-----------------------------------------------------------------------------
LEMMA LogsStart == Logs!Init => LogsInv
<1> SUFFICES ASSUME Logs!Init PROVE LogsInv
  OBVIOUS
<1>1. emitted = 0 /\ ports = [p \in Pages |-> <<>>] /\ seen = <<>> /\ button = "available"
      /\ buffer = [size |-> 0, prefix |-> <<>>, suffix |-> <<>>]
  BY DEF Logs!Init, Logs!NewLogBuffer
<1>2. Kept(buffer, seen)
  <2>1. 0 = (IF 0 < Logs!PrefixCapacity THEN 0 ELSE Logs!PrefixCapacity)
        /\ 0 = (IF 0 - 0 < Rest THEN 0 - 0 ELSE Rest) /\ 1 .. 0 = {}
    BY CapacitiesAre
  <2>2. buffer.size = 0 /\ buffer.prefix = <<>> /\ buffer.suffix = <<>> /\ Len(<<>>) = 0
        /\ <<>> \in Seq(Record)
    BY <1>1
  <2>3. buffer \in [size : Nat, prefix : Seq(Record), suffix : Seq(Record)]
    BY <1>1, <2>2
  <2> QED BY <1>1, <2>1, <2>2, <2>3 DEF Kept
<1> QED BY <1>1, <1>2 DEF LogsInv

LEMMA RecordIsKept ==
  ASSUME LogsInv, NEW p \in Pages, NEW n \in Nat, Logs!Collect(p, n)
  PROVE  Kept(buffer, seen)'
<1> DEFINE l == Logs!LogRecord(p, n)
<1>1. l \in Record
  BY DEF Logs!LogRecord, Record
<1>2. buffer' = Logs!AddFormattedLogRecord(buffer, l) /\ seen' = Append(seen, l)
  BY DEF Logs!Collect, Logs!AddLogRecord
<1> HIDE DEF l
<1>3. Kept(Logs!AddFormattedLogRecord(buffer, l), Append(seen, l))
  BY <1>1, AddedIsKept DEF LogsInv
<1> QED BY <1>2, <1>3 DEF Kept

LEMMA LogsStep == LogsInv /\ Logs!Next => LogsInv'
<1> SUFFICES ASSUME LogsInv, Logs!Next PROVE LogsInv'
  OBVIOUS
<1> DEFINE Exports ==
             /\ button = "reading" =>
                  /\ export \in [posted : Seq(Message), got : Seq(Message), records : Seq(Record)]
                  /\ export.got \o export.posted = Full(export.records)
             /\ button = "exported" => export.got = Full(export.records)
<1>1. emitted \in Nat /\ ports \in [Pages -> Seq(Nat)] /\ Kept(buffer, seen) /\ Exports
  BY DEF LogsInv
<1>2. UNCHANGED <<button, export>> => Exports'
  BY <1>1
<1>3. UNCHANGED <<buffer, seen>> => Kept(buffer, seen)'
  BY <1>1 DEF Kept
<1>4. ASSUME NEW p \in Pages, Logs!EmitHere(p) PROVE LogsInv'
  <2>1. emitted' = emitted + 1 /\ emitted' \in Nat /\ ports' = ports /\ UNCHANGED <<button, export>>
        /\ Logs!Collect(p, emitted + 1)
    BY <1>1, <1>4 DEF Logs!EmitHere
  <2>2. Kept(buffer, seen)'
    BY <2>1, RecordIsKept
  <2> QED BY <1>1, <1>2, <2>1, <2>2 DEF LogsInv
<1>5. ASSUME NEW p \in Pages, Logs!EmitElsewhere(p) PROVE LogsInv'
  <2> DEFINE q == Append(ports[p], emitted + 1)
  <2>1. emitted' \in Nat /\ ports' = [ports EXCEPT ![p] = q]
        /\ UNCHANGED <<buffer, seen, button, export>>
    BY <1>1, <1>5 DEF Logs!EmitElsewhere
  <2>2. q \in Seq(Nat)
    BY <1>1
  <2> HIDE DEF q
  <2>3. ports' \in [Pages -> Seq(Nat)]
    BY <1>1, <2>1, <2>2
  <2> QED BY <1>2, <1>3, <2>1, <2>3 DEF LogsInv
<1>6. ASSUME NEW p \in Pages, Logs!LogReceived(p) PROVE LogsInv'
  <2> DEFINE q == ports[p]
             t == Tail(q)
             n == Head(q)
  <2>1. /\ q # <<>> /\ Logs!Collect(p, n) /\ ports' = [ports EXCEPT ![p] = t]
        /\ UNCHANGED <<emitted, button, export>>
    BY <1>6 DEF Logs!LogReceived
  <2>2. q \in Seq(Nat)
    BY <1>1
  <2> HIDE DEF q
  <2>3. n \in Nat /\ t \in Seq(Nat)
    BY <2>1, <2>2
  <2> HIDE DEF n, t
  <2>4. Kept(buffer, seen)'
    BY <2>1, <2>3, RecordIsKept
  <2>5. ports' \in [Pages -> Seq(Nat)]
    BY <1>1, <2>1, <2>3
  <2> QED BY <1>1, <1>2, <2>1, <2>4, <2>5 DEF LogsInv
<1>7. CASE Logs!Click \/ Logs!ExportTimeoutPassed
  <2>1. UNCHANGED <<emitted, ports, buffer, seen>> /\ button' \in {"exporting", "available"}
    BY <1>7 DEF Logs!Click, Logs!ExportTimeoutPassed
  <2> QED BY <1>1, <1>3, <2>1 DEF LogsInv
<1>8. CASE Logs!ExportRequested
  <2> DEFINE m == Logs!ExportMessages(Logs!State(buffer))
  <2>1. /\ UNCHANGED <<emitted, ports, buffer, seen>> /\ button' = "reading"
        /\ export' = [posted |-> m, got |-> <<>>, records |-> seen]
    BY <1>8 DEF Logs!ExportRequested
  <2>2. m \in Seq(Message) /\ m = Full(seen) /\ seen \in Seq(Record)
    BY <1>1, ExportIs DEF Kept
  <2> HIDE DEF m
  <2>3. <<>> \o m = m /\ <<>> \in Seq(Message)
    BY <2>2
  <2>4. /\ export' \in [posted : Seq(Message), got : Seq(Message), records : Seq(Record)]
        /\ export'.got = <<>> /\ export'.posted = m /\ export'.records = seen
    BY <2>1, <2>2, <2>3
  <2>5. Exports'
    BY <2>1, <2>2, <2>3, <2>4
  <2> QED BY <1>1, <1>3, <2>1, <2>5 DEF LogsInv
<1>9. CASE Logs!ExportRead
  <2> DEFINE p == export.posted
             t == Tail(p)
             g == Append(export.got, Head(p))
  <2>1. /\ UNCHANGED <<emitted, ports, buffer, seen, button>> /\ button = "reading" /\ p # <<>>
        /\ export' = [export EXCEPT !.got = g, !.posted = t]
    BY <1>9 DEF Logs!ExportRead
  <2>2. /\ export \in [posted : Seq(Message), got : Seq(Message), records : Seq(Record)]
        /\ export.got \o p = Full(export.records)
    BY <1>1, <2>1
  <2>3. p \in Seq(Message) /\ export.got \in Seq(Message)
    BY <2>2
  <2>4. g \in Seq(Message) /\ t \in Seq(Message) /\ g \o t = export.got \o p
    <3> HIDE DEF p
    <3> QED BY <2>1, <2>3, ReadOn
  <2> HIDE DEF g, t, p
  <2>5. /\ export' \in [posted : Seq(Message), got : Seq(Message), records : Seq(Record)]
        /\ export'.got = g /\ export'.posted = t /\ export'.records = export.records
    BY <2>1, <2>2, <2>4
  <2>6. Exports'
    BY <2>1, <2>2, <2>4, <2>5
  <2> QED BY <1>1, <1>3, <2>1, <2>6 DEF LogsInv
<1>10. CASE Logs!ExportLogs
  <2>1. UNCHANGED <<emitted, ports, buffer, seen, export>> /\ button = "reading"
        /\ button' = "exported" /\ export.posted = <<>>
    BY <1>10 DEF Logs!ExportLogs
  <2>2. export.got \o <<>> = Full(export.records) /\ export.got \in Seq(Message)
    BY <1>1, <2>1
  <2>3. export.got \o <<>> = export.got
    BY <2>2
  <2>4. Exports'
    BY <2>1, <2>2, <2>3
  <2> QED BY <1>1, <1>3, <2>1, <2>4 DEF LogsInv
<1> QED BY <1>4, <1>5, <1>6, <1>7, <1>8, <1>9, <1>10 DEF Logs!Next

\* What the user copies are the first records, how many are left out, and the
\* last, of all that the collector had when it was asked.
THEOREM ExportIsFaithful == Spec => []Logs!ExportFaithful
<1>1. Init => LogsInv
  BY LogsStart DEF Init
<1>2. LogsInv /\ [Next]_vars => LogsInv'
  <2> SUFFICES ASSUME LogsInv, [Next]_vars PROVE LogsInv'
    OBVIOUS
  <2>1. CASE UNCHANGED logsVars
    BY <2>1 DEF logsVars, LogsInv, Kept, Full
  <2>2. CASE Logs!Next
    BY <2>2, LogsStep
  <2> QED BY <2>1, <2>2 DEF Next, vars
<1>3. LogsInv => Logs!ExportFaithful
  BY DEF LogsInv, Logs!ExportFaithful, Full
<1> QED BY <1>1, <1>2, <1>3, PTL DEF Spec

-----------------------------------------------------------------------------
\* The devices in the window.
Named(reader) == DevicesShown!MakeReaderNameForDisplaying(reader.name)
RemoveFailures(list) == DevicesShown!RemoveSpuriousFailures(list)

\* The list of readers shows each device of A once, and no other.
Shows(list, A) ==
  LET kept == RemoveFailures(list)
  IN /\ \E n \in Nat : DOMAIN kept = 1 .. n /\ n = Cardinality(A)
     /\ {Named(kept[i]) : i \in DOMAIN kept} = {DevicesShown!ShownName(d) : d \in A}

\* What the hooks let the server see.
HasCardInterface(d) == \E i \in d.interfaces : DevicesShown!IsSmartCardInterface(i)
Seen(h) == IF h.absent THEN {} ELSE {d \in attached : HasCardInterface(d)}

HookRecords ==
  [absent : BOOLEAN, asked : BOOLEAN, ready : BOOLEAN, listens : BOOLEAN,
   replies : Seq({"changed", "session", "lock"}), owed : Nat]
SessionRecords == [profile : {"user", "signin", "none"}, state : {"session", "lock"}]

\* The hook of a user's session listens before it is ready, and if the browser
\* owes it nothing and nothing has changed, what it has got or is getting last is
\* the session's state.
HookRight(h, s) ==
  /\ h \in HookRecords /\ s \in SessionRecords
  /\ h.listens => s.profile = "user"
  /\ ~h.listens => ~h.absent /\ h.owed = 0 /\ h.replies = <<>>
  /\ s.profile = "user" /\ h.ready => h.listens
  /\ h.listens /\ h.owed = 0 /\ (\A i \in DOMAIN h.replies : h.replies[i] # "changed") =>
       IF h.replies = <<>> THEN h.absent = (s.state = "lock")
       ELSE h.replies[Len(h.replies)] = s.state

\* The list is in the window's port, or shown.
WindowFields ==
  {"open", "connected", "port", "readers", "button", "webusbCanSelect", "selecting"}
ListShown(w, list) ==
  /\ DOMAIN w = WindowFields
  /\ ~w.connected => w.port = <<>>
  /\ w.connected =>
       \/ w.port = <<list>>
       \/ w.port = <<>> /\ w.readers = DevicesShown!DisplayReaderList(RemoveFailures(list))

DevicesInv ==
  /\ attached \in SUBSET Devices
  /\ HookRight(hook, session)
  /\ listed => Shows(readers, Seen(hook))
  /\ ListShown(window, readers)

LEMMA SameSets ==
  ASSUME NEW S
  PROVE  /\ DevicesShown!IsFiniteSet(S) <=> IsFiniteSet(S)
         /\ DevicesShown!Cardinality(S) = Cardinality(S)
BY Zenon DEF DevicesShown!IsFiniteSet, IsFiniteSet, DevicesShown!Cardinality, Cardinality

LEMMA DevicesAre ==
  /\ IsFiniteSet(Devices)
  /\ \A d \in Devices : d = [name |-> d.name, interfaces |-> d.interfaces]
  /\ \A d, e \in Devices : d.name = e.name => d = e
BY ComponentsAssumption, SameSets DEF DevicesShown!DevicesAssumption

-----------------------------------------------------------------------------
\* What the server says of the devices A, of which those in W work.
ReadersOfAll(A, W) == UNION {DevicesShown!ReadersOf(d, d \in W) : d \in A}
Best(d, W) == DevicesShown!ReaderOf(d, " 00 00", IF d \in W THEN "success" ELSE "failure")
Spurious(d) == DevicesShown!ReaderOf(d, " 00", "failure")

LEMMA ReadersAre ==
  ASSUME NEW A \in SUBSET Devices, NEW W \in SUBSET A
  PROVE  /\ IsFiniteSet(ReadersOfAll(A, W))
         /\ \A d \in A : Best(d, W) \in ReadersOfAll(A, W)
         /\ \A r \in ReadersOfAll(A, W) :
              \/ \E d \in A : r = Best(d, W)
              \/ \E d \in W : r = Spurious(d)
<1>1. ASSUME NEW d \in A PROVE IsFiniteSet(DevicesShown!ReadersOf(d, d \in W))
  <2>1. ASSUME NEW a, NEW b PROVE IsFiniteSet({a}) /\ IsFiniteSet({a, b})
    <3>1. IsFiniteSet({} \cup {a})
      BY FS_EmptySet, FS_AddElement
    <3>2. {} \cup {a} = {a} /\ {a} \cup {b} = {a, b}
      OBVIOUS
    <3>3. IsFiniteSet({a} \cup {b})
      BY <3>1, <3>2, FS_AddElement
    <3> QED BY <3>1, <3>2, <3>3
  <2> DEFINE a == DevicesShown!ReaderOf(d, " 00 00", "success")
             b == DevicesShown!ReaderOf(d, " 00", "failure")
             c == DevicesShown!ReaderOf(d, " 00 00", "failure")
  <2>2. DevicesShown!ReadersOf(d, d \in W) = IF d \in W THEN {a, b} ELSE {c}
    BY DEF DevicesShown!ReadersOf
  <2> HIDE DEF a, b, c
  <2> QED BY <2>1, <2>2
<1>2. IsFiniteSet(ReadersOfAll(A, W))
  <2> DEFINE T == {DevicesShown!ReadersOf(d, d \in W) : d \in A}
             f == [d \in A |-> DevicesShown!ReadersOf(d, d \in W)]
  <2>1. IsFiniteSet(A)
    BY DevicesAre, FS_Subset
  <2>2. f \in Surjection(A, T)
    BY DEF Surjection
  <2> HIDE DEF f
  <2>3. IsFiniteSet(T)
    <3> HIDE DEF T
    <3> QED BY <2>1, <2>2, FS_Surjection
  <2>4. \A t \in T : IsFiniteSet(t)
    BY <1>1
  <2> HIDE DEF T
  <2>5. IsFiniteSet(UNION T)
    BY <2>3, <2>4, FS_UNION
  <2> QED BY <2>5 DEF T, ReadersOfAll
<1>3. ASSUME NEW d \in A
      PROVE  DevicesShown!ReadersOf(d, d \in W) =
               IF d \in W THEN {Best(d, W), Spurious(d)} ELSE {Best(d, W)}
  BY DEF DevicesShown!ReadersOf, Best, Spurious
<1>4. \A d \in A : Best(d, W) \in ReadersOfAll(A, W)
  <2> SUFFICES ASSUME NEW d \in A PROVE Best(d, W) \in ReadersOfAll(A, W)
    OBVIOUS
  <2>1. Best(d, W) \in DevicesShown!ReadersOf(d, d \in W)
    BY <1>3
  <2> QED BY <2>1 DEF ReadersOfAll
<1>5. ASSUME NEW r \in ReadersOfAll(A, W)
      PROVE  (\E d \in A : r = Best(d, W)) \/ (\E d \in W : r = Spurious(d))
  <2>1. PICK d \in A : r \in DevicesShown!ReadersOf(d, d \in W)
    BY <1>5 DEF ReadersOfAll
  <2> QED BY <1>3, <2>1
<1> QED BY <1>2, <1>4, <1>5

\* A sequence of the readers names each of them once.
LEMMA ReaderListIs ==
  ASSUME NEW R, IsFiniteSet(R)
  PROVE  LET s == DevicesShown!SetToSeq(R)
         IN \E n \in Nat : /\ s \in [1 .. n -> R]
                           /\ \A i, j \in 1 .. n : s[i] = s[j] => i = j
                           /\ \A r \in R : \E i \in 1 .. n : s[i] = r
<1> DEFINE n == Cardinality(R)
           s == CHOOSE f \in [1 .. n -> R] : \A i, j \in DOMAIN f : f[i] = f[j] => i = j
<1>1. n \in Nat /\ ExistsBijection(1 .. n, R)
  BY FS_CardinalityType
<1>2. DevicesShown!SetToSeq(R) = s
  BY SameSets DEF DevicesShown!SetToSeq, DevicesShown!IsInjective
<1> HIDE DEF n
<1>3. \E f \in [1 .. n -> R] : \A i, j \in DOMAIN f : f[i] = f[j] => i = j
  BY <1>1 DEF ExistsBijection, Bijection, Injection, IsInjective
<1>4. s \in [1 .. n -> R] /\ \A i, j \in DOMAIN s : s[i] = s[j] => i = j
  BY <1>3
<1> HIDE DEF s
<1>5. s \in Injection(1 .. n, R)
  BY <1>4 DEF Injection, IsInjective
<1>6. Cardinality(1 .. n) = n /\ Cardinality(R) = n
  BY <1>1, FS_Interval DEF n
<1>7. s \in Surjection(1 .. n, R)
  BY <1>5, <1>6, FS_Injection
<1> QED BY <1>1, <1>2, <1>4, <1>7 DEF Surjection

\* What the window shows of it: the best of each device.
LEMMA ListShows ==
  ASSUME NEW A \in SUBSET Devices, NEW W \in SUBSET A
  PROVE  Shows(DevicesShown!SetToSeq(ReadersOfAll(A, W)), A)
<1> DEFINE R == ReadersOfAll(A, W)
           s == DevicesShown!SetToSeq(R)
           good == {Named(s[i]) : i \in {j \in DOMAIN s : s[j].status # "failure"}}
           I == {i \in DOMAIN s : s[i].status # "failure" \/ Named(s[i]) \notin good}
           kept == RemoveFailures(s)
<1>1. /\ \A d \in A : Best(d, W) \in R
      /\ \A r \in R : (\E d \in A : r = Best(d, W)) \/ (\E d \in W : r = Spurious(d))
  BY ReadersAre
<1>2. PICK n \in Nat : /\ s \in [1 .. n -> R]
                       /\ \A i, j \in 1 .. n : s[i] = s[j] => i = j
                       /\ \A r \in R : \E i \in 1 .. n : s[i] = r
  BY ReadersAre, ReaderListIs
<1>3. DOMAIN s = 1 .. n /\ Len(s) = n /\ \A i \in 1 .. n : s[i] \in R
  BY <1>2
<1>4. kept = DevicesShown!Filter(s, I)
  BY DEF RemoveFailures, DevicesShown!RemoveSpuriousFailures, Named
<1> HIDE DEF R, s, kept
<1>5. ASSUME NEW d \in Devices
      PROVE  /\ Named(Best(d, W)) = DevicesShown!ShownName(d)
             /\ Named(Spurious(d)) = DevicesShown!ShownName(d)
             /\ Best(d, W).status = IF d \in W THEN "success" ELSE "failure"
             /\ Spurious(d).status = "failure"
  BY DEF Named, Best, Spurious, DevicesShown!ReaderOf, DevicesShown!MakeReaderNameForDisplaying,
         DevicesShown!ReaderNameSuffixesToRemove, DevicesShown!ShownName
<1>6. \A d, e \in Devices : DevicesShown!ShownName(d) = DevicesShown!ShownName(e) => d = e
  <2>1. \A d \in Devices : DevicesShown!ShownName(d).base = d.name
    BY DEF DevicesShown!ShownName
  <2> QED BY <2>1, DevicesAre
<1>7. ASSUME NEW d \in A
      PROVE  \E i \in I : s[i] = Best(d, W)
  <2>1. PICK i \in 1 .. n : s[i] = Best(d, W)
    BY <1>1, <1>2
  <2>2. CASE d \in W
    BY <1>3, <1>5, <2>1, <2>2
  <2>3. CASE d \notin W
    <3>1. Named(s[i]) = DevicesShown!ShownName(d)
      BY <1>5, <2>1
    <3>2. ASSUME NEW j \in DOMAIN s, s[j].status # "failure", Named(s[j]) = Named(s[i]) PROVE FALSE
      <4>1. PICK e \in A : s[j] = Best(e, W)
        <5>1. s[j] \in R
          BY <1>3
        <5> QED BY <1>1, <1>5, <3>2, <5>1
      <4>2. e \in W
        BY <1>5, <3>2, <4>1
      <4>3. DevicesShown!ShownName(e) = DevicesShown!ShownName(d)
        BY <1>5, <3>1, <3>2, <4>1
      <4> QED BY <1>6, <2>3, <4>2, <4>3
    <3> QED BY <1>3, <2>1, <3>2
  <2> QED BY <2>2, <2>3
<1>8. ASSUME NEW i \in I
      PROVE  \E d \in A : s[i] = Best(d, W)
  <2>1. s[i] \in R
    BY <1>3
  <2> SUFFICES ASSUME NEW d \in W, s[i] = Spurious(d) PROVE FALSE
    BY <1>1, <2>1
  <2>2. PICK j \in 1 .. n : s[j] = Best(d, W)
    BY <1>1, <1>2
  <2>3. s[j].status # "failure" /\ j \in DOMAIN s /\ Named(s[j]) = Named(s[i])
    BY <1>3, <1>5, <2>2
  <2>4. s[i].status = "failure"
    BY <1>5
  <2> QED BY <2>3, <2>4
<1>9. I \in SUBSET (1 .. n)
  BY <1>3
<1> HIDE DEF I
<1>10. \E f \in UNION {[1 .. m -> I] : m \in 0 .. n} : Crashes!InOrder(I, f)
  BY <1>9, OrderExists
<1> DEFINE order == CHOOSE f \in UNION {[1 .. m -> I] : m \in 0 .. n} : DevicesShown!InOrder(I, f)
<1>11. order \in UNION {[1 .. m -> I] : m \in 0 .. n} /\ DevicesShown!InOrder(I, order)
  <2>1. \A f : Crashes!InOrder(I, f) <=> DevicesShown!InOrder(I, f)
    BY DEF Crashes!InOrder, DevicesShown!InOrder
  <2> QED BY <1>10, <2>1
<1>12. kept = [a \in DOMAIN order |-> s[order[a]]]
  BY <1>3, <1>4 DEF DevicesShown!Filter
<1> HIDE DEF order
<1>13. PICK m \in 0 .. n : order \in [1 .. m -> I]
  BY <1>11
<1>14. m \in Nat /\ DOMAIN order = 1 .. m /\ DOMAIN kept = 1 .. m
       /\ \A a \in 1 .. m : order[a] \in I /\ kept[a] = s[order[a]] /\ order[a] \in 1 .. n
  <2>1. m \in Nat /\ DOMAIN order = 1 .. m /\ DOMAIN kept = DOMAIN order
    BY <1>12, <1>13
  <2>2. ASSUME NEW a \in 1 .. m PROVE order[a] \in I
    BY <1>13
  <2>3. ASSUME NEW a \in 1 .. m PROVE kept[a] = s[order[a]]
    BY <1>12, <2>1
  <2> QED BY <1>9, <2>1, <2>2, <2>3
<1>15. \A i \in I : \E a \in 1 .. m : order[a] = i
  BY <1>11, <1>14 DEF DevicesShown!InOrder
<1>16. ASSUME NEW a \in 1 .. m, NEW b \in 1 .. m, order[a] = order[b] PROVE a = b
  <2>1. \A c, e \in 1 .. m : c < e => order[c] < order[e]
    BY <1>11, <1>14 DEF DevicesShown!InOrder
  <2>2. ~(a < b)
    BY <1>9, <1>14, <1>16, <2>1
  <2>3. ~(b < a)
    BY <1>9, <1>14, <1>16, <2>1
  <2> QED BY <1>14, <2>2, <2>3
\* Each place of the list has its device.
<1> DEFINE g == [a \in 1 .. m |-> CHOOSE d \in A : kept[a] = Best(d, W)]
<1>17. ASSUME NEW a \in 1 .. m PROVE g[a] \in A /\ kept[a] = Best(g[a], W)
  <2>1. \E d \in A : kept[a] = Best(d, W)
    BY <1>8, <1>14
  <2> QED BY <2>1
<1> HIDE DEF g
<1>18. \A d \in A : \E a \in 1 .. m : g[a] = d
  <2> SUFFICES ASSUME NEW d \in A PROVE \E a \in 1 .. m : g[a] = d
    OBVIOUS
  <2>1. PICK i \in I : s[i] = Best(d, W)
    BY <1>7
  <2>2. PICK a \in 1 .. m : order[a] = i
    BY <1>15
  <2>3. Best(g[a], W) = Best(d, W) /\ g[a] \in Devices
    BY <1>14, <1>17, <2>1, <2>2
  <2>4. DevicesShown!ShownName(g[a]) = DevicesShown!ShownName(d)
    BY <1>5, <2>3
  <2> QED BY <1>6, <2>3, <2>4
<1>19. ASSUME NEW a \in 1 .. m, NEW b \in 1 .. m, g[a] = g[b] PROVE a = b
  <2>1. s[order[a]] = s[order[b]]
    BY <1>14, <1>17, <1>19
  <2>2. order[a] = order[b]
    BY <1>2, <1>14, <2>1
  <2> QED BY <1>16, <2>2
<1>20. m = Cardinality(A)
  <2>1. g \in [1 .. m -> A]
    BY <1>17 DEF g
  <2>2. g \in Bijection(1 .. m, A)
    <3>1. g \in Surjection(1 .. m, A)
      BY <1>18, <2>1 DEF Surjection
    <3>2. g \in Injection(1 .. m, A)
      BY <1>19, <2>1 DEF Injection, IsInjective
    <3> QED BY <3>1, <3>2 DEF Bijection
  <2>3. ExistsBijection(1 .. m, A)
    BY <2>2 DEF ExistsBijection
  <2>4. IsFiniteSet(1 .. m) /\ Cardinality(1 .. m) = m
    BY <1>14, FS_Interval
  <2> QED BY <2>3, <2>4, FS_Bijection
<1>21. {Named(kept[a]) : a \in DOMAIN kept} = {DevicesShown!ShownName(d) : d \in A}
  <2>1. \A a \in 1 .. m : Named(kept[a]) = DevicesShown!ShownName(g[a]) /\ g[a] \in A
    BY <1>5, <1>17
  <2>2. ASSUME NEW x \in {Named(kept[a]) : a \in DOMAIN kept}
        PROVE  x \in {DevicesShown!ShownName(d) : d \in A}
    BY <1>14, <2>1
  <2>3. ASSUME NEW d \in A PROVE DevicesShown!ShownName(d) \in {Named(kept[a]) : a \in DOMAIN kept}
    <3>1. PICK a \in 1 .. m : g[a] = d
      BY <1>18
    <3> QED BY <1>14, <2>1, <3>1
  <2> QED BY <2>2, <2>3
<1> QED BY <1>14, <1>20, <1>21 DEF Shows, kept, s, R

-----------------------------------------------------------------------------
LEMMA OneItem ==
  ASSUME NEW x
  PROVE  Append(<<>>, x) = <<x>> /\ <<x>> # <<>> /\ Head(<<x>>) = x /\ Tail(<<x>>) = <<>>
OBVIOUS

LEMMA ClosedDevices ==
  /\ DOMAIN DevicesShown!ClosedWindow = WindowFields
  /\ DevicesShown!ClosedWindow.port = <<>> /\ ~DevicesShown!ClosedWindow.connected
BY DEF DevicesShown!ClosedWindow, WindowFields

\* What does not touch the port, the list and the connection.
LEMMA StillShown ==
  ASSUME NEW w, NEW v, NEW list, ListShown(w, list), DOMAIN v = WindowFields,
         v.connected = w.connected, v.port = w.port, v.readers = w.readers
  PROVE  ListShown(v, list)
BY DEF ListShown

LEMMA UpdateIsShown ==
  ASSUME NEW w, NEW list, DOMAIN w = WindowFields, w.port = <<>>
  PROVE  ListShown(DevicesShown!OnReadersUpdated(w, list), list)
<1> DEFINE p == Append(w.port, list)
           v == [w EXCEPT !.port = p]
<1>1. DevicesShown!OnReadersUpdated(w, list) = IF w.connected THEN v ELSE w
  BY DEF DevicesShown!OnReadersUpdated
<1>2. p = <<list>>
  BY OneItem
<1> HIDE DEF p
<1>3. DOMAIN v = WindowFields /\ v.port = p /\ v.connected = w.connected
  BY DEF WindowFields
<1> HIDE DEF v
<1> QED BY <1>1, <1>2, <1>3 DEF ListShown

LEMMA DevicesStart == DevicesShown!Init => DevicesInv
<1> SUFFICES ASSUME DevicesShown!Init PROVE DevicesInv
  OBVIOUS
<1>1. HookRight(hook, session)
  <2>1. session \in SessionRecords
    BY DEF DevicesShown!Init, SessionRecords
  <2>2. hook = [absent |-> FALSE, asked |-> session.profile # "none",
                ready |-> session.profile = "none", listens |-> FALSE, replies |-> <<>>, owed |-> 0]
    BY DEF DevicesShown!Init, DevicesShown!NewHook
  <2> DEFINE a == session.profile # "none"
             b == session.profile = "none"
  <2>3. a \in BOOLEAN /\ b \in BOOLEAN /\ (b => session.profile # "user")
    OBVIOUS
  <2> HIDE DEF a, b
  <2>4. /\ hook \in HookRecords /\ ~hook.listens /\ ~hook.absent /\ hook.owed = 0
        /\ hook.replies = <<>> /\ hook.ready = b
    BY <2>2, <2>3 DEF HookRecords, a, b
  <2> QED BY <2>1, <2>3, <2>4 DEF HookRight
<1>2. ListShown(window, readers)
  BY ClosedDevices DEF DevicesShown!Init, ListShown
<1> QED BY <1>1, <1>2 DEF DevicesInv, DevicesShown!Init

LEMMA RepliesAre ==
  ASSUME NEW q \in Seq({"changed", "session", "lock"}), NEW m \in {"changed", "session", "lock"}
  PROVE  /\ Append(q, m) \in Seq({"changed", "session", "lock"}) /\ Append(q, m) # <<>>
         /\ Append(q, m)[Len(Append(q, m))] = m
         /\ \E i \in DOMAIN Append(q, m) : Append(q, m)[i] = m
<1> DEFINE S == {"changed", "session", "lock"}
           r == Append(q, m)
<1> HIDE DEF S
<1>1. q \in Seq(S) /\ m \in S
  BY DEF S
<1>2. r \in Seq(S) /\ Len(r) = Len(q) + 1 /\ r[Len(q) + 1] = m /\ Len(q) \in Nat
  BY <1>1
<1> HIDE DEF r
<1>3. r # <<>> /\ DOMAIN r = 1 .. Len(r) /\ Len(q) + 1 \in DOMAIN r
  BY <1>2
<1> QED BY <1>2, <1>3 DEF r, S

LEMMA SessionMoves ==
  ASSUME DevicesInv, DevicesShown!SessionChanges
  PROVE  DevicesInv'
<1> DEFINE q == Append(hook.replies, "changed")
           h == [hook EXCEPT !.replies = q]
           f == IF session.state = "lock" THEN "session" ELSE "lock"
           s == [session EXCEPT !.state = f]
<1>1. /\ hook \in HookRecords /\ session \in SessionRecords /\ HookRight(hook, session)
      /\ attached \in SUBSET Devices /\ ListShown(window, readers)
  BY DEF DevicesInv, HookRight
<1>2. /\ session' = s /\ hook' = (IF hook.listens THEN h ELSE hook) /\ listed' = FALSE
      /\ UNCHANGED <<attached, readers, window>>
  BY DEF DevicesShown!SessionChanges
<1>3. f \in {"session", "lock"}
  OBVIOUS
<1> HIDE DEF f
<1>4. s \in SessionRecords /\ s.profile = session.profile
  BY <1>1, <1>3 DEF SessionRecords
<1> HIDE DEF s
<1>5. hook.replies \in Seq({"changed", "session", "lock"})
  BY <1>1 DEF HookRecords
<1>6. q \in Seq({"changed", "session", "lock"}) /\ q # <<>> /\ \E i \in DOMAIN q : q[i] = "changed"
  BY <1>5, RepliesAre
<1> HIDE DEF q
<1>7. /\ h \in HookRecords /\ h.replies = q /\ h.absent = hook.absent /\ h.owed = hook.owed
      /\ h.listens = hook.listens /\ h.ready = hook.ready
  BY <1>1, <1>6 DEF HookRecords
<1> HIDE DEF h
<1>8. HookRight(hook', s)
  BY <1>1, <1>2, <1>4, <1>6, <1>7 DEF HookRight
<1>9. ListShown(window, readers)' /\ HookRight(hook, session)'
  BY <1>1, <1>2, <1>8 DEF ListShown, HookRight
<1> QED BY <1>1, <1>2, <1>9 DEF DevicesInv

LEMMA StateIsSent ==
  ASSUME DevicesInv, DevicesShown!SessionStateSent
  PROVE  DevicesInv'
<1> DEFINE m == session.state
           q == Append(hook.replies, m)
           n == hook.owed - 1
           h == [hook EXCEPT !.owed = n, !.replies = q]
<1>1. /\ hook \in HookRecords /\ session \in SessionRecords /\ HookRight(hook, session)
      /\ attached \in SUBSET Devices /\ ListShown(window, readers)
      /\ listed => Shows(readers, Seen(hook))
  BY DEF DevicesInv, HookRight
<1>2. hook' = h /\ hook.owed > 0 /\ UNCHANGED <<attached, session, readers, listed, window>>
  BY DEF DevicesShown!SessionStateSent
<1>3. hook.replies \in Seq({"changed", "session", "lock"}) /\ m \in {"changed", "session", "lock"}
      /\ hook.owed \in Nat
  BY <1>1 DEF HookRecords, SessionRecords
<1>4. q \in Seq({"changed", "session", "lock"}) /\ q # <<>> /\ q[Len(q)] = m
  BY <1>3, RepliesAre
<1>5. n \in Nat
  BY <1>2, <1>3
<1> HIDE DEF q, n
<1>6. /\ h \in HookRecords /\ h.replies = q /\ h.absent = hook.absent /\ h.listens = hook.listens
      /\ h.ready = hook.ready
  BY <1>1, <1>4, <1>5 DEF HookRecords
<1> HIDE DEF h
<1>7. hook.listens
  BY <1>1, <1>2, <1>3 DEF HookRight
<1>8. HookRight(h, session)
  BY <1>1, <1>4, <1>6, <1>7 DEF HookRight
<1>9. HookRight(hook, session)' /\ ListShown(window, readers)' /\ (listed => Shows(readers, Seen(hook)))'
  BY <1>1, <1>2, <1>6, <1>8 DEF HookRight, ListShown, Shows, Seen, RemoveFailures
<1> QED BY <1>1, <1>2, <1>9 DEF DevicesInv

LEMMA ProfileIsGot ==
  ASSUME DevicesInv, DevicesShown!OnGotProfileType
  PROVE  DevicesInv'
<1> DEFINE n == hook.owed + 1
           h == [hook EXCEPT !.asked = FALSE, !.listens = TRUE, !.owed = n]
           g == [hook EXCEPT !.asked = FALSE, !.ready = TRUE]
<1>1. /\ hook \in HookRecords /\ session \in SessionRecords /\ HookRight(hook, session)
      /\ attached \in SUBSET Devices /\ ListShown(window, readers)
      /\ listed => Shows(readers, Seen(hook))
  BY DEF DevicesInv, HookRight
<1>2. hook' = (IF session.profile = "user" THEN h ELSE g)
      /\ UNCHANGED <<attached, session, readers, listed, window>>
  BY <1>1 DEF DevicesShown!OnGotProfileType, DevicesShown!GetSessionState, HookRecords
<1>3. n \in Nat /\ n # 0
  BY <1>1 DEF HookRecords
<1> HIDE DEF n
<1>4. /\ h \in HookRecords /\ h.replies = hook.replies /\ h.absent = hook.absent /\ h.listens
      /\ h.ready = hook.ready /\ h.owed = n
      /\ g \in HookRecords /\ g.replies = hook.replies /\ g.absent = hook.absent
      /\ g.listens = hook.listens /\ g.owed = hook.owed
  BY <1>1, <1>3 DEF HookRecords
<1> HIDE DEF h, g
<1>5. HookRight(hook', session) /\ hook'.absent = hook.absent
  <2>1. CASE session.profile = "user"
    BY <1>1, <1>2, <1>3, <1>4, <2>1 DEF HookRight
  <2>2. CASE session.profile # "user"
    BY <1>1, <1>2, <1>4, <2>2 DEF HookRight
  <2> QED BY <2>1, <2>2
<1>6. HookRight(hook, session)' /\ ListShown(window, readers)' /\ (listed => Shows(readers, Seen(hook)))'
  BY <1>1, <1>2, <1>5 DEF HookRight, ListShown, Shows, Seen, RemoveFailures
<1> QED BY <1>1, <1>2, <1>6 DEF DevicesInv

LEMMA StateIsHeard ==
  ASSUME DevicesInv, DevicesShown!LoginStateHeard
  PROVE  DevicesInv'
<1> DEFINE q == hook.replies
           t == Tail(q)
           m == Head(q)
           n == hook.owed + 1
           locked == m = "lock"
           h == [hook EXCEPT !.replies = t, !.owed = n]
           g == [hook EXCEPT !.replies = t, !.absent = locked, !.ready = TRUE]
           S == {"changed", "session", "lock"}
<1>1. /\ hook \in HookRecords /\ session \in SessionRecords /\ HookRight(hook, session)
      /\ attached \in SUBSET Devices /\ ListShown(window, readers)
  BY DEF DevicesInv, HookRight
<1>2. /\ hook' = (IF m = "changed" THEN h ELSE g) /\ q # <<>> /\ listed' = FALSE
      /\ UNCHANGED <<attached, session, readers, window>>
  BY <1>1 DEF DevicesShown!LoginStateHeard, DevicesShown!OnSessionStateChanged,
              DevicesShown!OnGotSessionState, DevicesShown!GetSessionState, HookRecords
<1>3. q \in Seq(S) /\ n \in Nat /\ n # 0 /\ locked \in BOOLEAN
  BY <1>1 DEF HookRecords
<1>4. /\ t \in Seq(S) /\ m = q[1] /\ 1 \in DOMAIN q
      /\ (t = <<>> => Len(q) = 1) /\ (t # <<>> => t[Len(t)] = q[Len(q)])
      /\ \A i \in DOMAIN q : i = 1 \/ \E j \in DOMAIN t : t[j] = q[i]
  <2> HIDE DEF q, S
  <2>1. /\ t \in Seq(S) /\ Len(t) = Len(q) - 1 /\ Len(q) \in Nat \ {0} /\ m = q[1] /\ 1 \in DOMAIN q
        /\ DOMAIN t = 1 .. Len(t) /\ DOMAIN q = 1 .. Len(q)
        /\ \A k \in 1 .. Len(t) : t[k] = q[k + 1]
    BY <1>2, <1>3
  <2> HIDE DEF t, m
  <2>2. t = <<>> => Len(q) = 1
    BY <2>1
  <2>3. t # <<>> => Len(t) \in 1 .. Len(t) /\ Len(t) + 1 = Len(q)
    BY <2>1
  <2>4. ASSUME NEW i \in DOMAIN q, i # 1 PROVE i - 1 \in DOMAIN t /\ t[i - 1] = q[i]
    BY <2>1, <2>4
  <2> QED BY <2>1, <2>2, <2>3, <2>4
<1> HIDE DEF t, m, n, locked
<1>5. /\ h \in HookRecords /\ h.replies = t /\ h.listens = hook.listens /\ h.owed = n
      /\ h.ready = hook.ready /\ h.absent = hook.absent
      /\ g \in HookRecords /\ g.replies = t /\ g.listens = hook.listens /\ g.owed = hook.owed
      /\ g.absent = locked
  BY <1>1, <1>3, <1>4 DEF HookRecords
<1> HIDE DEF h, g
<1>6. hook.listens
  BY <1>1, <1>2 DEF HookRight
<1>7. CASE m = "changed"
  <2>1. HookRight(hook', session)
    BY <1>1, <1>2, <1>3, <1>5, <1>6, <1>7 DEF HookRight
  <2>2. HookRight(hook, session)' /\ ListShown(window, readers)'
    BY <1>1, <1>2, <2>1 DEF HookRight, ListShown
  <2> QED BY <1>1, <1>2, <2>2 DEF DevicesInv
<1>8. CASE m # "changed"
  <2>1. ASSUME hook.owed = 0, \A i \in DOMAIN t : t[i] # "changed"
        PROVE  IF t = <<>> THEN locked = (session.state = "lock") ELSE t[Len(t)] = session.state
    <3>1. \A i \in DOMAIN q : q[i] # "changed"
      BY <1>4, <1>8, <2>1
    <3>2. q[Len(q)] = session.state
      BY <1>1, <1>2, <1>6, <2>1, <3>1 DEF HookRight
    <3>3. t = <<>> => m = session.state
      BY <1>4, <3>2
    <3> HIDE DEF q
    <3> QED BY <1>4, <3>2, <3>3 DEF locked
  <2>2. HookRight(g, session)
    BY <1>1, <1>5, <1>6, <2>1 DEF HookRight
  <2>3. HookRight(hook, session)' /\ ListShown(window, readers)'
    BY <1>1, <1>2, <1>8, <2>2 DEF HookRight, ListShown
  <2> QED BY <1>1, <1>2, <2>3 DEF DevicesInv
<1> QED BY <1>7, <1>8

\* The server lists the devices that the hooks let it see.
LEMMA ServerTells ==
  ASSUME DevicesInv, DevicesShown!ServerLists
  PROVE  DevicesInv'
<1> DEFINE found == {d \in DevicesShown!ListDevices(hook) : DevicesShown!GetConfigurations(hook, d) # {}}
<1>1. /\ HookRight(hook, session) /\ attached \in SUBSET Devices /\ ListShown(window, readers)
  BY DEF DevicesInv
<1>2. /\ window.port = <<>> /\ listed' = TRUE /\ UNCHANGED <<attached, session, hook>>
      /\ window' = DevicesShown!OnReadersUpdated(window, readers')
  BY DEF DevicesShown!ServerLists
<1>3. PICK W \in SUBSET found : readers' = DevicesShown!SetToSeq(ReadersOfAll(found, W))
  BY DEF DevicesShown!ServerLists, ReadersOfAll
<1>4. found = Seen(hook)
  <2>1. ASSUME NEW d \in Devices
        PROVE  DevicesShown!ConvertConfiguration(d).interfaces
                 = {i \in d.interfaces : DevicesShown!IsSmartCardInterface(i)}
    <3> DEFINE x == {i \in d.interfaces : DevicesShown!IsSmartCardInterface(i)}
    <3>1. DevicesShown!ConvertConfiguration(d) = [d EXCEPT !.interfaces = x]
      BY DEF DevicesShown!ConvertConfiguration
    <3> HIDE DEF x
    <3>2. "interfaces" \in DOMAIN d
      BY DevicesAre
    <3>3. [d EXCEPT !.interfaces = x].interfaces = x
      BY <3>2
    <3> QED BY <3>1, <3>3 DEF x
  <2>2. CASE hook.absent
    BY <2>2 DEF Seen, DevicesShown!ListDevices
  <2>3. CASE ~hook.absent
    <3>1. \A d \in attached : DevicesShown!GetConfigurations(hook, d) # {} <=> HasCardInterface(d)
      BY <1>1, <2>1, <2>3 DEF DevicesShown!GetConfigurations, HasCardInterface
    <3> QED BY <2>3, <3>1 DEF Seen, DevicesShown!ListDevices
  <2> QED BY <2>2, <2>3
<1>5. found \in SUBSET Devices
  BY <1>1, <1>4 DEF Seen
<1> HIDE DEF found
<1>6. Shows(readers', found)
  BY <1>3, <1>5, ListShows
<1>7. (listed => Shows(readers, Seen(hook)))'
  <2>1. Seen(hook)' = Seen(hook)
    BY <1>2 DEF Seen
  <2> QED BY <1>4, <1>6, <2>1 DEF Shows, RemoveFailures
<1>8. ListShown(window, readers)'
  <2> DEFINE list == readers'
  <2>1. DOMAIN window = WindowFields
    BY <1>1 DEF ListShown
  <2> HIDE DEF list
  <2>2. ListShown(DevicesShown!OnReadersUpdated(window, list), list)
    BY <1>2, <2>1, UpdateIsShown
  <2> QED BY <1>2, <2>2 DEF ListShown, list
<1>9. HookRight(hook, session)'
  BY <1>1, <1>2 DEF HookRight
<1> QED BY <1>1, <1>2, <1>7, <1>8, <1>9 DEF DevicesInv

\* Only the window changes.
LEMMA WindowMoves ==
  ASSUME DevicesInv, UNCHANGED <<attached, session, hook, readers, listed>>,
         ListShown(window', readers)
  PROVE  DevicesInv'
<1>1. HookRight(hook, session)' /\ (listed => Shows(readers, Seen(hook)))' /\ ListShown(window, readers)'
  BY DEF DevicesInv, HookRight, Shows, Seen, RemoveFailures, ListShown
<1> QED BY <1>1 DEF DevicesInv

LEMMA ListArrives ==
  ASSUME DevicesInv, DevicesShown!OnReadersChanged
  PROVE  DevicesInv'
<1> DEFINE list == Head(window.port)
           filtered == RemoveFailures(list)
           x == DevicesShown!DisplayReaderList(filtered)
           b == DevicesShown!UpdateAddDeviceButtonText(Len(filtered))
           t == Tail(window.port)
           v == [window EXCEPT !.port = t, !.readers = x, !.button = b]
<1>1. window' = v /\ window.port # <<>> /\ UNCHANGED <<attached, session, hook, readers, listed>>
  BY DEF DevicesShown!OnReadersChanged, RemoveFailures
<1>2. window.connected /\ window.port = <<readers>> /\ DOMAIN window = WindowFields
  BY <1>1 DEF DevicesInv, ListShown
<1>3. list = readers /\ t = <<>>
  BY <1>2, OneItem
<1>4. x = DevicesShown!DisplayReaderList(RemoveFailures(readers))
  BY <1>3
<1> HIDE DEF x, b, t
<1>5. DOMAIN v = WindowFields /\ v.connected = window.connected /\ v.port = t /\ v.readers = x
  BY <1>2 DEF WindowFields
<1> HIDE DEF v
<1>6. ListShown(v, readers)
  BY <1>3, <1>4, <1>5 DEF ListShown
<1> QED BY <1>1, <1>6, WindowMoves

LEMMA ListIsSentFirst ==
  ASSUME DevicesInv, DevicesShown!SetUpSendingDeviceList
  PROVE  DevicesInv'
<1> DEFINE w == [window EXCEPT !.connected = TRUE]
<1>1. /\ window' = DevicesShown!OnReadersUpdated(w, readers) /\ ~window.connected
      /\ UNCHANGED <<attached, session, hook, readers, listed>>
  BY DEF DevicesShown!SetUpSendingDeviceList
<1>2. DOMAIN window = WindowFields /\ window.port = <<>>
  BY <1>1 DEF DevicesInv, ListShown
<1>3. DOMAIN w = WindowFields /\ w.port = <<>>
  BY <1>2 DEF WindowFields
<1> HIDE DEF w
<1>4. ListShown(DevicesShown!OnReadersUpdated(w, readers), readers)
  BY <1>3, UpdateIsShown
<1> QED BY <1>1, <1>4, WindowMoves

LEMMA DeviceWindowMoves ==
  ASSUME DevicesInv,
         DevicesShown!OpenWindow \/ DevicesShown!CloseWindow \/ DevicesShown!AddDeviceClick
  PROVE  DevicesInv'
<1>1. UNCHANGED <<attached, session, hook, readers, listed>>
  BY DEF DevicesShown!OpenWindow, DevicesShown!CloseWindow, DevicesShown!AddDeviceClick
<1>2. ListShown(window, readers) /\ DOMAIN window = WindowFields
  BY DEF DevicesInv, ListShown
<1>3. ASSUME NEW w, DOMAIN w = WindowFields, w.port = <<>>, ~w.connected
      PROVE  ListShown(w, readers) /\ ListShown(DevicesShown!Initialize(w), readers)
  <2> DEFINE v == [w EXCEPT !.open = TRUE]
  <2>1. DOMAIN v = WindowFields /\ v.port = w.port /\ v.connected = w.connected
    BY <1>3 DEF WindowFields
  <2> HIDE DEF v
  <2>2. ListShown(w, readers) /\ ListShown(v, readers)
    BY <1>3, <2>1 DEF ListShown
  <2> QED BY <2>2 DEF v, DevicesShown!Initialize
<1>4. CASE DevicesShown!OpenWindow
  <2>1. window' = DevicesShown!Initialize(DevicesShown!ClosedWindow)
    BY <1>4 DEF DevicesShown!OpenWindow
  <2> QED BY <1>1, <1>3, <2>1, ClosedDevices, WindowMoves
<1>5. CASE DevicesShown!CloseWindow
  <2>1. window' = DevicesShown!ClosedWindow
    BY <1>5 DEF DevicesShown!CloseWindow
  <2> QED BY <1>1, <1>3, <2>1, ClosedDevices, WindowMoves
<1>6. CASE DevicesShown!AddDeviceClick
  <2> DEFINE w == [DevicesShown!ClosedWindow EXCEPT !.webusbCanSelect = TRUE]
  <2>1. \/ window' = DevicesShown!Initialize(w)
        \/ window' = DevicesShown!OpenUsbDeviceSelectionDialog(window)
    BY <1>6 DEF DevicesShown!AddDeviceClick
  <2>2. DOMAIN w = WindowFields /\ w.port = <<>> /\ ~w.connected
    BY ClosedDevices DEF WindowFields
  <2> HIDE DEF w
  <2>3. ListShown(DevicesShown!OpenUsbDeviceSelectionDialog(window), readers)
    <3> DEFINE x == CASE DevicesShown!ShouldUseChromeUsb -> "devices"
                      [] DevicesShown!ShouldUseWebusb -> "device"
                      [] OTHER -> "nothing"
               v == [window EXCEPT !.selecting = x]
    <3>1. DevicesShown!OpenUsbDeviceSelectionDialog(window) = v
      BY DEF DevicesShown!OpenUsbDeviceSelectionDialog
    <3> HIDE DEF x
    <3>2. /\ DOMAIN v = WindowFields /\ v.port = window.port /\ v.connected = window.connected
          /\ v.readers = window.readers
      BY <1>2 DEF WindowFields
    <3> HIDE DEF v
    <3> QED BY <1>2, <3>1, <3>2, StillShown
  <2> QED BY <1>1, <1>3, <2>1, <2>2, <2>3, WindowMoves
<1> QED BY <1>4, <1>5, <1>6

LEMMA UserSelects ==
  ASSUME DevicesInv, NEW kind, NEW chosen \in SUBSET Devices,
         DevicesShown!SelectionDone(kind, chosen)
  PROVE  DevicesInv'
<1> DEFINE v == [window EXCEPT !.selecting = "nothing"]
<1>1. /\ window' = v /\ attached' = attached \cup chosen
      /\ listed' = (listed /\ attached' = attached) /\ UNCHANGED <<session, hook, readers>>
  BY DEF DevicesShown!SelectionDone
<1>2. /\ ListShown(window, readers) /\ DOMAIN window = WindowFields /\ HookRight(hook, session)
      /\ attached \in SUBSET Devices /\ (listed => Shows(readers, Seen(hook)))
  BY DEF DevicesInv, ListShown
<1>3. /\ DOMAIN v = WindowFields /\ v.port = window.port /\ v.connected = window.connected
      /\ v.readers = window.readers
  BY <1>2 DEF WindowFields
<1> HIDE DEF v
<1>4. ListShown(v, readers)
  BY <1>2, <1>3, StillShown
<1>5. ListShown(window, readers)' /\ HookRight(hook, session)'
  BY <1>1, <1>2, <1>4 DEF ListShown, HookRight
<1>6. (listed => Shows(readers, Seen(hook)))'
  <2> SUFFICES ASSUME listed' PROVE Shows(readers, Seen(hook))'
    OBVIOUS
  <2>1. listed /\ attached' = attached
    BY <1>1
  <2> QED BY <1>1, <1>2, <2>1 DEF Shows, Seen, RemoveFailures
<1>7. attached' \in SUBSET Devices
  BY <1>1, <1>2
<1> QED BY <1>5, <1>6, <1>7 DEF DevicesInv

LEMMA DevicesStep == DevicesInv /\ DevicesShown!Next => DevicesInv'
<1> SUFFICES ASSUME DevicesInv, DevicesShown!Next PROVE DevicesInv'
  OBVIOUS
<1>1. ASSUME NEW d \in Devices, DevicesShown!DeviceChanges(d) PROVE DevicesInv'
  <2>1. /\ listed' = FALSE /\ UNCHANGED <<session, hook, readers, window>>
        /\ attached' = IF d \in attached THEN attached \ {d} ELSE attached \cup {d}
    BY <1>1 DEF DevicesShown!DeviceChanges
  <2>2. attached' \in SUBSET Devices
    BY <2>1 DEF DevicesInv
  <2>3. HookRight(hook, session)' /\ ListShown(window, readers)'
    BY <2>1 DEF DevicesInv, HookRight, ListShown
  <2> QED BY <2>1, <2>2, <2>3 DEF DevicesInv
<1>2. CASE DevicesShown!SessionChanges
  BY <1>2, SessionMoves
<1>3. CASE DevicesShown!SessionStateSent
  BY <1>3, StateIsSent
<1>4. CASE DevicesShown!OnGotProfileType
  BY <1>4, ProfileIsGot
<1>5. CASE DevicesShown!LoginStateHeard
  BY <1>5, StateIsHeard
<1>6. CASE DevicesShown!ServerLists
  BY <1>6, ServerTells
<1>7. CASE DevicesShown!OpenWindow \/ DevicesShown!CloseWindow \/ DevicesShown!AddDeviceClick
  BY <1>7, DeviceWindowMoves
<1>8. CASE DevicesShown!SetUpSendingDeviceList
  BY <1>8, ListIsSentFirst
<1>9. CASE DevicesShown!OnReadersChanged
  BY <1>9, ListArrives
<1>10. DevicesShown!Selectable \in SUBSET Devices
  BY DEF DevicesShown!Selectable
<1>11. CASE DevicesShown!OnWebusbDeviceSelectionFailed
  <2>1. {} \in SUBSET Devices
    OBVIOUS
  <2> QED BY <1>11, <2>1, UserSelects DEF DevicesShown!OnWebusbDeviceSelectionFailed
<1>12. ASSUME NEW ds \in SUBSET DevicesShown!Selectable, DevicesShown!OnChromeUsbDeviceSelectionDone(ds)
       PROVE  DevicesInv'
  BY <1>10, <1>12, UserSelects DEF DevicesShown!OnChromeUsbDeviceSelectionDone
<1>13. ASSUME NEW d \in DevicesShown!Selectable, DevicesShown!OnWebusbDeviceSelected(d)
       PROVE  DevicesInv'
  <2>1. {d} \in SUBSET Devices
    BY <1>10
  <2> QED BY <1>13, <2>1, UserSelects DEF DevicesShown!OnWebusbDeviceSelected
<1> QED BY <1>1, <1>2, <1>3, <1>4, <1>5, <1>6, <1>7, <1>8, <1>9, <1>11, <1>12, <1>13
        DEF DevicesShown!Next

\* The window shows the available readers, however attaching and detaching them
\* and locking and unlocking the session meet the hook's questions.
THEOREM DevicesAreCurrent == Spec => []DevicesShown!DevicesCurrent
<1>1. Init => DevicesInv
  BY DevicesStart DEF Init
<1>2. DevicesInv /\ [Next]_vars => DevicesInv'
  <2> SUFFICES ASSUME DevicesInv, [Next]_vars PROVE DevicesInv'
    OBVIOUS
  <2>1. CASE UNCHANGED devicesVars
    <3>1. UNCHANGED <<attached, session, hook, readers, listed, window>>
      BY <2>1 DEF devicesVars
    <3>2. HookRight(hook, session)' /\ (listed => Shows(readers, Seen(hook)))' /\ ListShown(window, readers)'
      BY <3>1 DEF DevicesInv, HookRight, Shows, Seen, RemoveFailures, ListShown
    <3> QED BY <3>1, <3>2 DEF DevicesInv
  <2>2. CASE DevicesShown!Next
    BY <2>2, DevicesStep
  <2> QED BY <2>1, <2>2 DEF Next, vars
<1>3. DevicesInv => DevicesShown!DevicesCurrent
  <2> SUFFICES ASSUME DevicesInv, window.connected, window.port = <<>>, listed, hook.ready,
                      hook.replies = <<>>, hook.owed = 0
               PROVE  /\ {window.readers[i] : i \in DOMAIN window.readers}
                           = {DevicesShown!ShownName(d) : d \in DevicesShown!Available}
                      /\ Len(window.readers) = Cardinality(DevicesShown!Available)
    BY SameSets DEF DevicesShown!DevicesCurrent
  <2> DEFINE kept == RemoveFailures(readers)
             A == Seen(hook)
  <2>1. Shows(readers, A) /\ HookRight(hook, session) /\ ListShown(window, readers)
    BY DEF DevicesInv
  <2>2. window.readers = DevicesShown!DisplayReaderList(kept)
    BY <2>1, OneItem DEF ListShown
  <2>3. A = DevicesShown!Available
    <3>1. hook.absent = (session.profile = "user" /\ session.state = "lock")
      <4>1. DOMAIN hook.replies = {}
        OBVIOUS
      <4>2. CASE hook.listens
        BY <2>1, <4>1, <4>2 DEF HookRight
      <4>3. CASE ~hook.listens
        <5>1. hook.absent \in BOOLEAN
          BY <2>1 DEF HookRight, HookRecords
        <5> QED BY <2>1, <4>3, <5>1 DEF HookRight
      <4> QED BY <4>2, <4>3
    <3> QED BY <3>1 DEF Seen, HasCardInterface, DevicesShown!Available
  <2>4. PICK n \in Nat : DOMAIN kept = 1 .. n /\ n = Cardinality(A)
    BY <2>1 DEF Shows
  <2>5. {Named(kept[i]) : i \in DOMAIN kept} = {DevicesShown!ShownName(d) : d \in A}
    BY <2>1 DEF Shows
  <2> HIDE DEF kept, A
  <2>6. /\ DOMAIN window.readers = 1 .. n
        /\ \A i \in 1 .. n : window.readers[i] = Named(kept[i])
    BY <2>2, <2>4 DEF DevicesShown!DisplayReaderList, Named
  <2>7. {window.readers[i] : i \in DOMAIN window.readers} = {Named(kept[i]) : i \in DOMAIN kept}
    BY <2>4, <2>6
  <2>8. Len(window.readers) = n
    <3> DEFINE e(i) == DevicesShown!MakeReaderNameForDisplaying(kept[i].name)
    <3>1. window.readers = [i \in 1 .. n |-> e(i)]
      BY <2>2, <2>4 DEF DevicesShown!DisplayReaderList
    <3> HIDE DEF e
    <3> QED BY <2>4, <3>1
  <2> QED BY <2>3, <2>4, <2>5, <2>7, <2>8
<1> QED BY <1>1, <1>2, <1>3, PTL DEF Spec

-----------------------------------------------------------------------------
\* The window shows the devices and the applications there are, and exports the
\* logs as they were collected.
THEOREM WindowIsCurrent == Spec => []WindowCurrent
<1>1. WindowCurrent
        <=> DevicesShown!DevicesCurrent /\ AppsShown!AppsCurrent /\ Logs!ExportFaithful
  BY DEF WindowCurrent
<1> QED BY <1>1, DevicesAreCurrent, AppsAreCurrent, ExportIsFaithful, PTL
=============================================================================
