------------------------------- MODULE Dialogs -------------------------------
(***************************************************************************)
(* Modal dialogs in popup windows: popup-opener.js in the background page, *)
(* in-popup-main-script.js in each popup, and their use for asking for the *)
(* PIN (pin-dialog-server.js, built-in-pin-dialog-backend.js and the       *)
(* dialogs' own scripts).  A popup connects a port named after its dialog  *)
(* back to the opener, posts the result and closes its window.             *)
(*                                                                         *)
(* The windows belong to the browser: the opener learns of a window's      *)
(* identifier only after a while, all pages of an extension hear of every  *)
(* window that is closed, and a page that goes away cuts its port.         *)
(***************************************************************************)
EXTENDS Naturals, Sequences

CONSTANTS
  MaxDialogs,
  WindowIds,            \* the `id` option; NoWindowId: it is not given
  NoWindowId

DialogsAssumption == MaxDialogs \in Nat /\ NoWindowId \notin WindowIds

Ids == 1 .. MaxDialogs  \* popup ids; a popup's window has the same number here

VARIABLES
  mode,         \* GSC.Packaging.MODE: "app" or "extension"
  lastUsedPopupId,
  dialog,       \* the opener's and the popup's part of each dialog
  windowIdMap   \* the window last created for each `id` option

vars == <<mode, lastUsedPopupId, dialog, windowIdMap>>

Unused ==
  [id |-> NoWindowId, result |-> "none", value |-> 0, awaits |-> "nothing",
   window |-> "none", told |-> FALSE, port |-> <<>>, user |-> "nothing",
   answer |-> "none"]
Value(v) == [type |-> "value", value |-> v]
Event(type) == [type |-> type, value |-> 0]

Init ==
  /\ mode \in {"app", "extension"}
  /\ lastUsedPopupId = 0
  /\ dialog = [d \in Ids |-> Unused]
  /\ windowIdMap = [id \in WindowIds \cup {NoWindowId} |-> 0]

Exists(w) == dialog[w].window \in {"open", "shown", "closing"}

-----------------------------------------------------------------------------
\* waitForPopupResult, up to its first await.
WaitForPopupResult(d) == [d EXCEPT !.result = "pending", !.awaits = "port"]

\* createWindow: the browser is asked for the window, and the opener goes on.
CreateWindow(d, id) == [d EXCEPT !.id = id, !.window = "open"]

\* runModalDialog, for a permission, whose window has an id, or for the PIN.
RunModalDialog(id) ==
  /\ lastUsedPopupId < MaxDialogs
  /\ mode = "app" /\ id # NoWindowId => ~\E w \in Ids : dialog[w].id = id /\ Exists(w)
  /\ lastUsedPopupId' = lastUsedPopupId + 1
  /\ dialog' = [dialog EXCEPT ![lastUsedPopupId + 1] =
                  CreateWindow(WaitForPopupResult(@), id)]
  /\ UNCHANGED <<mode, windowIdMap>>

\* requestPin, and handleRequest for the module's request.
RequestPin == RunModalDialog(NoWindowId)

\* The callback of the window's creation: an app injects the popup's data, an
\* extension, which has passed them in the URL, learns of the window's id.
CreateWindowCallback(d) ==
  /\ dialog[d].window # "none" /\ ~dialog[d].told
  /\ dialog' = [dialog EXCEPT ![d].told = TRUE]
  /\ windowIdMap' = IF mode = "extension"
                    THEN [windowIdMap EXCEPT ![dialog[d].id] = d] ELSE windowIdMap
  /\ UNCHANGED <<mode, lastUsedPopupId>>

-----------------------------------------------------------------------------
\* getData: the popup's data, its popup id among them, are there.
GetData(d) == mode = "extension" \/ dialog[d].told

\* prepareAndShowAsModalDialog: the listeners are set up, the window is shown.
PrepareAndShow(d) == [d EXCEPT !.window = "shown"]

\* openChannelToPopupOpener, when the popup's script is loaded.
OpenChannelToPopupOpener(d) ==
  /\ dialog[d].window = "open" /\ GetData(d)
  /\ dialog' = [dialog EXCEPT ![d] = PrepareAndShow([@ EXCEPT !.port = <<Event("connect")>>])]
  /\ UNCHANGED <<mode, lastUsedPopupId, windowIdMap>>

\* closeWindow: the page lives on for a moment.
CloseWindow(d) == [d EXCEPT !.window = "closing"]

ResolveModalDialog(d, v) == CloseWindow([d EXCEPT !.port = Append(@, Value(v))])
RejectModalDialog(d) == CloseWindow([d EXCEPT !.port = Append(@, Event("error"))])

\* The user's PIN, which is the dialog's number here, and okClickListener; or
\* cancelClickListener, or the escape key.
OkClick(d) ==
  /\ dialog[d].window = "shown"
  /\ dialog' = [dialog EXCEPT ![d] = ResolveModalDialog([@ EXCEPT !.user = "entered"], d)]
  /\ UNCHANGED <<mode, lastUsedPopupId, windowIdMap>>

CancelClick(d) ==
  /\ dialog[d].window = "shown"
  /\ dialog' = [dialog EXCEPT ![d] = RejectModalDialog([@ EXCEPT !.user = "cancelled"])]
  /\ UNCHANGED <<mode, lastUsedPopupId, windowIdMap>>

EscapeKey(d) ==
  /\ dialog[d].window = "shown"
  /\ dialog' = [dialog EXCEPT ![d] = CloseWindow([@ EXCEPT !.user = "cancelled"])]
  /\ UNCHANGED <<mode, lastUsedPopupId, windowIdMap>>

-----------------------------------------------------------------------------
\* windowCloseDialogRejectionListener of a popup that is still there; what a
\* closing one posts comes after its result and changes nothing.
Rejection(d) == IF d.window = "shown" THEN RejectModalDialog(d) ELSE d

\* setupRejectionOnWindowClose: an app's popup hears of its own window, an
\* extension's of any, whichever it is; the port of a page that goes is cut.
\* The page of the window itself may or may not hear of it in time.
WindowRemoved(dialogs, w, hears) ==
  [d \in Ids |->
     IF d = w
     THEN LET last == IF hears THEN Rejection(dialogs[d]) ELSE dialogs[d]
          IN [last EXCEPT !.window = "closed",
                          !.port = IF dialogs[d].window = "open" THEN <<>>
                                   ELSE Append(@, Event("gone"))]
     ELSE IF mode = "extension" THEN Rejection(dialogs[d]) ELSE dialogs[d]]

\* The opener's own listener deletes by the browser's window id what the map
\* holds by the option, and so nothing.
ObserveWindowRemoval == UNCHANGED windowIdMap

\* History: window w is closed by the user, or for the opener.
Cancelled(w) == [dialog EXCEPT ![w].user = IF @ = "nothing" THEN "cancelled" ELSE @]

\* The browser closes the window after closeWindow, or since the user does.
WindowCloses(w) ==
  /\ Exists(w)
  /\ \E hears \in BOOLEAN :
       dialog' = WindowRemoved(
         IF dialog[w].window = "closing" THEN dialog ELSE Cancelled(w), w, hears)
  /\ ObserveWindowRemoval
  /\ UNCHANGED <<mode, lastUsedPopupId>>

\* Some other window of the browser is closed.
OtherWindowCloses ==
  /\ mode = "extension"
  /\ dialog' = [d \in Ids |-> Rejection(dialog[d])]
  /\ ObserveWindowRemoval
  /\ UNCHANGED <<mode, lastUsedPopupId>>

\* closeModalDialog, for a prompt that is not needed any more.  The window that
\* the map still holds may have gone, which only the returned promise tells.
CloseModalDialog(id) ==
  /\ id # NoWindowId /\ lastUsedPopupId > 0
  /\ LET ws == IF mode = "app" THEN {w \in Ids : dialog[w].id = id}
               ELSE {windowIdMap[id]} \ {0}
         gone == {w \in ws : Exists(w)}
     IN /\ windowIdMap' = IF mode = "extension" THEN [windowIdMap EXCEPT ![id] = 0]
                          ELSE windowIdMap
        /\ IF gone = {} THEN UNCHANGED dialog
           ELSE \E w \in gone, hears \in BOOLEAN :
                  dialog' = WindowRemoved(Cancelled(w), w, hears)
  /\ UNCHANGED <<mode, lastUsedPopupId>>

-----------------------------------------------------------------------------
\* Mutant: a waiter takes any port.
OnConnectAny(d, p) ==
  IF dialog[d].awaits = "port" THEN [dialog[d] EXCEPT !.awaits = "message"] ELSE dialog[d]

\* PortMessageChannelWaiter.onConnect_: a waiter takes the port of its name.
OnConnect(d, p) ==
  IF dialog[d].awaits = "port" /\ d = p
  THEN [dialog[d] EXCEPT !.awaits = "message"] ELSE dialog[d]

\* A dialog's first result settles its promise: MessageWaiter.wait.
Settle(d, result, value) ==
  IF d.awaits = "message"
  THEN [d EXCEPT !.awaits = "nothing", !.result = result, !.value = value]
  ELSE d

\* An event of popup p's port in the background page.
PortEvent(p) ==
  /\ dialog[p].port # <<>>
  /\ LET m == Head(dialog[p].port)
         heard == CASE m.type = "connect" -> [d \in Ids |-> OnConnect(d, p)]
                    [] m.type = "value" -> [dialog EXCEPT ![p] = Settle(@, "resolved", m.value)]
                    [] OTHER -> [dialog EXCEPT ![p] = Settle(@, "rejected", 0)]
     IN dialog' = [heard EXCEPT ![p].port = Tail(@)]
  /\ UNCHANGED <<mode, lastUsedPopupId, windowIdMap>>

\* The backend's listeners of the PIN's promise answer the module.
PinResponse(d) ==
  /\ dialog[d].result \in {"resolved", "rejected"} /\ dialog[d].answer = "none"
  /\ dialog' = [dialog EXCEPT ![d].answer = dialog[d].result]
  /\ UNCHANGED <<mode, lastUsedPopupId, windowIdMap>>

Next ==
  \/ \E id \in WindowIds : RunModalDialog(id) \/ CloseModalDialog(id)
  \/ RequestPin
  \/ \E d \in Ids :
       \/ CreateWindowCallback(d) \/ OpenChannelToPopupOpener(d)
       \/ OkClick(d) \/ CancelClick(d) \/ EscapeKey(d)
       \/ WindowCloses(d) \/ PortEvent(d) \/ PinResponse(d)
  \/ OtherWindowCloses

Spec == Init /\ [][Next]_vars

-----------------------------------------------------------------------------
\* A dialog that is resolved is resolved with what the user entered into that
\* dialog, however many are open, and none whose popup has connected and gone is
\* left without a result.
AnswerIsOwn ==
  \A d \in Ids :
    /\ dialog[d].result = "resolved" =>
         dialog[d].user = "entered" /\ dialog[d].value = d
    /\ dialog[d].awaits = "message" /\ dialog[d].port = <<>> =>
         dialog[d].window \in {"shown", "closing"}

\* in-popup-main-script.js:173: a dialog is rejected when it is closed by the
\* user, or cancelled; not while it stands open.
RejectedByUser ==
  \A d \in Ids : dialog[d].result = "rejected" => dialog[d].user # "nothing"
=============================================================================
