----------------------------- MODULE WindowDevices -----------------------------
(***************************************************************************)
(* The devices in the Connector's main window, and their way there: what   *)
(* the browser lists goes through the hooks of the libusb proxy (the login *)
(* state's and the smart card filter) to the PC/SC server, the server's    *)
(* readers through the background page and a port to the window.           *)
(*                                                                         *)
(* The server and its reader tracker are not in this code: they list the   *)
(* devices whenever something has changed, and tell about the readers.     *)
(***************************************************************************)
EXTENDS Naturals, Sequences, FiniteSets, SequencesExt, Arrays

CONSTANTS
  Devices,      \* a name, which the server keeps different, and the interfaces of each
  MaxChanges    \* how often devices or the session change, or the window closes

DevicesAssumption ==
  /\ MaxChanges \in Nat /\ IsFiniteSet(Devices)
  /\ \A d \in Devices : d = [name |-> d.name, interfaces |-> d.interfaces]
  /\ \A d, e \in Devices : d.name = e.name => d = e

VARIABLES
  changes,
  attached,     \* the devices the browser lists
  session,      \* the profile's type, the session's state
  platform,     \* which USB API there is, and GSC.Packaging.MODE
  hook,         \* LibusbLoginStateHook, and what chrome.loginState owes it
  readers,      \* the reader tracker's list
  listed,       \* the server has listed the devices since something changed
  window        \* the window, its port, and what it shows

vars == <<changes, attached, session, platform, hook, readers, listed, window>>

-----------------------------------------------------------------------------
\* SmartCardFilterLibusbHook: the interfaces that are left of a device's.
IsSmartCardInterface(i) ==
  \/ i.class = "smartCard"
  \/ i.class = "vendorSpecific" /\ i.extraData = 54
ConvertConfiguration(device) ==
  [device EXCEPT !.interfaces = {i \in @ : IsSmartCardInterface(i)}]

\* LibusbLoginStateHook.listDevices and getConfigurations, which await the
\* initialization.
ListDevices(h) == IF h.absent THEN {} ELSE attached
GetConfigurations(h, device) ==
  IF h.absent THEN {} ELSE ConvertConfiguration(device).interfaces

\* The names that end with " 00 00" or " 00" are shown without it.
ReaderNameSuffixesToRemove == {" 00 00", " 00"}
MakeReaderNameForDisplaying(name) ==
  IF name.suffix \in ReaderNameSuffixesToRemove THEN [name EXCEPT !.suffix = ""] ELSE name

\* removeSpuriousFailures: a failed reader is left out if one of the same name
\* has not failed.
RemoveSpuriousFailures(list) ==
  LET named(r) == MakeReaderNameForDisplaying(r.name)
      nonFailed == {named(list[i]) : i \in {j \in DOMAIN list : list[j].status # "failure"}}
  IN Filter(list, {i \in DOMAIN list : \/ list[i].status # "failure"
                                       \/ named(list[i]) \notin nonFailed})

\* The names that are shown.  The indicator with its tooltip and the error that
\* follows the name are left out: they are read from the reader's record alone.
DisplayReaderList(list) == [i \in DOMAIN list |-> MakeReaderNameForDisplaying(list[i].name)]

UpdateAddDeviceButtonText(count) == IF count = 0 THEN "addDevice" ELSE "addAnotherDevice"

\* An app has chrome.usb, an extension only navigator.usb, if anything.
Platforms ==
  {[usb |-> "chrome.usb", mode |-> "app"], [usb |-> "navigator.usb", mode |-> "app"],
   [usb |-> "navigator.usb", mode |-> "extension"], [usb |-> "none", mode |-> "extension"]}
ShouldUseChromeUsb == platform.usb = "chrome.usb"
ShouldUseWebusb == ~ShouldUseChromeUsb /\ platform.usb = "navigator.usb"

-----------------------------------------------------------------------------
ClosedWindow ==
  [open |-> FALSE, connected |-> FALSE, port |-> <<>>, readers |-> <<>>,
   button |-> "addDevice", webusbCanSelect |-> FALSE, selecting |-> "nothing"]

\* chrome.loginState is asked for the profile at once, if there is such an API.
NewHook ==
  [absent |-> FALSE, asked |-> session.profile # "none",
   ready |-> session.profile = "none", listens |-> FALSE, replies |-> <<>>, owed |-> 0]

Init ==
  /\ changes = 0
  /\ attached \in SUBSET Devices
  /\ session \in [profile : {"user", "signin", "none"}, state : {"session", "lock"}]
  /\ platform \in Platforms
  /\ hook = NewHook
  /\ readers = <<>> /\ listed = FALSE
  /\ window = ClosedWindow

\* The listener of the reader tracker sends through the window's port.
OnReadersUpdated(w, list) == IF w.connected THEN [w EXCEPT !.port = Append(@, list)] ELSE w

Change == changes < MaxChanges /\ changes' = changes + 1

-----------------------------------------------------------------------------
\* A device is attached or detached; the session is locked or unlocked, which
\* the hook is told if it listens.
DeviceChanges(d) ==
  /\ Change
  /\ attached' = IF d \in attached THEN attached \ {d} ELSE attached \cup {d}
  /\ listed' = FALSE
  /\ UNCHANGED <<session, platform, hook, readers, window>>

SessionChanges ==
  /\ Change /\ session.profile # "none"
  /\ session' = [session EXCEPT !.state = IF @ = "lock" THEN "session" ELSE "lock"]
  /\ hook' = IF hook.listens THEN [hook EXCEPT !.replies = Append(@, "changed")] ELSE hook
  /\ listed' = FALSE
  /\ UNCHANGED <<attached, platform, readers, window>>

\* getSessionState, and the browser's answer to it.
GetSessionState(h) == [h EXCEPT !.owed = @ + 1]

SessionStateSent ==
  /\ hook.owed > 0
  /\ hook' = [hook EXCEPT !.owed = @ - 1, !.replies = Append(@, session.state)]
  /\ UNCHANGED <<changes, attached, session, platform, readers, listed, window>>

\* onGotProfileType_
OnGotProfileType ==
  /\ hook.asked
  /\ hook' = IF session.profile = "user"
             THEN GetSessionState([hook EXCEPT !.asked = FALSE, !.listens = TRUE])
             ELSE [hook EXCEPT !.asked = FALSE, !.ready = TRUE]
  /\ UNCHANGED <<changes, attached, session, platform, readers, listed, window>>

\* onGotSessionState_ and onSessionStateChanged_
OnGotSessionState(h, state) == [h EXCEPT !.absent = state = "lock", !.ready = TRUE]
OnSessionStateChanged(h) == GetSessionState(h)

LoginStateHeard ==
  /\ hook.replies # <<>>
  /\ LET m == Head(hook.replies)
         rest == [hook EXCEPT !.replies = Tail(@)]
     IN hook' = IF m = "changed" THEN OnSessionStateChanged(rest)
                ELSE OnGotSessionState(rest, m)
  /\ listed' = FALSE
  /\ UNCHANGED <<changes, attached, session, platform, readers, window>>

-----------------------------------------------------------------------------
\* The server lists the devices and gets a reader for each one that has an
\* interface left, which may fail, and fail once under another name; the
\* tracker fires its listeners.  Bound: not before the window has taken the
\* last list.
ReaderOf(device, suffix, status) ==
  [name |-> [base |-> device.name, suffix |-> suffix], status |-> status]
ReadersOf(device, works) ==
  IF works
  THEN {ReaderOf(device, " 00 00", "success"), ReaderOf(device, " 00", "failure")}
  ELSE {ReaderOf(device, " 00 00", "failure")}

ServerLists ==
  /\ hook.ready /\ ~listed /\ window.port = <<>>
  /\ LET found == {d \in ListDevices(hook) : GetConfigurations(hook, d) # {}}
     IN \E working \in SUBSET found :
          readers' = SetToSeq(UNION {ReadersOf(d, d \in working) : d \in found})
  /\ listed' = TRUE
  /\ window' = OnReadersUpdated(window, readers')
  /\ UNCHANGED <<changes, attached, session, platform, hook>>

-----------------------------------------------------------------------------
\* initialize: the window's page is loaded and connects its port.
Initialize(w) == [w EXCEPT !.open = TRUE]

\* launchedListener, or the extension's icon.
OpenWindow ==
  /\ ~window.open
  /\ window' = Initialize(ClosedWindow)
  /\ UNCHANGED <<changes, attached, session, platform, hook, readers, listed>>

CloseWindow ==
  /\ window.open /\ Change
  /\ window' = ClosedWindow
  /\ UNCHANGED <<attached, session, platform, hook, readers, listed>>

\* setUpSendingDeviceList: the port is given the current list, and will be sent
\* every other.
SetUpSendingDeviceList ==
  /\ window.open /\ ~window.connected
  /\ window' = OnReadersUpdated([window EXCEPT !.connected = TRUE], readers)
  /\ UNCHANGED <<changes, attached, session, platform, hook, readers, listed>>

\* The window's port delivers a list: onReadersChanged.
OnReadersChanged ==
  /\ window.port # <<>>
  /\ LET filtered == RemoveSpuriousFailures(Head(window.port))
     IN window' = [window EXCEPT !.port = Tail(@),
                                 !.readers = DisplayReaderList(filtered),
                                 !.button = UpdateAddDeviceButtonText(Len(filtered))]
  /\ UNCHANGED <<changes, attached, session, platform, hook, readers, listed>>

-----------------------------------------------------------------------------
\* openUsbDeviceSelectionDialog
OpenUsbDeviceSelectionDialog(w) ==
  [w EXCEPT !.selecting = CASE ShouldUseChromeUsb -> "devices"
                            [] ShouldUseWebusb -> "device"
                            [] OTHER -> "nothing"]

\* addDeviceClickListener.  A popup of the extension may not ask the user: it
\* opens a window that may, which closes the popup.
AddDeviceClick ==
  /\ window.open /\ window.selecting = "nothing"
  /\ window' = IF /\ ShouldUseWebusb /\ platform.mode = "extension"
                  /\ ~window.webusbCanSelect
               THEN Initialize([ClosedWindow EXCEPT !.webusbCanSelect = TRUE])
               ELSE OpenUsbDeviceSelectionDialog(window)
  /\ UNCHANGED <<changes, attached, session, platform, hook, readers, listed>>

\* The user's choice, of devices with a smart card interface that the browser
\* will list from now on.
Selectable == {d \in Devices : \E i \in d.interfaces : i.class = "smartCard"}

SelectionDone(dialog, chosen) ==
  /\ window.selecting = dialog
  /\ attached' = attached \cup chosen
  /\ listed' = (listed /\ attached' = attached)
  /\ window' = [window EXCEPT !.selecting = "nothing"]
  /\ UNCHANGED <<changes, session, platform, hook, readers>>

OnChromeUsbDeviceSelectionDone(devices) == SelectionDone("devices", devices)
OnWebusbDeviceSelected(device) == SelectionDone("device", {device})
OnWebusbDeviceSelectionFailed == SelectionDone("device", {})

Next ==
  \/ \E d \in Devices : DeviceChanges(d)
  \/ SessionChanges \/ SessionStateSent \/ OnGotProfileType \/ LoginStateHeard
  \/ ServerLists
  \/ OpenWindow \/ CloseWindow \/ SetUpSendingDeviceList \/ OnReadersChanged
  \/ AddDeviceClick \/ OnWebusbDeviceSelectionFailed
  \/ \E ds \in SUBSET Selectable : OnChromeUsbDeviceSelectionDone(ds)
  \/ \E d \in Selectable : OnWebusbDeviceSelected(d)

Spec == Init /\ [][Next]_vars

-----------------------------------------------------------------------------
\* What is there for the user: the devices with a smart card interface, none of
\* them while the user's session is locked.
Available ==
  {d \in attached : \E i \in d.interfaces : IsSmartCardInterface(i)
                      /\ ~(session.profile = "user" /\ session.state = "lock")}
ShownName(d) == [base |-> d.name, suffix |-> ""]

\* Once everything that is on its way has arrived the open window shows each
\* available reader once, by its name, and no other: also after the session has
\* been locked or unlocked while the hook was still asking for its state.
DevicesCurrent ==
  window.connected /\ window.port = <<>>
    /\ listed /\ hook.ready /\ hook.replies = <<>> /\ hook.owed = 0 =>
      /\ {window.readers[i] : i \in DOMAIN window.readers}
           = {ShownName(d) : d \in Available}
      /\ Len(window.readers) = Cardinality(Available)
=============================================================================
