--------------------------- MODULE UnloadPreventing ---------------------------
(***************************************************************************)
(* background-page-unload-preventing.js and its iframe: an app's           *)
(* background page, which the browser would unload when it is idle, keeps  *)
(* a port to an iframe of its own open.  Either end of the port fails if   *)
(* the port is disconnected or used, and a failed page reloads the app.    *)
(***************************************************************************)
EXTENDS Naturals

VARIABLES
  enabled,      \* whether enable has been called
  iframes,      \* how many iframes have been created
  port,         \* the iframe's port: "none", "open", "cut"
  background    \* the background page: "running", "failed", "unloaded"

vars == <<enabled, iframes, port, background>>

Init ==
  /\ enabled = FALSE /\ iframes = 0
  /\ port = "none" /\ background = "running"

\* createIFrameElement: its script will open the port.
CreateIFrameElement == iframes' = iframes + 1

\* enable: a second call is ignored.
Enable ==
  /\ background = "running"
  /\ enabled' = TRUE
  /\ IF enabled THEN UNCHANGED iframes ELSE CreateIFrameElement
  /\ UNCHANGED <<port, background>>

\* The iframe's script connects; connectListener ignores other ports.
ConnectListener ==
  /\ background = "running" /\ enabled
  /\ iframes > 0 /\ port = "none"
  /\ port' = "open"
  /\ UNCHANGED <<enabled, iframes, background>>

\* The iframe goes away, or something is posted through the port: a failure.
PortDisconnected ==
  /\ background = "running" /\ port = "open"
  /\ port' = "cut" /\ background' = "failed"
  /\ UNCHANGED <<enabled, iframes>>

\* The browser unloads an idle page that has no open port, with onSuspend; a
\* failed page is reloaded, with a new iframe.
Unload ==
  /\ background = "running" /\ port # "open"
  /\ background' = "unloaded"
  /\ UNCHANGED <<enabled, iframes, port>>

Reload ==
  /\ background \in {"failed", "unloaded"}
  /\ enabled' = FALSE /\ iframes' = 0
  /\ port' = "none" /\ background' = "running"

Next ==
  \/ Enable \/ ConnectListener \/ PortDisconnected \/ Unload \/ Reload

Spec == Init /\ [][Next]_vars

-----------------------------------------------------------------------------
\* A running page has one iframe at most, and one that has heard of its iframe's
\* port keeps it open until it fails: it is not unloaded while the port is.
KeptLoaded ==
  /\ iframes <= 1
  /\ port = "open" => background = "running" /\ enabled
  /\ port = "cut" => background = "failed"
=============================================================================
