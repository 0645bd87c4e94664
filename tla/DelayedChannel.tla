--------------------------- MODULE DelayedChannel ---------------------------
(***************************************************************************)
(* delayed-message-channel.js: the channel to the executable module that   *)
(* its users may send through before the module is there.  A channel is a  *)
(* record; `passed` is what has been handed to the underlying channel.     *)
(***************************************************************************)
EXTENDS Sequences

NewDelayed ==
  [disposed |-> FALSE, linked |-> FALSE, ready |-> FALSE,
   pending |-> <<>>, passed |-> <<>>]

\* setUnderlyingChannel: also what comes from the module is delivered from
\* now on.
SetUnderlyingChannel(d) == IF d.disposed THEN d ELSE [d EXCEPT !.linked = TRUE]

\* Mutant: the pending messages are forgotten.
SetReadyForgetting(d) ==
  IF d.disposed THEN d ELSE [d EXCEPT !.ready = TRUE, !.pending = <<>>]

\* setReady: the pending messages go first, and whatever is sent while they
\* go queues up behind them.
SetReady(d) ==
  IF d.disposed THEN d
  ELSE [d EXCEPT !.ready = TRUE, !.passed = @ \o d.pending, !.pending = <<>>]

\* send: a disposed channel swallows the message.
DelayedSend(d, msgs) ==
  CASE d.disposed -> d
    [] ~d.disposed /\ (~d.ready \/ d.pending # <<>>) -> [d EXCEPT !.pending = @ \o msgs]
    [] OTHER -> [d EXCEPT !.passed = @ \o msgs]

\* disposeInternal: what was pending is lost.
DisposeDelayed(d) ==
  [d EXCEPT !.disposed = TRUE, !.linked = FALSE, !.pending = <<>>]
=============================================================================
