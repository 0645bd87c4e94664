--------------------------- MODULE TransferService ---------------------------
(***************************************************************************)
(* What the libusb web port promises the callers of libusb_submit_transfer *)
(* and libusb_cancel_transfer, without threads, locks or queues: every     *)
(* submitted transfer gets exactly one outcome, an accepted cancellation   *)
(* is final, a timeout is never reported early, and the data of an input   *)
(* transfer is one answer of the browser to a request for the same         *)
(* destination that nobody else was given.                                 *)
(***************************************************************************)
EXTENDS Naturals

CONSTANTS
  Transfer,     \* the transfer objects, each submitted at most once
  NoTransfer,   \* not a transfer
  Dest,         \* the transfer destinations (device, endpoint)
  InputDest,    \* the destinations of input direction
  DestOf,       \* the destination of each transfer
  Timeout,      \* the timeout of each transfer, 0 for none
  Forever       \* a time that never comes

VARIABLES
  now,          \* the steady clock
  deadline,     \* [Transfer -> time], meaningful once submitted
  submitted,    \* the transfers handed to the service
  accepted,     \* the transfers whose cancellation was accepted
  status,       \* [Transfer -> outcome reported to the caller]
  answeredBy    \* [Transfer -> the transfer whose JS call gave the data]

vars == <<now, deadline, submitted, accepted, status, answeredBy>>

Init ==
  /\ now = 0
  /\ deadline = [x \in Transfer |-> 0]
  /\ submitted = {}
  /\ accepted = {}
  /\ status = [x \in Transfer |-> "none"]
  /\ answeredBy = [x \in Transfer |-> NoTransfer]

Tick ==
  /\ now' = now + 1
  /\ UNCHANGED <<deadline, submitted, accepted, status, answeredBy>>

Submit(x) ==
  /\ x \notin submitted
  /\ submitted' = submitted \union {x}
  /\ deadline' = [deadline EXCEPT ![x] =
                    IF Timeout[x] = 0 THEN Forever ELSE now + Timeout[x]]
  /\ UNCHANGED <<now, accepted, status, answeredBy>>

Pending(x) == x \in submitted /\ status[x] = "none"

\* Only input transfers can be cancelled, and only once.
AcceptCancel(x) ==
  /\ Pending(x)
  /\ DestOf[x] \in InputDest
  /\ x \notin accepted
  /\ accepted' = accepted \union {x}
  /\ UNCHANGED <<now, deadline, submitted, status, answeredBy>>

Report(x, outcome, call) ==
  /\ Pending(x)
  /\ status' = [status EXCEPT ![x] = outcome]
  /\ answeredBy' = [answeredBy EXCEPT ![x] = call]
  /\ UNCHANGED <<now, deadline, submitted, accepted>>

Cancelled(x) == x \in accepted /\ Report(x, "cancelled", NoTransfer)

TimedOut(x) ==
  /\ x \notin accepted
  /\ Timeout[x] > 0 /\ now >= deadline[x]
  /\ Report(x, "timed_out", NoTransfer)

\* An output transfer is answered by its own call; input transfers of one
\* destination are interchangeable, but an answer is used once.
Answered(x, call) ==
  /\ x \notin accepted
  /\ call \in submitted
  /\ DestOf[call] = DestOf[x]
  /\ DestOf[x] \notin InputDest => call = x
  /\ \A y \in Transfer : answeredBy[y] # call
  /\ Report(x, "answered", call)

Next ==
  \/ Tick
  \/ \E x \in Transfer :
       \/ Submit(x) \/ AcceptCancel(x) \/ Cancelled(x) \/ TimedOut(x)
       \/ \E call \in Transfer : Answered(x, call)

Spec == Init /\ [][Next]_vars
=============================================================================
