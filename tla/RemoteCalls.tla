---------------------------- MODULE RemoteCalls ----------------------------
(***************************************************************************)
(* What a client is promised of its calls, whatever lies between it and    *)
(* the module that executes them: a promise per call that is settled at    *)
(* most once, and resolved only with the result of the call's own and only *)
(* execution.  No step executes a call a second time.                      *)
(***************************************************************************)
EXTENDS Naturals

CONSTANT Calls

VARIABLES
  promise,      \* what the client sees of each call
  executed      \* how often the module has executed each call

vars == <<promise, executed>>

Init ==
  /\ promise = [c \in Calls |-> "none"]
  /\ executed = [c \in Calls |-> 0]

Post(c) ==
  /\ promise[c] = "none"
  /\ promise' = [promise EXCEPT ![c] = "pending"]
  /\ UNCHANGED executed

Execute(c) ==
  /\ promise[c] # "none" /\ executed[c] = 0
  /\ executed' = [executed EXCEPT ![c] = @ + 1]
  /\ UNCHANGED promise

Resolve(c) ==
  /\ promise[c] = "pending" /\ executed[c] = 1
  /\ promise' = [promise EXCEPT ![c] = "resolved"]
  /\ UNCHANGED executed

\* Calls fail one by one, or all at once with the channel they went through.
Reject(C) ==
  /\ \A c \in C : promise[c] \in {"none", "pending"}
  /\ promise' = [c \in Calls |-> IF c \in C THEN "rejected" ELSE promise[c]]
  /\ UNCHANGED executed

Next ==
  \/ \E c \in Calls : Post(c) \/ Execute(c) \/ Resolve(c)
  \/ \E C \in SUBSET Calls : Reject(C)

Spec == Init /\ [][Next]_vars
=============================================================================
