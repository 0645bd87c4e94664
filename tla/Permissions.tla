----------------------------- MODULE Permissions -----------------------------
(***************************************************************************)
(* Which clients may send requests: the checker that asks the              *)
(* administrator's policy first and the user afterwards, with the registry *)
(* of the policy, the stored selections and one prompt per origin          *)
(* (permissions_checking/ of the clients management).                      *)
(*                                                                         *)
(* Everything runs in the page's event loop: an action is one event, with  *)
(* all the promise callbacks it sets off.  A prompt's window is a dialog   *)
(* of PopupOpener, of which the opener learns after it was asked for.      *)
(***************************************************************************)
EXTENDS Naturals, Sequences, SequencesExt

CONSTANTS
  Connections,
  Origins,
  NullOrigin,       \* of the Connector's own pages
  NoConnection,
  MaxPolicies       \* bound: changes of the policy

PermissionsAssumption ==
  NullOrigin \notin Origins /\ NoConnection \notin Connections /\ MaxPolicies \in Nat

VARIABLES
  registry,     \* ManagedRegistry: its promise, who awaits it, what is allowed
  prompter,     \* UserPromptingChecker: what it has loaded, its promises, prompts
  check,        \* each connection's check
  dialog,       \* each origin's prompt: its window, then how it ended
  selections,   \* what local storage holds of the user's answers
  policies,     \* how often the policy has changed
  allowedOnce   \* history: whatever a policy has allowed since the start

vars == <<registry, prompter, check, dialog, selections, policies, allowedOnce>>

Pending == {"managed", "user"}
Settled == {"granted", "rejected"}
Trusted == [state : {"pending", "failed"}, autoapprove : {{}}]
           \cup [state : {"loaded"}, autoapprove : SUBSET Origins]

\* What the page starts with each time.
NewRegistry ==
  [loaded |-> "pending", waiting |-> <<>>, allowed |-> {},
   resolver |-> [o \in Origins |-> NoConnection]]
NewPrompter ==
  [trusted |-> [state |-> "pending", autoapprove |-> {}], stored |-> "pending",
   promise |-> [o \in Origins |-> "none"], pending |-> {}]
NoCheck == [origin |-> NullOrigin, state |-> "none"]

Init ==
  /\ registry = NewRegistry
  /\ prompter = NewPrompter
  /\ check = [c \in Connections |-> NoCheck]
  /\ dialog = [o \in Origins |-> "none"]
  /\ selections \in [Origins -> {"none", "allow", "deny"}]
  /\ policies = 0
  /\ allowedOnce = {}

-----------------------------------------------------------------------------
\* doCheck, from any of its awaits to the next one.
DoCheck(p, o) ==
  IF p.trusted.state = "pending" THEN "checking"
  ELSE IF o \in p.trusted.autoapprove THEN "granted"
  ELSE IF p.stored # "loaded"
  THEN IF p.stored = "pending" THEN "checking" ELSE "rejected"
  ELSE CASE selections[o] = "allow" -> "granted"
         [] selections[o] = "deny"  -> "rejected"
         [] OTHER                   -> "dialog"

\* All checks under way go on; runPromptDialog_ for those that need a prompt.
GoOn(p) ==
  LET next == [o \in Origins |->
                 IF p.promise[o] = "checking" THEN DoCheck(p, o) ELSE p.promise[o]]
      shown == {o \in Origins : p.promise[o] = "checking" /\ next[o] = "dialog"}
  IN [p EXCEPT !.promise = next, !.pending = @ \cup shown]

\* Mutant: the prompt is closed before it is forgotten.
Unprompted(p, os) == p

\* cancelUserPromptIfPending: the prompt is forgotten, then closed.
Cancelled(p, os) == [p EXCEPT !.pending = @ \ os]

\* closeModalDialog finds no window that it has not been told of.
Close(windows, os) ==
  [o \in Origins |->
     IF o \in os /\ windows[o] = "open" THEN "cancelled" ELSE windows[o]]

\* The callbacks of what an event has decided: by the policy for `allowed`, by
\* the prompter's promise of its origin for the others that ask the user.  The
\* prompt is cancelled where one is granted, and the policy not monitored where
\* one is settled.
Settle(checks, allowed, p, r) ==
  LET q == GoOn(p)
      State(c) ==
        IF c \in allowed THEN "granted"
        ELSE IF checks[c].state = "user" /\ q.promise[checks[c].origin] \in Settled
        THEN q.promise[checks[c].origin] ELSE checks[c].state
      ended == {c \in Connections : checks[c].state = "user" /\ State(c) # "user"}
      over(S) == {checks[c].origin : c \in S}
      granted == over({c \in ended : State(c) = "granted"})
  IN /\ check' = [c \in Connections |-> [checks[c] EXCEPT !.state = State(c)]]
     /\ prompter' = Cancelled(q, granted)
     /\ dialog' = Close([o \in Origins |->
                           IF q.promise[o] = "dialog" /\ p.promise[o] # "dialog"
                           THEN "creating" ELSE dialog[o]],
                        granted \cap q.pending)
     /\ registry' = [r EXCEPT !.resolver = [o \in Origins |->
                        IF o \in over(ended) THEN NoConnection ELSE @[o]]]

-----------------------------------------------------------------------------
\* UserPromptingChecker.check for some origins: a promise is reused for ever.
Checked(p, os) ==
  [p EXCEPT !.promise = [o \in Origins |->
      IF o \in os /\ @[o] = "none" THEN "checking" ELSE @[o]]]

\* checkByUserPromptingChecker_ of connection c, as far as the registry goes.
Monitored(r, c, o) == [r EXCEPT !.resolver[o] = c]

\* A new connection: check, and checkByManagedRegistry_.
Connect(c, o) ==
  /\ check[c].state \notin Pending
  /\ LET asks(state) == [check EXCEPT ![c] = [origin |-> o, state |-> state]]
     IN CASE o = NullOrigin ->
               check' = asks("granted") /\ UNCHANGED <<registry, prompter, dialog>>
          [] o # NullOrigin /\ registry.loaded = "pending" ->
               /\ check' = asks("managed")
               /\ registry' = [registry EXCEPT !.waiting = Append(@, c)]
               /\ UNCHANGED <<prompter, dialog>>
          [] o \in registry.allowed /\ registry.loaded = "resolved" ->
               check' = asks("granted") /\ UNCHANGED <<registry, prompter, dialog>>
          [] OTHER ->
               Settle(asks("user"), {}, Checked(prompter, {o}), Monitored(registry, c, o))
  /\ UNCHANGED <<selections, policies, allowedOnce>>

\* managedStorageLoadedCallback_: those that wait go on in their order, so that
\* of each origin the last one is monitored.
ManagedStorageLoaded(ok, origins) ==
  /\ registry.loaded = "pending"
  /\ LET allowed == IF ok THEN origins ELSE registry.allowed
         waiting == ToSet(registry.waiting)
         granted == {c \in waiting : ok /\ check[c].origin \in allowed}
         asking == waiting \ granted
         Latest(o) ==
           LET is == {i \in DOMAIN registry.waiting :
                        /\ registry.waiting[i] \in asking
                        /\ check[registry.waiting[i]].origin = o}
           IN IF is = {} THEN registry.resolver[o] ELSE registry.waiting[Max(is)]
     IN /\ Settle([c \in Connections |->
                     IF c \in asking THEN [check[c] EXCEPT !.state = "user"] ELSE check[c]],
                  granted,
                  Checked(prompter, {check[c].origin : c \in asking}),
                  [loaded |-> IF ok THEN "resolved" ELSE "rejected", waiting |-> <<>>,
                   allowed |-> allowed, resolver |-> [o \in Origins |-> Latest(o)]])
        /\ allowedOnce' = allowedOnce \cup allowed
  /\ UNCHANGED <<selections, policies>>

\* storageChangedListener_: a policy that cannot be read changes nothing; of
\* those whose origin is allowed now, the monitored ones are granted.
StorageChanged(ok, origins) ==
  /\ policies < MaxPolicies
  /\ policies' = policies + 1
  /\ IF ok
     THEN LET told == {o \in origins : registry.resolver[o] # NoConnection}
          IN /\ Settle(check, {registry.resolver[o] : o \in told}, prompter,
                       [registry EXCEPT !.allowed = origins])
             /\ allowedOnce' = allowedOnce \cup origins
     ELSE UNCHANGED <<registry, prompter, check, dialog, allowedOnce>>
  /\ UNCHANGED selections

\* loadConfigAndLog_ of the trusted clients, and loadLocalStorage_.
TrustedClientsLoaded(t) ==
  /\ prompter.trusted.state = "pending" /\ t.state # "pending"
  /\ Settle(check, {}, [prompter EXCEPT !.trusted = t], registry)
  /\ UNCHANGED <<selections, policies, allowedOnce>>

LocalStorageLoaded(state) ==
  /\ prompter.stored = "pending" /\ state \in {"loaded", "failed"}
  /\ Settle(check, {}, [prompter EXCEPT !.stored = state], registry)
  /\ UNCHANGED <<selections, policies, allowedOnce>>

-----------------------------------------------------------------------------
\* The opener learns of the prompt's window.
WindowCreated(o) ==
  /\ dialog[o] = "creating"
  /\ dialog' = [dialog EXCEPT ![o] = "open"]
  /\ UNCHANGED <<registry, prompter, check, selections, policies, allowedOnce>>

\* allowClickListener, denyClickListener, or the window is closed, which in an
\* extension the closing of another one may stand for.
UserAnswers(o, answer) ==
  /\ dialog[o] \in {"creating", "open"}
  /\ dialog' = [dialog EXCEPT ![o] = answer]
  /\ UNCHANGED <<registry, prompter, check, selections, policies, allowedOnce>>

\* A prompt that is not pending any more was closed since the policy allows it.
Result(o) ==
  CASE dialog[o] = "allow" -> "granted"
    [] dialog[o] = "deny"  -> "rejected"
    [] OTHER -> IF o \in prompter.pending THEN "rejected" ELSE "granted"

\* The rest of runPromptDialog_, when the dialog's promise is settled, with
\* storeUserApproval_.
PromptEnds(o) ==
  /\ prompter.promise[o] = "dialog"
  /\ dialog[o] \in {"allow", "deny", "closed", "cancelled"}
  /\ LET result == Result(o)
     IN /\ Settle(check, {},
                  [prompter EXCEPT !.promise[o] = result,
                                   !.pending = IF result = "rejected" THEN @ \ {o} ELSE @],
                  registry)
        /\ selections' = IF dialog[o] = "allow"
                         THEN [selections EXCEPT ![o] = "allow"] ELSE selections
  /\ UNCHANGED <<policies, allowedOnce>>

\* The page starts anew: only local storage is left.
Restart ==
  /\ registry' = NewRegistry
  /\ prompter' = NewPrompter
  /\ check' = [c \in Connections |-> NoCheck]
  /\ dialog' = [o \in Origins |-> "none"]
  /\ allowedOnce' = {}
  /\ UNCHANGED <<selections, policies>>

Loads ==
  \/ \E ok \in BOOLEAN, origins \in SUBSET Origins : ManagedStorageLoaded(ok, origins)
  \/ \E t \in Trusted : TrustedClientsLoaded(t)
  \/ \E state \in {"loaded", "failed"} : LocalStorageLoaded(state)

PromptStep(o) ==
  \/ \E answer \in {"allow", "deny", "closed"} : UserAnswers(o, answer)
  \/ PromptEnds(o)

Next ==
  \/ \E c \in Connections, o \in Origins \cup {NullOrigin} : Connect(c, o)
  \/ \E ok \in BOOLEAN, origins \in SUBSET Origins : StorageChanged(ok, origins)
  \/ Loads
  \/ \E o \in Origins : WindowCreated(o) \/ PromptStep(o)
  \/ Restart

Fairness == WF_vars(Loads) /\ \A o \in Origins : WF_vars(PromptStep(o))

Spec == Init /\ [][Next]_vars /\ Fairness

-----------------------------------------------------------------------------
\* A client is granted what the policy has allowed while the page runs, what
\* is approved without asking, or what the user has allowed; and refused what
\* the user refuses or storage cannot tell, but never because its prompt was
\* closed when the policy allowed it.
SettledForReason ==
  \A c \in Connections :
    LET o == check[c].origin IN
    o # NullOrigin =>
      /\ check[c].state = "granted" =>
           o \in allowedOnce \cup prompter.trusted.autoapprove \/ selections[o] = "allow"
      /\ check[c].state = "rejected" =>
           dialog[o] \in {"deny", "closed"} \/ selections[o] = "deny" \/ prompter.stored = "failed"

\* Every check ends, if storage answers and the user does.
ChecksEnd ==
  \A c \in Connections : check[c].state \in Pending ~> check[c].state \notin Pending

\* policy-or-prompting-permissions-checker.js:52: whoever is granted the
\* permission is allowed by the policy now, approved without asking, or allowed
\* by the user.
CriteriaHold ==
  [][\A c \in Connections :
       LET o == check[c].origin' IN
       check[c].state # "granted" /\ check'[c].state = "granted" /\ o # NullOrigin =>
         o \in registry'.allowed \cup prompter'.trusted.autoapprove
         \/ selections'[o] = "allow"]_vars
=============================================================================
