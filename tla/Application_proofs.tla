------------------------- MODULE Application_proofs --------------------------
(***************************************************************************)
(* The permission checks, the dialogs and the sockets, as parts of         *)
(* MCApplication, for any number of connections, origins, dialogs and      *)
(* sessions.                                                               *)
(*                                                                         *)
(* Permissions.  A check ends with the promise of its origin's prompt, or  *)
(* with what the registry says when it loads or changes.  The invariant    *)
(* says why each promise may be what it is (PromiseRight), and that who is *)
(* asked on behalf of a connection still is (CheckRight, MonitoredRight).  *)
(*                                                                         *)
(* Dialogs.  DialogRight relates a dialog's window, what its user did,     *)
(* what is in its port and how its promise was settled.                    *)
(*                                                                         *)
(* Sockets.  Both ends count: what an end has received and what lies in    *)
(* its file is all that the other one has written, which is known from the *)
(* request it is at and how far it is with it (Wrote, Took).  So the       *)
(* contents of a file are determined, though a thread knows nothing of the *)
(* other one's state.                                                      *)
(***************************************************************************)
EXTENDS MCApplication, WellFoundedInduction, TLAPS

-----------------------------------------------------------------------------
\* Every nonempty set of numbers has a least one; every nonempty set of indices
\* of a sequence a greatest one.
LEMMA LeastNumber ==
  ASSUME NEW T \in SUBSET Nat, T # {}
  PROVE  \E x \in T : \A y \in T : x <= y
<1>1. IsWellFoundedOn(OpToRel(<, Nat), Nat)
  BY NatLessThanWellFounded
<1>2. PICK x \in T : \A y \in T : ~(<<y, x>> \in OpToRel(<, Nat))
  BY <1>1, WFMin, Zenon
<1>3. \A y \in T : ~(y < x)
  BY <1>2 DEF OpToRel
<1> QED BY <1>3

\* What is left of a sequence without its first element.
LEMMA TailIs ==
  ASSUME NEW S, NEW s \in Seq(S), s # <<>>
  PROVE  /\ Head(s) \in S /\ s[1] = Head(s) /\ 1 \in DOMAIN s
         /\ Tail(s) \in Seq(S) /\ Len(s) \in Nat /\ Len(Tail(s)) = Len(s) - 1
         /\ \A i \in DOMAIN Tail(s) : i + 1 \in DOMAIN s /\ Tail(s)[i] = s[i + 1]
         /\ Tail(s) # <<>> => Tail(s)[Len(Tail(s))] = s[Len(s)]
         /\ Tail(s) = <<>> => Head(s) = s[Len(s)]
<1>1. Len(s) \in Nat /\ Len(s) # 0 /\ DOMAIN s = 1 .. Len(s)
  OBVIOUS
<1>2. /\ Tail(s) \in Seq(S) /\ Len(Tail(s)) = Len(s) - 1
      /\ \A i \in 1 .. Len(s) - 1 : Tail(s)[i] = s[i + 1]
      /\ DOMAIN Tail(s) = 1 .. Len(s) - 1
  BY <1>1
<1>3. Head(s) = s[1] /\ 1 \in DOMAIN s /\ s[1] \in S
  BY <1>1
<1>6. \A t \in Seq(S) : Len(t) = 0 => t = <<>>
  OBVIOUS
<1>4. Tail(s) # <<>> => Len(s) - 1 \in 1 .. Len(s) - 1
  <2> SUFFICES ASSUME Tail(s) # <<>> PROVE Len(s) - 1 # 0
    BY <1>1
  <2> QED BY <1>2, <1>6
<1>5. Tail(s) = <<>> => Len(s) = 1
  <2> SUFFICES ASSUME Tail(s) = <<>> PROVE Len(s) = 1
    OBVIOUS
  <2>3. Len(<<>>) = 0
    OBVIOUS
  <2>1. Len(Tail(s)) = 0
    BY <2>3, Zenon
  <2>2. \A n \in Nat : n - 1 = 0 => n = 1
    OBVIOUS
  <2> QED BY <1>1, <1>2, <2>1, <2>2
<1> QED BY <1>1, <1>2, <1>3, <1>4, <1>5

LEMMA GreatestIndex ==
  ASSUME NEW n \in Nat, NEW T \in SUBSET (1 .. n), T # {}
  PROVE  Permitting!Max(T) \in T
<1> DEFINE D == {n - i : i \in T}
<1>1. D \in SUBSET Nat /\ D # {}
  <2>1. \A i \in T : n - i \in Nat
    OBVIOUS
  <2> QED BY <2>1
<1>2. PICK x \in D : \A y \in D : x <= y
  BY <1>1, LeastNumber
<1>3. PICK i \in T : x = n - i
  BY <1>2
<1>4. \A j \in T : i >= j
  <2> TAKE j \in T
  <2>1. n - i <= n - j
    BY <1>2, <1>3
  <2> QED BY <2>1
<1> QED BY <1>3, <1>4 DEF Permitting!Max

-----------------------------------------------------------------------------
\* Permissions.
PromptStates == {"none", "creating", "open", "allow", "deny", "closed", "cancelled"}
Prompter ==
  [trusted : Permitting!Trusted, stored : {"pending", "loaded", "failed"},
   promise : [ClientOrigins -> {"none", "checking", "dialog", "granted", "rejected"}],
   pending : SUBSET ClientOrigins]
Registry ==
  [loaded : {"pending", "resolved", "rejected"}, waiting : Seq(Connections),
   allowed : SUBSET ClientOrigins,
   resolver : [ClientOrigins -> Connections \cup {NoConnection}]]
Check ==
  [origin : ClientOrigins \cup {NullOrigin},
   state : {"none", "managed", "user", "granted", "rejected"}]

PermissionsTypes ==
  /\ registry \in Registry /\ prompter \in Prompter
  /\ check \in [Connections -> Check]
  /\ prompt \in [ClientOrigins -> PromptStates]
  /\ selections \in [ClientOrigins -> {"none", "allow", "deny"}]
  /\ allowedOnce \subseteq ClientOrigins

\* Why origin o may be granted, and why it may be refused.
MayGrant(o, p, sel, once) == o \in once \cup p.trusted.autoapprove \/ sel[o] = "allow"
MayRefuse(o, p, sel, prompts) ==
  prompts[o] \in {"deny", "closed"} \/ sel[o] = "deny" \/ p.stored = "failed"

\* What an origin's promise is settled with has its reason; the prompt is there
\* from when the promise waits for it; one that is forgotten was forgotten since
\* the origin may be granted, and one that was cancelled is forgotten.
PromiseRight(o, p, prompts, sel, once) ==
  /\ p.promise[o] = "granted" => MayGrant(o, p, sel, once)
  /\ p.promise[o] = "rejected" => MayRefuse(o, p, sel, prompts)
  /\ p.promise[o] \in {"none", "checking"} => prompts[o] = "none"
  /\ p.promise[o] \in Permitting!Settled => prompts[o] \notin {"creating", "open"}
  /\ p.promise[o] = "dialog" /\ o \notin p.pending => MayGrant(o, p, sel, once)
  /\ prompts[o] = "cancelled" => o \notin p.pending

\* A connection is granted for a reason, and refused by its origin's promise.
CheckRight(c, checks, p, sel, once) ==
  LET o == checks[c].origin IN
  o # NullOrigin =>
    /\ checks[c].state = "granted" => MayGrant(o, p, sel, once)
    /\ checks[c].state = "rejected" => p.promise[o] = "rejected"

\* The connection that the policy is monitored for asks the user.
MonitoredRight(o, checks, r) ==
  r.resolver[o] # NoConnection =>
    /\ r.resolver[o] \in Connections
    /\ checks[r.resolver[o]].origin = o /\ checks[r.resolver[o]].state = "user"

\* Who waits or asks is a client; who waits for the policy has not yet asked.
AskingRight(checks, r) ==
  /\ \A c \in Connections : checks[c].state \in {"managed", "user"} => checks[c].origin # NullOrigin
  /\ \A i \in DOMAIN r.waiting : checks[r.waiting[i]].state = "managed"

PermissionsRight ==
  /\ \A o \in ClientOrigins : PromiseRight(o, prompter, prompt, selections, allowedOnce)
  /\ \A c \in Connections : CheckRight(c, check, prompter, selections, allowedOnce)
  /\ \A o \in ClientOrigins : MonitoredRight(o, check, registry)
  /\ AskingRight(check, registry)
  /\ registry.allowed \subseteq allowedOnce

PermissionsInv == PermissionsTypes /\ PermissionsRight

-----------------------------------------------------------------------------
LEMMA DoCheckIs ==
  ASSUME NEW p \in Prompter, NEW o \in ClientOrigins,
         selections \in [ClientOrigins -> {"none", "allow", "deny"}]
  PROVE  LET result == Permitting!DoCheck(p, o) IN
         /\ result \in {"checking", "granted", "rejected", "dialog"}
         /\ result = "granted" => o \in p.trusted.autoapprove \/ selections[o] = "allow"
         /\ result = "rejected" => selections[o] = "deny" \/ p.stored = "failed"
<1>1. CASE p.trusted.state = "pending" \/ o \in p.trusted.autoapprove
  BY <1>1 DEF Permitting!DoCheck
<1>2. CASE p.trusted.state # "pending" /\ o \notin p.trusted.autoapprove /\ p.stored # "loaded"
  BY <1>2 DEF Permitting!DoCheck, Prompter
<1>3. CASE p.trusted.state # "pending" /\ o \notin p.trusted.autoapprove /\ p.stored = "loaded"
  <2>1. selections[o] \in {"none", "allow", "deny"}
    OBVIOUS
  <2>2. Permitting!DoCheck(p, o) = CASE selections[o] = "allow" -> "granted"
                                     [] selections[o] = "deny" -> "rejected"
                                     [] OTHER -> "dialog"
    BY <1>3 DEF Permitting!DoCheck
  <2> QED BY <2>1, <2>2
<1> QED BY <1>1, <1>2, <1>3

LEMMA GoOnIs ==
  ASSUME NEW p \in Prompter, NEW q, q = Permitting!GoOn(p),
         selections \in [ClientOrigins -> {"none", "allow", "deny"}]
  PROVE  /\ q \in Prompter /\ q.trusted = p.trusted /\ q.stored = p.stored
         /\ \A o \in ClientOrigins :
              /\ p.promise[o] # "checking" => q.promise[o] = p.promise[o]
              /\ p.promise[o] = "checking" =>
                   /\ q.promise[o] # "none"
                   /\ q.promise[o] = "granted" => o \in p.trusted.autoapprove \/ selections[o] = "allow"
                   /\ q.promise[o] = "rejected" => selections[o] = "deny" \/ p.stored = "failed"
              /\ o \in q.pending <=>
                   \/ o \in p.pending
                   \/ p.promise[o] = "checking" /\ q.promise[o] = "dialog"
<1> DEFINE next == [o \in ClientOrigins |->
                      IF p.promise[o] = "checking" THEN Permitting!DoCheck(p, o) ELSE p.promise[o]]
           shown == {o \in ClientOrigins : p.promise[o] = "checking" /\ next[o] = "dialog"}
<1>1. q = [p EXCEPT !.promise = next, !.pending = p.pending \cup shown]
  BY DEF Permitting!GoOn
<1>2. p.promise \in [ClientOrigins -> {"none", "checking", "dialog", "granted", "rejected"}]
  BY DEF Prompter
<1>3. \A o \in ClientOrigins :
        /\ p.promise[o] # "checking" => next[o] = p.promise[o]
        /\ p.promise[o] = "checking" => next[o] = Permitting!DoCheck(p, o)
  OBVIOUS
<1>4. next \in [ClientOrigins -> {"none", "checking", "dialog", "granted", "rejected"}]
  <2>1. \A o \in ClientOrigins : next[o] \in {"none", "checking", "dialog", "granted", "rejected"}
    BY <1>2, <1>3, DoCheckIs
  <2> QED BY <2>1
<1>5. shown \subseteq ClientOrigins
  OBVIOUS
<1>6. \A o \in ClientOrigins : o \in shown <=> p.promise[o] = "checking" /\ next[o] = "dialog"
  OBVIOUS
<1> HIDE DEF next, shown
<1>7. q \in Prompter /\ q.trusted = p.trusted /\ q.stored = p.stored
      /\ q.promise = next /\ q.pending = p.pending \cup shown
  BY <1>1, <1>4, <1>5 DEF Prompter
<1>8. ASSUME NEW o \in ClientOrigins, p.promise[o] = "checking"
      PROVE  /\ next[o] # "none"
             /\ next[o] = "granted" => o \in p.trusted.autoapprove \/ selections[o] = "allow"
             /\ next[o] = "rejected" => selections[o] = "deny" \/ p.stored = "failed"
  BY <1>3, <1>8, DoCheckIs
<1>9. ASSUME NEW o \in ClientOrigins
      PROVE  o \in q.pending <=>
               \/ o \in p.pending
               \/ p.promise[o] = "checking" /\ q.promise[o] = "dialog"
  <2>1. q.promise[o] = next[o]
    BY <1>7
  <2>2. o \in q.pending <=> o \in p.pending \/ o \in shown
    BY <1>7
  <2> QED BY <1>6, <2>1, <2>2
<1> QED BY <1>3, <1>7, <1>8, <1>9

-----------------------------------------------------------------------------
\* What an event decides is right, if the promises, the checks and the policy it
\* starts from are.
LEMMA SettleKeeps ==
  ASSUME NullOrigin \notin ClientOrigins, NoConnection \notin Connections,
         PermissionsTypes,
         selections' \in [ClientOrigins -> {"none", "allow", "deny"}],
         allowedOnce' \subseteq ClientOrigins,
         NEW checks \in [Connections -> Check], NEW p \in Prompter, NEW r \in Registry,
         NEW allowed \in SUBSET Connections,
         Permitting!Settle(checks, allowed, p, r),
         \A o \in ClientOrigins :
           /\ PromiseRight(o, p, prompt, selections', allowedOnce')
           /\ p.promise[o] = "checking" => selections'[o] = selections[o]
           /\ MonitoredRight(o, checks, r),
         \A c \in Connections : CheckRight(c, checks, p, selections', allowedOnce'),
         \A c \in allowed : MayGrant(checks[c].origin, p, selections', allowedOnce'),
         AskingRight(checks, r), \A i \in DOMAIN r.waiting : r.waiting[i] \notin allowed,
         r.allowed \subseteq allowedOnce'
  PROVE  PermissionsInv'
<1> DEFINE q == Permitting!GoOn(p)
           State(c) ==
             IF c \in allowed THEN "granted"
             ELSE IF checks[c].state = "user" /\ q.promise[checks[c].origin] \in Permitting!Settled
             THEN q.promise[checks[c].origin] ELSE checks[c].state
           ended == {c \in Connections : checks[c].state = "user" /\ State(c) # "user"}
           over(S) == {checks[c].origin : c \in S}
           granted == over({c \in ended : State(c) = "granted"})
           windows == [o \in ClientOrigins |->
                         IF q.promise[o] = "dialog" /\ p.promise[o] # "dialog"
                         THEN "creating" ELSE prompt[o]]
<1>1. /\ check' = [c \in Connections |-> [checks[c] EXCEPT !.state = State(c)]]
      /\ prompter' = Permitting!Cancelled(q, granted)
      /\ prompt' = Permitting!Close(windows, granted \cap q.pending)
      /\ registry' = [r EXCEPT !.resolver = [o \in ClientOrigins |->
                        IF o \in over(ended) THEN NoConnection ELSE r.resolver[o]]]
  BY DEF Permitting!Settle
<1>2. /\ q \in Prompter /\ q.trusted = p.trusted /\ q.stored = p.stored
      /\ \A o \in ClientOrigins :
           /\ p.promise[o] # "checking" => q.promise[o] = p.promise[o]
           /\ p.promise[o] = "checking" =>
                /\ q.promise[o] # "none"
                /\ q.promise[o] = "granted" => o \in p.trusted.autoapprove \/ selections[o] = "allow"
                /\ q.promise[o] = "rejected" => selections[o] = "deny" \/ p.stored = "failed"
           /\ o \in q.pending <=>
                \/ o \in p.pending
                \/ p.promise[o] = "checking" /\ q.promise[o] = "dialog"
  <2>1. selections \in [ClientOrigins -> {"none", "allow", "deny"}]
    BY DEF PermissionsTypes
  <2> QED BY <2>1, GoOnIs
<1> HIDE DEF q
<1>3. ASSUME NEW c \in Connections
      PROVE  /\ State(c) \in {"none", "managed", "user", "granted", "rejected"}
             /\ c \in allowed => State(c) = "granted"
             /\ c \notin allowed /\ State(c) # checks[c].state =>
                  /\ checks[c].state = "user" /\ State(c) \in {"granted", "rejected"}
                  /\ State(c) = q.promise[checks[c].origin]
  <2>1. checks[c].state \in {"none", "managed", "user", "granted", "rejected"}
    BY DEF Check
  <2> QED BY <2>1 DEF Permitting!Settled
<1>4. \A c \in ended : c \in Connections /\ checks[c].state = "user" /\ State(c) # "user"
  OBVIOUS
<1>5. \A c \in Connections : checks[c].state = "user" /\ State(c) # "user" => checks[c].origin \in over(ended)
  OBVIOUS
<1>6. ASSUME NEW o \in granted
      PROVE  \E c \in Connections : /\ checks[c].origin = o /\ checks[c].state = "user"
                                   /\ State(c) = "granted"
  OBVIOUS
<1> HIDE DEF State, ended, granted
<1>7. /\ check' \in [Connections -> Check]
      /\ \A c \in Connections : check'[c].origin = checks[c].origin /\ check'[c].state = State(c)
  BY <1>1, <1>3 DEF Check
<1>8. /\ prompter' \in Prompter /\ prompter'.trusted = p.trusted /\ prompter'.stored = p.stored
      /\ prompter'.promise = q.promise
      /\ \A o \in ClientOrigins : o \in prompter'.pending <=> o \in q.pending /\ o \notin granted
  <2>1. prompter' = [q EXCEPT !.pending = q.pending \ granted]
    BY <1>1 DEF Permitting!Cancelled
  <2>2. q.pending \subseteq ClientOrigins
    BY <1>2 DEF Prompter
  <2> QED BY <1>2, <2>1, <2>2 DEF Prompter
<1>9. /\ prompt' \in [ClientOrigins -> PromptStates]
      /\ \A o \in ClientOrigins :
           \/ prompt'[o] = prompt[o] /\ ~(q.promise[o] = "dialog" /\ p.promise[o] # "dialog")
           \/ prompt'[o] = "creating" /\ q.promise[o] = "dialog" /\ p.promise[o] # "dialog"
           \/ prompt'[o] = "cancelled" /\ prompt[o] = "open" /\ o \in granted
              /\ ~(q.promise[o] = "dialog" /\ p.promise[o] # "dialog")
  <2>1. /\ prompt' = [o \in ClientOrigins |-> prompt'[o]]
        /\ \A o \in ClientOrigins :
             prompt'[o] = IF o \in granted \cap q.pending /\ windows[o] = "open"
                          THEN "cancelled" ELSE windows[o]
    BY <1>1 DEF Permitting!Close
  <2>2. \A o \in ClientOrigins :
          \/ windows[o] = "creating" /\ q.promise[o] = "dialog" /\ p.promise[o] # "dialog"
          \/ windows[o] = prompt[o] /\ ~(q.promise[o] = "dialog" /\ p.promise[o] # "dialog")
    OBVIOUS
  <2>3. \A o \in ClientOrigins : prompt[o] \in PromptStates
    BY DEF PermissionsTypes
  <2> HIDE DEF windows
  <2>4. \A o \in ClientOrigins :
           \/ prompt'[o] = prompt[o] /\ ~(q.promise[o] = "dialog" /\ p.promise[o] # "dialog")
           \/ prompt'[o] = "creating" /\ q.promise[o] = "dialog" /\ p.promise[o] # "dialog"
           \/ prompt'[o] = "cancelled" /\ prompt[o] = "open" /\ o \in granted
              /\ ~(q.promise[o] = "dialog" /\ p.promise[o] # "dialog")
    BY <2>1, <2>2
  <2>5. \A o \in ClientOrigins : prompt'[o] \in PromptStates
    BY <2>3, <2>4 DEF PromptStates
  <2> QED BY <2>1, <2>4, <2>5
<1>10. /\ registry' \in Registry /\ registry'.allowed = r.allowed /\ registry'.waiting = r.waiting
       /\ \A o \in ClientOrigins :
            registry'.resolver[o] = IF o \in over(ended) THEN NoConnection ELSE r.resolver[o]
  BY <1>1 DEF Registry
<1> HIDE DEF over
<1>11. ASSUME NEW o \in ClientOrigins, o \in granted
       PROVE  MayGrant(o, p, selections', allowedOnce')
  <2>1. PICK c \in Connections : /\ checks[c].origin = o /\ checks[c].state = "user"
                                 /\ State(c) = "granted"
    BY <1>6, <1>11
  <2>2. CASE c \in allowed
    BY <2>1, <2>2
  <2>3. CASE c \notin allowed
    <3>1. q.promise[o] = "granted"
      BY <1>3, <2>1, <2>3
    <3>2. CASE p.promise[o] = "checking"
      BY <1>2, <3>1, <3>2 DEF MayGrant
    <3>3. CASE p.promise[o] # "checking"
      BY <1>2, <3>1, <3>3 DEF PromiseRight
    <3> QED BY <3>2, <3>3
  <2> QED BY <2>2, <2>3
<1>12. ASSUME NEW o \in ClientOrigins
       PROVE  PromiseRight(o, prompter, prompt, selections, allowedOnce)'
  <2> DEFINE may == MayGrant(o, p, selections', allowedOnce')
  <2>1. may <=> MayGrant(o, prompter', selections', allowedOnce')
    BY <1>8 DEF MayGrant
  <2>2. o \in granted => may
    BY <1>11
  <2>3. /\ p.promise[o] = "granted" => may
        /\ p.promise[o] = "rejected" => MayRefuse(o, p, selections', prompt)
        /\ p.promise[o] \in {"none", "checking"} => prompt[o] = "none"
        /\ p.promise[o] \in {"granted", "rejected"} => prompt[o] \notin {"creating", "open"}
        /\ p.promise[o] = "dialog" /\ o \notin p.pending => may
        /\ prompt[o] = "cancelled" => o \notin p.pending
    BY DEF PromiseRight, Permitting!Settled
  <2>4. /\ p.promise[o] = "checking" =>
             /\ q.promise[o] # "none"
             /\ q.promise[o] = "granted" => may
             /\ q.promise[o] = "rejected" => MayRefuse(o, p, selections', prompt)
        /\ p.promise[o] # "checking" => q.promise[o] = p.promise[o]
    BY <1>2 DEF MayGrant, MayRefuse
  <2>5. /\ q.promise[o] = "granted" => may
        /\ q.promise[o] = "rejected" => MayRefuse(o, p, selections', prompt)
    BY <2>3, <2>4
  <2>6. MayRefuse(o, p, selections', prompt) => MayRefuse(o, prompter', selections', prompt')
    <3>1. prompt[o] \in {"deny", "closed"} => prompt'[o] \in {"deny", "closed"}
      <4>1. prompt[o] \in {"deny", "closed"} => p.promise[o] \notin {"none", "checking"}
        BY <2>3
      <4>2. prompt[o] \in {"deny", "closed"} => ~(q.promise[o] = "dialog" /\ p.promise[o] # "dialog")
        BY <4>1, <1>2
      <4> QED BY <4>2, <1>9
    <3> QED BY <3>1, <1>8 DEF MayRefuse
  <2>7. q.promise[o] \in {"none", "checking"} => prompt'[o] = "none"
    <3>1. q.promise[o] \in {"none", "checking"} => p.promise[o] \in {"none", "checking"}
      BY <2>4
    <3> QED BY <3>1, <2>3, <1>9
  <2>8. q.promise[o] \in {"granted", "rejected"} => prompt'[o] \notin {"creating", "open"}
    <3>1. q.promise[o] \in {"granted", "rejected"} => prompt[o] \notin {"creating", "open"}
      BY <2>3, <2>4
    <3> QED BY <3>1, <1>9
  <2>9. q.promise[o] = "dialog" /\ o \notin prompter'.pending => may
    BY <1>2, <1>8, <2>2, <2>3
  <2>10. prompt'[o] = "cancelled" => o \notin prompter'.pending
    <3>1. ASSUME prompt'[o] = "cancelled", o \notin granted
          PROVE  prompt[o] = "cancelled" /\ ~(q.promise[o] = "dialog" /\ p.promise[o] # "dialog")
      BY <3>1, <1>9
    <3>2. ASSUME prompt[o] = "cancelled", ~(q.promise[o] = "dialog" /\ p.promise[o] # "dialog")
          PROVE  o \notin q.pending
      BY <3>2, <2>3, <1>2
    <3> QED BY <3>1, <3>2, <1>8
  <2> HIDE DEF may
  <2> QED BY <1>8, <2>1, <2>5, <2>6, <2>7, <2>8, <2>9, <2>10 DEF PromiseRight, Permitting!Settled
<1>13. ASSUME NEW c \in Connections
       PROVE  CheckRight(c, check, prompter, selections, allowedOnce)'
  <2> DEFINE o == checks[c].origin
  <2> SUFFICES ASSUME o # NullOrigin
               PROVE  /\ State(c) = "granted" => MayGrant(o, prompter', selections', allowedOnce')
                      /\ State(c) = "rejected" => prompter'.promise[o] = "rejected"
    BY <1>7 DEF CheckRight
  <2>1. o \in ClientOrigins
    BY DEF Check
  <2>2. /\ checks[c].state = "granted" => MayGrant(o, p, selections', allowedOnce')
        /\ checks[c].state = "rejected" => p.promise[o] = "rejected"
    BY DEF CheckRight
  <2>3. MayGrant(o, p, selections', allowedOnce') <=> MayGrant(o, prompter', selections', allowedOnce')
    BY <1>8 DEF MayGrant
  <2>4. /\ p.promise[o] = "rejected" => q.promise[o] = "rejected"
        /\ prompter'.promise = q.promise
    BY <1>2, <1>8, <2>1
  <2>5. CASE c \in allowed
    BY <1>3, <2>3, <2>5
  <2>6. CASE c \notin allowed /\ State(c) = checks[c].state
    BY <2>2, <2>3, <2>4, <2>6
  <2>7. CASE c \notin allowed /\ State(c) # checks[c].state
    <3>1. State(c) = q.promise[o] /\ State(c) \in {"granted", "rejected"}
      BY <1>3, <2>7
    <3>2. q.promise[o] = "granted" => MayGrant(o, prompter', selections', allowedOnce')
      BY <1>8, <1>12, <2>1 DEF PromiseRight
    <3> QED BY <3>1, <3>2, <2>4
  <2> QED BY <2>5, <2>6, <2>7
<1>14. ASSUME NEW o \in ClientOrigins
       PROVE  MonitoredRight(o, check, registry)'
  <2> SUFFICES ASSUME registry'.resolver[o] # NoConnection
               PROVE  LET c == registry'.resolver[o] IN
                      c \in Connections /\ check'[c].origin = o /\ check'[c].state = "user"
    BY DEF MonitoredRight
  <2> DEFINE c == r.resolver[o]
  <2>1. registry'.resolver[o] = c /\ o \notin over(ended)
    BY <1>10
  <2>2. c \in Connections /\ checks[c].origin = o /\ checks[c].state = "user"
    BY <2>1 DEF MonitoredRight
  <2>3. State(c) = "user"
    BY <1>5, <2>1, <2>2
  <2> QED BY <1>7, <2>1, <2>2, <2>3
<1>15. PermissionsTypes'
  BY <1>7, <1>8, <1>9, <1>10 DEF PermissionsTypes
<1>16. AskingRight(check, registry)'
  <2>1. ASSUME NEW c \in Connections, check'[c].state \in {"managed", "user"}
        PROVE  check'[c].origin # NullOrigin
    BY <1>3, <1>7, <2>1 DEF AskingRight
  <2>2. ASSUME NEW i \in DOMAIN r.waiting
        PROVE  check'[r.waiting[i]].state = "managed"
    <3> DEFINE c == r.waiting[i]
    <3>1. c \in Connections
      BY DEF Registry
    <3>2. checks[c].state = "managed" /\ c \notin allowed
      BY DEF AskingRight
    <3> QED BY <1>3, <1>7, <3>1, <3>2
  <2> QED BY <1>10, <2>1, <2>2 DEF AskingRight
<1> QED BY <1>10, <1>12, <1>13, <1>14, <1>15, <1>16 DEF PermissionsInv, PermissionsRight

\* An event that changes at most the promises that wait for the prompter, the
\* registry's monitoring and what is allowed.
LEMMA CheckedIs ==
  ASSUME NEW origins \in SUBSET ClientOrigins, PermissionsInv, NEW once, allowedOnce \subseteq once,
         NEW p, p = Permitting!Checked(prompter, origins)
  PROVE  /\ p \in Prompter
         /\ \A o \in ClientOrigins : PromiseRight(o, p, prompt, selections, once)
         /\ \A c \in Connections : CheckRight(c, check, p, selections, once)
         /\ p.trusted = prompter.trusted /\ p.stored = prompter.stored
         /\ \A o \in ClientOrigins : prompter.promise[o] = "rejected" => p.promise[o] = "rejected"
<1> DEFINE promise == [o \in ClientOrigins |->
                         IF o \in origins /\ prompter.promise[o] = "none" THEN "checking"
                         ELSE prompter.promise[o]]
<1>1. p = [prompter EXCEPT !.promise = promise]
  BY DEF Permitting!Checked
<1>2. prompter \in Prompter
  BY DEF PermissionsInv, PermissionsTypes
<1>3. promise \in [ClientOrigins -> {"none", "checking", "dialog", "granted", "rejected"}]
  BY <1>2 DEF Prompter
<1>4. \A o \in ClientOrigins :
        \/ promise[o] = prompter.promise[o]
        \/ promise[o] = "checking" /\ prompter.promise[o] = "none"
  OBVIOUS
<1> HIDE DEF promise
<1>5. /\ p \in Prompter /\ p.promise = promise /\ p.pending = prompter.pending
      /\ p.trusted = prompter.trusted /\ p.stored = prompter.stored
  BY <1>1, <1>2, <1>3 DEF Prompter
<1>6. ASSUME NEW o \in ClientOrigins PROVE PromiseRight(o, p, prompt, selections, once)
  <2>1. PromiseRight(o, prompter, prompt, selections, allowedOnce)
    BY DEF PermissionsInv, PermissionsRight
  <2>2. /\ MayGrant(o, prompter, selections, allowedOnce) => MayGrant(o, p, selections, once)
        /\ MayRefuse(o, prompter, selections, prompt) <=> MayRefuse(o, p, selections, prompt)
    BY <1>5 DEF MayGrant, MayRefuse
  <2>3. CASE promise[o] = prompter.promise[o]
    BY <1>5, <2>1, <2>2, <2>3 DEF PromiseRight
  <2>4. CASE promise[o] = "checking" /\ prompter.promise[o] = "none"
    BY <1>5, <2>1, <2>4 DEF PromiseRight, Permitting!Settled
  <2> QED BY <1>4, <2>3, <2>4
<1>7. ASSUME NEW c \in Connections PROVE CheckRight(c, check, p, selections, once)
  <2> DEFINE o == check[c].origin
  <2> SUFFICES ASSUME o # NullOrigin
               PROVE  /\ check[c].state = "granted" => MayGrant(o, p, selections, once)
                      /\ check[c].state = "rejected" => p.promise[o] = "rejected"
    BY DEF CheckRight
  <2>1. o \in ClientOrigins
    BY DEF PermissionsInv, PermissionsTypes, Check
  <2>2. /\ check[c].state = "granted" => MayGrant(o, prompter, selections, allowedOnce)
        /\ check[c].state = "rejected" => prompter.promise[o] = "rejected"
    BY DEF PermissionsInv, PermissionsRight, CheckRight
  <2> QED BY <1>4, <1>5, <2>1, <2>2 DEF MayGrant
<1> QED BY <1>4, <1>5, <1>6, <1>7

LEMMA ConnectKeeps ==
  ASSUME Permitting!PermissionsAssumption, PermissionsInv,
         NEW c \in Connections, NEW o \in ClientOrigins \cup {NullOrigin},
         Permitting!Connect(c, o)
  PROVE  PermissionsInv'
<1>1. /\ check[c].state \notin {"managed", "user"}
      /\ UNCHANGED <<selections, policies, allowedOnce>>
  BY DEF Permitting!Connect, Permitting!Pending
<1>2. /\ NullOrigin \notin ClientOrigins /\ NoConnection \notin Connections
      /\ PermissionsTypes
  BY DEF Permitting!PermissionsAssumption, PermissionsInv
<1> DEFINE asks(state) == [check EXCEPT ![c] = [origin |-> o, state |-> state]]
<1>3. ASSUME NEW state \in {"none", "managed", "user", "granted", "rejected"}
      PROVE  /\ asks(state) \in [Connections -> Check]
             /\ asks(state)[c] = [origin |-> o, state |-> state]
             /\ \A d \in Connections : d # c => asks(state)[d] = check[d]
  BY <1>2 DEF PermissionsTypes, Check
<1>4. \A i \in DOMAIN registry.waiting : registry.waiting[i] # c
  BY <1>1 DEF PermissionsInv, PermissionsRight, AskingRight
<1>11. \A q \in ClientOrigins :
         /\ PromiseRight(q, prompter, prompt, selections, allowedOnce)
         /\ MonitoredRight(q, check, registry) /\ registry.resolver[q] # c
  BY <1>1, <1>2 DEF PermissionsInv, PermissionsRight, MonitoredRight
<1>12. \A d \in Connections : CheckRight(d, check, prompter, selections, allowedOnce)
  BY DEF PermissionsInv, PermissionsRight
<1>13. AskingRight(check, registry) /\ registry.allowed \subseteq allowedOnce
  BY DEF PermissionsInv, PermissionsRight
<1>14. registry \in Registry /\ registry.waiting \in Seq(Connections)
  BY <1>2 DEF PermissionsTypes, Registry
<1> HIDE DEF asks
<1>15. ASSUME NEW state \in {"managed", "user", "granted"},
              state = "granted" => o \in registry.allowed \cup {NullOrigin},
              state # "granted" => o # NullOrigin
       PROVE  /\ \A d \in Connections : CheckRight(d, asks(state), prompter, selections, allowedOnce)
              /\ \A q \in ClientOrigins : MonitoredRight(q, asks(state), registry)
              /\ AskingRight(asks(state), registry)
  <2>1. ASSUME NEW d \in Connections
        PROVE  CheckRight(d, asks(state), prompter, selections, allowedOnce)
    <3>1. CASE d = c
      BY <1>3, <1>13, <1>15, <3>1 DEF CheckRight, MayGrant
    <3>2. CASE d # c
      BY <1>3, <1>12, <3>2 DEF CheckRight
    <3> QED BY <3>1, <3>2
  <2>2. ASSUME NEW q \in ClientOrigins
        PROVE  MonitoredRight(q, asks(state), registry)
    BY <1>3, <1>11 DEF MonitoredRight
  <2>3. AskingRight(asks(state), registry)
    <3>1. \A i \in DOMAIN registry.waiting : registry.waiting[i] \in Connections
      BY <1>14
    <3>2. \A i \in DOMAIN registry.waiting : asks(state)[registry.waiting[i]].state = "managed"
      BY <1>3, <1>4, <1>13, <3>1 DEF AskingRight
    <3>3. \A d \in Connections :
            asks(state)[d].state \in {"managed", "user"} => asks(state)[d].origin # NullOrigin
      BY <1>3, <1>13, <1>15 DEF AskingRight
    <3> QED BY <3>2, <3>3 DEF AskingRight
  <2> QED BY <2>1, <2>2, <2>3
<1>5. CASE /\ UNCHANGED <<registry, prompter, prompt>>
           /\ check' = asks("granted") /\ o \in registry.allowed \cup {NullOrigin}
  <2>1. PermissionsTypes'
    BY <1>1, <1>2, <1>3, <1>5 DEF PermissionsTypes
  <2>2. PermissionsRight'
    BY <1>1, <1>5, <1>11, <1>13, <1>15 DEF PermissionsRight
  <2> QED BY <2>1, <2>2 DEF PermissionsInv
<1>6. CASE /\ check' = asks("managed") /\ o # NullOrigin
           /\ registry' = [registry EXCEPT !.waiting = Append(registry.waiting, c)]
           /\ UNCHANGED <<prompter, prompt>>
  <2>1. /\ registry' \in Registry /\ registry'.resolver = registry.resolver
        /\ registry'.allowed = registry.allowed
        /\ registry'.waiting = Append(registry.waiting, c)
    <3>1. Append(registry.waiting, c) \in Seq(Connections)
      BY <1>14
    <3>2. registry' = [registry EXCEPT !.waiting = Append(registry.waiting, c)]
      BY <1>6
    <3> QED BY <1>14, <3>1, <3>2 DEF Registry
  <2>2. PermissionsTypes'
    BY <1>1, <1>2, <1>3, <1>6, <2>1 DEF PermissionsTypes
  <2>3. \A q \in ClientOrigins : MonitoredRight(q, asks("managed"), registry')
    BY <1>6, <1>15, <2>1 DEF MonitoredRight
  <2>4. AskingRight(asks("managed"), registry')
    <3>1. AskingRight(asks("managed"), registry)
      BY <1>6, <1>15
    <3>2. ASSUME NEW i \in DOMAIN registry'.waiting
          PROVE  asks("managed")[registry'.waiting[i]].state = "managed"
      <4>1. CASE i \in DOMAIN registry.waiting
        BY <1>14, <2>1, <3>1, <4>1 DEF AskingRight
      <4>2. CASE i \notin DOMAIN registry.waiting
        <5>1. registry'.waiting[i] = c
          BY <1>14, <2>1, <4>2
        <5> QED BY <1>3, <5>1
      <4> QED BY <4>1, <4>2
    <3> QED BY <3>1, <3>2 DEF AskingRight
  <2>5. PermissionsRight'
    BY <1>1, <1>6, <1>11, <1>13, <1>15, <2>1, <2>3, <2>4 DEF PermissionsRight
  <2> QED BY <2>2, <2>5 DEF PermissionsInv
<1>7. CASE /\ o # NullOrigin
           /\ Permitting!Settle(asks("user"), {}, Permitting!Checked(prompter, {o}),
                                Permitting!Monitored(registry, c, o))
  <2> DEFINE p == Permitting!Checked(prompter, {o})
             r == Permitting!Monitored(registry, c, o)
             checks == asks("user")
  <2>1. o \in ClientOrigins
    BY <1>7
  <2>2. /\ p \in Prompter
        /\ \A q \in ClientOrigins : PromiseRight(q, p, prompt, selections, allowedOnce)
        /\ p.trusted = prompter.trusted
        /\ \A q \in ClientOrigins : prompter.promise[q] = "rejected" => p.promise[q] = "rejected"
    BY <2>1, CheckedIs
  <2>3. /\ r \in Registry /\ r.waiting = registry.waiting /\ r.allowed = registry.allowed
        /\ r.resolver[o] = c
        /\ \A q \in ClientOrigins : q # o => r.resolver[q] = registry.resolver[q]
    <3>1. r = [registry EXCEPT !.resolver = [registry.resolver EXCEPT ![o] = c]]
      BY DEF Permitting!Monitored
    <3>2. registry.resolver \in [ClientOrigins -> Connections \cup {NoConnection}]
      BY <1>14 DEF Registry
    <3>3. [registry.resolver EXCEPT ![o] = c] \in [ClientOrigins -> Connections \cup {NoConnection}]
      BY <3>2
    <3> QED BY <1>14, <2>1, <3>1, <3>2, <3>3 DEF Registry
  <2> HIDE DEF p, r
  <2>4. checks \in [Connections -> Check]
    BY <1>3
  <2>5. \A q \in ClientOrigins : MonitoredRight(q, checks, r)
    <3> TAKE q \in ClientOrigins
    <3>1. CASE q = o
      BY <1>3, <2>3, <3>1 DEF MonitoredRight
    <3>2. CASE q # o
      BY <1>7, <1>15, <2>3, <3>2 DEF MonitoredRight
    <3> QED BY <3>1, <3>2
  <2>6. \A d \in Connections : CheckRight(d, checks, p, selections, allowedOnce)
    <3> TAKE d \in Connections
    <3>1. CheckRight(d, checks, prompter, selections, allowedOnce)
      BY <1>7, <1>15
    <3>2. checks[d].origin \in ClientOrigins \cup {NullOrigin}
      BY <2>4 DEF Check
    <3> QED BY <2>2, <3>1, <3>2 DEF CheckRight, MayGrant
  <2>7. AskingRight(checks, r)
    <3>1. AskingRight(checks, registry)
      BY <1>7, <1>15
    <3> QED BY <2>3, <3>1 DEF AskingRight
  <2>8. Permitting!Settle(checks, {}, p, r)
    BY <1>7 DEF p, r
  <2> HIDE DEF checks
  <2>9. selections' = selections /\ allowedOnce' = allowedOnce
    BY <1>1
  <2>10. /\ selections' \in [ClientOrigins -> {"none", "allow", "deny"}]
         /\ allowedOnce' \subseteq ClientOrigins
    BY <1>2, <2>9 DEF PermissionsTypes
  <2>11. r.allowed \subseteq allowedOnce'
    BY <1>13, <2>3, <2>9
  <2> QED BY <1>2, <2>2, <2>3, <2>4, <2>5, <2>6, <2>7, <2>8, <2>9, <2>10, <2>11, SettleKeeps
<1>8. \/ o = NullOrigin /\ check' = asks("granted") /\ UNCHANGED <<registry, prompter, prompt>>
      \/ /\ o # NullOrigin /\ check' = asks("managed")
         /\ registry' = [registry EXCEPT !.waiting = Append(registry.waiting, c)]
         /\ UNCHANGED <<prompter, prompt>>
      \/ o \in registry.allowed /\ check' = asks("granted") /\ UNCHANGED <<registry, prompter, prompt>>
      \/ /\ o # NullOrigin
         /\ Permitting!Settle(asks("user"), {}, Permitting!Checked(prompter, {o}),
                              Permitting!Monitored(registry, c, o))
  <2>1. CASE o = NullOrigin
    BY <2>1 DEF Permitting!Connect, asks
  <2>2. CASE o # NullOrigin /\ registry.loaded = "pending"
    BY <2>2 DEF Permitting!Connect, asks
  <2>3. CASE o # NullOrigin /\ registry.loaded # "pending" /\ o \in registry.allowed /\ registry.loaded = "resolved"
    BY <2>3 DEF Permitting!Connect, asks
  <2>4. CASE o # NullOrigin /\ registry.loaded # "pending" /\ ~(o \in registry.allowed /\ registry.loaded = "resolved")
    BY <2>4 DEF Permitting!Connect, asks
  <2> QED BY <2>1, <2>2, <2>3, <2>4
<1> QED BY <1>5, <1>6, <1>7, <1>8

\* What may be granted, may be refused or is settled, stays so as more is allowed.
LEMMA MorePermitted ==
  ASSUME PermissionsInv, NEW once, allowedOnce \subseteq once
  PROVE  /\ \A o \in ClientOrigins : PromiseRight(o, prompter, prompt, selections, once)
         /\ \A c \in Connections : CheckRight(c, check, prompter, selections, once)
<1>1. ASSUME NEW o \in ClientOrigins PROVE PromiseRight(o, prompter, prompt, selections, once)
  <2>1. MayGrant(o, prompter, selections, allowedOnce) => MayGrant(o, prompter, selections, once)
    BY DEF MayGrant
  <2>2. PromiseRight(o, prompter, prompt, selections, allowedOnce)
    BY DEF PermissionsInv, PermissionsRight
  <2> QED BY <2>1, <2>2 DEF PromiseRight
<1>2. ASSUME NEW c \in Connections PROVE CheckRight(c, check, prompter, selections, once)
  <2>1. MayGrant(check[c].origin, prompter, selections, allowedOnce)
          => MayGrant(check[c].origin, prompter, selections, once)
    BY DEF MayGrant
  <2>2. CheckRight(c, check, prompter, selections, allowedOnce)
    BY DEF PermissionsInv, PermissionsRight
  <2> QED BY <2>1, <2>2 DEF CheckRight
<1> QED BY <1>1, <1>2

LEMMA StorageChangedKeeps ==
  ASSUME Permitting!PermissionsAssumption, PermissionsInv,
         NEW ok \in BOOLEAN, NEW origins \in SUBSET ClientOrigins,
         Permitting!StorageChanged(ok, origins)
  PROVE  PermissionsInv'
<1>1. CASE ~ok
  <2>1. UNCHANGED <<registry, prompter, check, prompt, allowedOnce, selections>>
    BY <1>1 DEF Permitting!StorageChanged
  <2>2. PermissionsTypes' /\ PermissionsRight'
    BY <2>1 DEF PermissionsInv, PermissionsTypes, PermissionsRight
  <2> QED BY <2>2 DEF PermissionsInv
<1>2. CASE ok
  <2> DEFINE allowed == {registry.resolver[o] : o \in {d \in origins : registry.resolver[d] # NoConnection}}
             r == [registry EXCEPT !.allowed = origins]
  <2>1. /\ Permitting!Settle(check, allowed, prompter, r)
        /\ allowedOnce' = allowedOnce \cup origins /\ selections' = selections
    BY <1>2 DEF Permitting!StorageChanged
  <2>2. /\ NullOrigin \notin ClientOrigins /\ NoConnection \notin Connections
        /\ PermissionsTypes
    BY DEF Permitting!PermissionsAssumption, PermissionsInv
  <2>3. r \in Registry /\ r.allowed = origins /\ r.resolver = registry.resolver /\ r.waiting = registry.waiting
    BY <2>2 DEF PermissionsTypes, Registry
  <2>4. /\ \A o \in ClientOrigins : MonitoredRight(o, check, registry)
        /\ AskingRight(check, registry)
    BY DEF PermissionsInv, PermissionsRight
  <2>5. \A c \in allowed : c \in Connections /\ check[c].origin \in origins /\ check[c].state = "user"
    <3> TAKE c \in allowed
    <3>1. PICK o \in origins : registry.resolver[o] # NoConnection /\ c = registry.resolver[o]
      OBVIOUS
    <3>2. o \in ClientOrigins
      OBVIOUS
    <3> QED BY <2>4, <3>1, <3>2 DEF MonitoredRight
  <2> HIDE DEF allowed, r
  <2>6. /\ \A o \in ClientOrigins : PromiseRight(o, prompter, prompt, selections', allowedOnce')
        /\ \A c \in Connections : CheckRight(c, check, prompter, selections', allowedOnce')
    BY <2>1, MorePermitted
  <2>7. /\ \A o \in ClientOrigins : MonitoredRight(o, check, r)
        /\ AskingRight(check, r) /\ \A i \in DOMAIN r.waiting : r.waiting[i] \notin allowed
    BY <2>3, <2>4, <2>5 DEF MonitoredRight, AskingRight
  <2>8. \A c \in allowed : MayGrant(check[c].origin, prompter, selections', allowedOnce')
    BY <2>1, <2>5 DEF MayGrant
  <2>9. /\ selections' \in [ClientOrigins -> {"none", "allow", "deny"}]
        /\ allowedOnce' \subseteq ClientOrigins /\ origins \subseteq allowedOnce'
        /\ check \in [Connections -> Check] /\ prompter \in Prompter
    BY <2>1, <2>2 DEF PermissionsTypes
  <2>10. r.allowed \subseteq allowedOnce' /\ allowed \in SUBSET Connections
    BY <2>3, <2>5, <2>9
  <2>11. \A o \in ClientOrigins : selections'[o] = selections[o]
    BY <2>1
  <2> QED BY <2>1, <2>2, <2>3, <2>6, <2>7, <2>8, <2>9, <2>10, <2>11, SettleKeeps
<1> QED BY <1>1, <1>2

\* An event that settles nothing by itself: one that changes what the prompter
\* has loaded or how a prompt has ended, without loss of a reason.
LEMMA PrompterKeeps ==
  ASSUME Permitting!PermissionsAssumption, PermissionsInv,
         NEW p \in Prompter, Permitting!Settle(check, {}, p, registry),
         UNCHANGED allowedOnce,
         selections' \in [ClientOrigins -> {"none", "allow", "deny"}],
         \A o \in ClientOrigins :
           /\ PromiseRight(o, p, prompt, selections', allowedOnce)
           /\ p.promise[o] = "checking" => selections'[o] = selections[o]
           /\ MayGrant(o, prompter, selections, allowedOnce) => MayGrant(o, p, selections', allowedOnce)
           /\ prompter.promise[o] = "rejected" => p.promise[o] = "rejected"
  PROVE  PermissionsInv'
<1>1. /\ NullOrigin \notin ClientOrigins /\ NoConnection \notin Connections
      /\ PermissionsTypes
  BY DEF Permitting!PermissionsAssumption, PermissionsInv
<1>2. /\ check \in [Connections -> Check] /\ registry \in Registry
      /\ allowedOnce' \subseteq ClientOrigins
  BY <1>1 DEF PermissionsTypes
<1>3. /\ \A o \in ClientOrigins : MonitoredRight(o, check, registry)
      /\ AskingRight(check, registry) /\ registry.allowed \subseteq allowedOnce'
  BY DEF PermissionsInv, PermissionsRight
<1>4. \A c \in Connections : CheckRight(c, check, p, selections', allowedOnce')
  <2> TAKE c \in Connections
  <2>1. CheckRight(c, check, prompter, selections, allowedOnce)
    BY DEF PermissionsInv, PermissionsRight
  <2>2. check[c].origin \in ClientOrigins \cup {NullOrigin}
    BY <1>2 DEF Check
  <2> QED BY <2>1, <2>2 DEF CheckRight
<1> QED BY <1>1, <1>2, <1>3, <1>4, SettleKeeps

LEMMA LoadedKeeps ==
  ASSUME Permitting!PermissionsAssumption, PermissionsInv,
         \/ \E t \in Permitting!Trusted : Permitting!TrustedClientsLoaded(t)
         \/ \E state \in {"loaded", "failed"} : Permitting!LocalStorageLoaded(state)
  PROVE  PermissionsInv'
<1>1. prompter \in Prompter /\ selections \in [ClientOrigins -> {"none", "allow", "deny"}]
  BY DEF PermissionsInv, PermissionsTypes
<1>2. PICK p \in Prompter :
        /\ Permitting!Settle(check, {}, p, registry) /\ UNCHANGED <<selections, allowedOnce>>
        /\ p.promise = prompter.promise /\ p.pending = prompter.pending
        /\ prompter.trusted.autoapprove \subseteq p.trusted.autoapprove
        /\ prompter.stored = "failed" => p.stored = "failed"
  <2>1. ASSUME NEW t \in Permitting!Trusted, Permitting!TrustedClientsLoaded(t)
        PROVE  LET p == [prompter EXCEPT !.trusted = t] IN
               /\ p \in Prompter
               /\ Permitting!Settle(check, {}, p, registry) /\ UNCHANGED <<selections, allowedOnce>>
               /\ p.promise = prompter.promise /\ p.pending = prompter.pending
               /\ prompter.trusted.autoapprove \subseteq p.trusted.autoapprove
               /\ p.stored = prompter.stored
    <3> DEFINE p == [prompter EXCEPT !.trusted = t]
    <3>1. p \in Prompter /\ p.trusted = t /\ p.promise = prompter.promise
          /\ p.pending = prompter.pending /\ p.stored = prompter.stored
      BY <1>1 DEF Prompter
    <3>2. prompter.trusted \in Permitting!Trusted /\ prompter.trusted.state = "pending"
      BY <1>1, <2>1 DEF Prompter, Permitting!TrustedClientsLoaded
    <3>3. prompter.trusted.autoapprove = {}
      BY <3>2 DEF Permitting!Trusted
    <3>4. Permitting!Settle(check, {}, p, registry) /\ UNCHANGED <<selections, allowedOnce>>
      BY <2>1 DEF Permitting!TrustedClientsLoaded
    <3> QED BY <3>1, <3>3, <3>4
  <2>2. ASSUME NEW state \in {"loaded", "failed"}, Permitting!LocalStorageLoaded(state)
        PROVE  LET p == [prompter EXCEPT !.stored = state] IN
               /\ p \in Prompter
               /\ Permitting!Settle(check, {}, p, registry) /\ UNCHANGED <<selections, allowedOnce>>
               /\ p.promise = prompter.promise /\ p.pending = prompter.pending
               /\ p.trusted = prompter.trusted /\ prompter.stored # "failed"
    BY <1>1, <2>2 DEF Prompter, Permitting!LocalStorageLoaded
  <2> QED BY <2>1, <2>2
<1>3. ASSUME NEW o \in ClientOrigins
      PROVE  /\ PromiseRight(o, p, prompt, selections, allowedOnce)
             /\ MayGrant(o, prompter, selections, allowedOnce) => MayGrant(o, p, selections, allowedOnce)
  <2>1. PromiseRight(o, prompter, prompt, selections, allowedOnce)
    BY DEF PermissionsInv, PermissionsRight
  <2>2. /\ MayGrant(o, prompter, selections, allowedOnce) => MayGrant(o, p, selections, allowedOnce)
        /\ MayRefuse(o, prompter, selections, prompt) => MayRefuse(o, p, selections, prompt)
    BY <1>2 DEF MayGrant, MayRefuse
  <2> QED BY <1>2, <2>1, <2>2 DEF PromiseRight
<1>4. selections' = selections /\ UNCHANGED allowedOnce
  BY <1>2
<1> QED BY <1>1, <1>2, <1>3, <1>4, PrompterKeeps

LEMMA PromptMovesKeep ==
  ASSUME Permitting!PermissionsAssumption, PermissionsInv, NEW o \in ClientOrigins,
         \/ Permitting!WindowCreated(o)
         \/ \E answer \in {"allow", "deny", "closed"} : Permitting!UserAnswers(o, answer)
  PROVE  PermissionsInv'
<1>1. PICK answer \in {"open", "allow", "deny", "closed"} :
        prompt' = [prompt EXCEPT ![o] = answer] /\ prompt[o] \in {"creating", "open"}
  BY DEF Permitting!WindowCreated, Permitting!UserAnswers
<1>2. UNCHANGED <<registry, prompter, check, selections, allowedOnce>>
  BY DEF Permitting!WindowCreated, Permitting!UserAnswers
<1>3. PermissionsTypes
  BY DEF PermissionsInv
<1>4. /\ prompt'[o] = answer /\ \A d \in ClientOrigins : d # o => prompt'[d] = prompt[d]
      /\ prompt' \in [ClientOrigins -> PromptStates]
  BY <1>1, <1>3 DEF PermissionsTypes, PromptStates
<1>5. ASSUME NEW d \in ClientOrigins
      PROVE  PromiseRight(d, prompter, prompt', selections, allowedOnce)
  <2>1. PromiseRight(d, prompter, prompt, selections, allowedOnce)
    BY DEF PermissionsInv, PermissionsRight
  <2>2. CASE d # o
    BY <1>4, <2>1, <2>2 DEF PromiseRight, MayRefuse
  <2>3. CASE d = o
    <3>1. prompter.promise[o] \in {"none", "checking", "dialog", "granted", "rejected"}
      BY <1>3 DEF PermissionsTypes, Prompter
    <3>2. prompter.promise[o] = "dialog"
      BY <1>1, <2>1, <2>3, <3>1 DEF PromiseRight, Permitting!Settled
    <3> QED BY <1>1, <1>4, <2>1, <2>3, <3>2 DEF PromiseRight, Permitting!Settled
  <2> QED BY <2>2, <2>3
<1>6. PermissionsTypes'
  BY <1>2, <1>3, <1>4 DEF PermissionsTypes
<1>7. PermissionsRight'
  <2>1. PermissionsRight
    BY DEF PermissionsInv
  <2> QED BY <1>2, <1>5, <2>1 DEF PermissionsRight
<1> QED BY <1>6, <1>7 DEF PermissionsInv

LEMMA PromptEndsKeeps ==
  ASSUME Permitting!PermissionsAssumption, PermissionsInv, NEW o \in ClientOrigins,
         Permitting!PromptEnds(o)
  PROVE  PermissionsInv'
<1> DEFINE result == Permitting!Result(o)
           p == [prompter EXCEPT !.promise = [prompter.promise EXCEPT ![o] = result],
                                 !.pending = IF result = "rejected" THEN prompter.pending \ {o}
                                             ELSE prompter.pending]
<1>1. /\ prompter.promise[o] = "dialog" /\ prompt[o] \in {"allow", "deny", "closed", "cancelled"}
      /\ Permitting!Settle(check, {}, p, registry) /\ UNCHANGED allowedOnce
      /\ selections' = IF prompt[o] = "allow" THEN [selections EXCEPT ![o] = "allow"] ELSE selections
  BY DEF Permitting!PromptEnds
<1>2. /\ prompter \in Prompter /\ selections \in [ClientOrigins -> {"none", "allow", "deny"}]
  BY DEF PermissionsInv, PermissionsTypes
<1>3. /\ selections' \in [ClientOrigins -> {"none", "allow", "deny"}]
      /\ \A d \in ClientOrigins : d # o => selections'[d] = selections[d]
      /\ prompt[o] = "allow" => selections'[o] = "allow"
      /\ prompt[o] # "allow" => selections' = selections
  BY <1>1, <1>2
<1>4. PromiseRight(o, prompter, prompt, selections, allowedOnce)
  BY DEF PermissionsInv, PermissionsRight
<1>5. /\ result \in {"granted", "rejected"}
      /\ result = "granted" => MayGrant(o, prompter, selections', allowedOnce)
      /\ result = "rejected" => prompt[o] \in {"deny", "closed"}
  <2>1. CASE prompt[o] = "allow"
    BY <1>3, <2>1 DEF Permitting!Result, MayGrant
  <2>2. CASE prompt[o] = "deny"
    BY <2>2 DEF Permitting!Result
  <2>3. CASE prompt[o] \in {"closed", "cancelled"}
    <3>1. result = IF o \in prompter.pending THEN "rejected" ELSE "granted"
      BY <2>3 DEF Permitting!Result
    <3>2. prompt[o] = "cancelled" => o \notin prompter.pending
      BY <1>4 DEF PromiseRight
    <3>3. o \notin prompter.pending => MayGrant(o, prompter, selections, allowedOnce)
      BY <1>1, <1>4 DEF PromiseRight
    <3>4. selections' = selections
      BY <1>3, <2>3
    <3> QED BY <2>3, <3>1, <3>2, <3>3, <3>4
  <2> QED BY <1>1, <2>1, <2>2, <2>3
<1> HIDE DEF result
<1>6. /\ p \in Prompter /\ p.trusted = prompter.trusted /\ p.stored = prompter.stored
      /\ p.promise[o] = result
      /\ \A d \in ClientOrigins : d # o => p.promise[d] = prompter.promise[d]
      /\ \A d \in ClientOrigins : d # o => (d \in p.pending <=> d \in prompter.pending)
      /\ p.pending \subseteq prompter.pending
  <2> DEFINE promise == [prompter.promise EXCEPT ![o] = result]
             pending == IF result = "rejected" THEN prompter.pending \ {o} ELSE prompter.pending
  <2>1. prompter.promise \in [ClientOrigins -> {"none", "checking", "dialog", "granted", "rejected"}]
        /\ prompter.pending \subseteq ClientOrigins
    BY <1>2 DEF Prompter
  <2>2. /\ promise \in [ClientOrigins -> {"none", "checking", "dialog", "granted", "rejected"}]
        /\ promise[o] = result
        /\ \A d \in ClientOrigins : d # o => promise[d] = prompter.promise[d]
    BY <1>5, <2>1
  <2>3. /\ pending \subseteq prompter.pending /\ pending \subseteq ClientOrigins
        /\ \A d \in ClientOrigins : d # o => (d \in pending <=> d \in prompter.pending)
    BY <2>1
  <2> HIDE DEF promise, pending
  <2>4. p = [prompter EXCEPT !.promise = promise, !.pending = pending]
    BY DEF promise, pending
  <2>5. p \in Prompter /\ p.trusted = prompter.trusted /\ p.stored = prompter.stored
        /\ p.promise = promise /\ p.pending = pending
    BY <1>2, <2>2, <2>3, <2>4 DEF Prompter
  <2> QED BY <2>2, <2>3, <2>5
<1> HIDE DEF p
<1>7. ASSUME NEW d \in ClientOrigins
      PROVE  /\ PromiseRight(d, p, prompt, selections', allowedOnce)
             /\ p.promise[d] = "checking" => selections'[d] = selections[d]
             /\ MayGrant(d, prompter, selections, allowedOnce) => MayGrant(d, p, selections', allowedOnce)
             /\ prompter.promise[d] = "rejected" => p.promise[d] = "rejected"
  <2>1. MayGrant(d, prompter, selections, allowedOnce) => MayGrant(d, p, selections', allowedOnce)
    BY <1>3, <1>6 DEF MayGrant
  <2>2. CASE d = o
    <3>1. result = "granted" => MayGrant(o, p, selections', allowedOnce)
      BY <1>5, <1>6 DEF MayGrant
    <3>2. result = "rejected" => MayRefuse(o, p, selections', prompt)
      BY <1>5 DEF MayRefuse
    <3>3. prompt[o] = "cancelled" => o \notin p.pending
      BY <1>4, <1>6 DEF PromiseRight
    <3>4. PromiseRight(o, p, prompt, selections', allowedOnce)
      BY <1>1, <1>5, <1>6, <3>1, <3>2, <3>3 DEF PromiseRight, Permitting!Settled
    <3> QED BY <1>1, <1>5, <1>6, <2>1, <2>2, <3>4
  <2>3. CASE d # o
    <3>1. PromiseRight(d, prompter, prompt, selections, allowedOnce)
      BY DEF PermissionsInv, PermissionsRight
    <3>2. MayRefuse(d, prompter, selections, prompt) => MayRefuse(d, p, selections', prompt)
      BY <1>3, <1>6, <2>3 DEF MayRefuse
    <3>3. PromiseRight(d, p, prompt, selections', allowedOnce)
      BY <1>6, <2>1, <2>3, <3>1, <3>2 DEF PromiseRight
    <3> QED BY <1>3, <1>6, <2>1, <2>3, <3>3
  <2> QED BY <2>2, <2>3
<1> QED BY <1>1, <1>3, <1>6, <1>7, PrompterKeeps

LEMMA ManagedStorageLoadedKeeps ==
  ASSUME Permitting!PermissionsAssumption, PermissionsInv,
         NEW ok \in BOOLEAN, NEW origins \in SUBSET ClientOrigins,
         Permitting!ManagedStorageLoaded(ok, origins)
  PROVE  PermissionsInv'
<1> DEFINE allowed == IF ok THEN origins ELSE registry.allowed
           waiting == Permitting!ToSet(registry.waiting)
           granted == {c \in waiting : ok /\ check[c].origin \in allowed}
           asking == waiting \ granted
           is(o) == {i \in DOMAIN registry.waiting :
                       registry.waiting[i] \in asking /\ check[registry.waiting[i]].origin = o}
           latest(o) == IF is(o) = {} THEN registry.resolver[o]
                        ELSE registry.waiting[Permitting!Max(is(o))]
           checks == [c \in Connections |->
                        IF c \in asking THEN [check[c] EXCEPT !.state = "user"] ELSE check[c]]
           wanted == {check[c].origin : c \in asking}
           p == Permitting!Checked(prompter, wanted)
           r == [loaded |-> IF ok THEN "resolved" ELSE "rejected", waiting |-> <<>>,
                 allowed |-> allowed, resolver |-> [o \in ClientOrigins |-> latest(o)]]
<1>1. /\ Permitting!Settle(checks, granted, p, r)
      /\ allowedOnce' = allowedOnce \cup allowed /\ selections' = selections
  BY DEF Permitting!ManagedStorageLoaded
<1>2. /\ NullOrigin \notin ClientOrigins /\ NoConnection \notin Connections
      /\ PermissionsTypes
  BY DEF Permitting!PermissionsAssumption, PermissionsInv
<1>3. registry.waiting \in Seq(Connections) /\ registry \in Registry /\ check \in [Connections -> Check]
  BY <1>2 DEF PermissionsTypes, Registry
<1>4. AskingRight(check, registry)
  BY DEF PermissionsInv, PermissionsRight
<1>5. /\ \A c \in waiting : c \in Connections /\ check[c].state = "managed" /\ check[c].origin \in ClientOrigins
      /\ \A i \in DOMAIN registry.waiting : registry.waiting[i] \in waiting
  <2>1. \A c \in waiting : \E i \in DOMAIN registry.waiting : c = registry.waiting[i]
    BY DEF Permitting!ToSet
  <2>2. \A i \in DOMAIN registry.waiting : registry.waiting[i] \in waiting
    BY DEF Permitting!ToSet
  <2>3. \A c \in Connections : check[c].origin \in ClientOrigins \cup {NullOrigin}
    BY <1>3 DEF Check
  <2> QED BY <1>3, <1>4, <2>1, <2>2, <2>3 DEF AskingRight
<1> HIDE DEF waiting
<1>6. /\ \A c \in granted : c \in waiting /\ check[c].origin \in allowed
      /\ \A c \in asking : c \in waiting
  OBVIOUS
<1>7. ASSUME NEW o \in ClientOrigins
      PROVE  \/ latest(o) = registry.resolver[o]
             \/ latest(o) \in asking /\ check[latest(o)].origin = o
  <2>1. is(o) # {} => Permitting!Max(is(o)) \in is(o)
    <3>1. is(o) \in SUBSET (1 .. Len(registry.waiting)) /\ Len(registry.waiting) \in Nat
      BY <1>3
    <3> HIDE DEF is
    <3> QED BY <3>1, GreatestIndex
  <2> QED BY <2>1
<1> HIDE DEF granted, asking
<1>8. /\ checks \in [Connections -> Check]
      /\ \A c \in Connections : /\ checks[c].origin = check[c].origin
                                /\ c \in asking => checks[c].state = "user"
                                /\ c \notin asking => checks[c] = check[c]
  BY <1>3 DEF Check
<1> HIDE DEF checks, latest, is
<1>9. wanted \in SUBSET ClientOrigins
  BY <1>5, <1>6
<1>10. allowed \subseteq ClientOrigins
  BY <1>3 DEF Registry
<1> HIDE DEF wanted, allowed
<1>11. /\ p \in Prompter
       /\ \A o \in ClientOrigins : PromiseRight(o, p, prompt, selections', allowedOnce')
       /\ \A c \in Connections : CheckRight(c, check, p, selections', allowedOnce')
  BY <1>1, <1>9, CheckedIs
<1> HIDE DEF p
<1>12. ASSUME NEW o \in ClientOrigins
       PROVE  /\ latest(o) \in Connections \cup {NoConnection}
              /\ latest(o) # NoConnection =>
                   checks[latest(o)].origin = o /\ checks[latest(o)].state = "user"
  <2>1. /\ registry.resolver[o] \in Connections \cup {NoConnection}
        /\ MonitoredRight(o, check, registry)
    BY <1>3 DEF PermissionsInv, PermissionsRight, Registry
  <2>2. CASE latest(o) = registry.resolver[o]
    <3> DEFINE c == registry.resolver[o]
    <3>1. c # NoConnection => c \in Connections /\ check[c].origin = o /\ check[c].state = "user"
      BY <2>1 DEF MonitoredRight
    <3>2. c # NoConnection => checks[c].origin = o /\ checks[c].state = "user"
      BY <1>8, <3>1
    <3> QED BY <2>1, <2>2, <3>2
  <2>3. CASE latest(o) \in asking /\ check[latest(o)].origin = o
    BY <1>5, <1>6, <1>8, <2>3
  <2> QED BY <1>7, <2>2, <2>3
<1>13. /\ r \in Registry /\ r.allowed = allowed /\ r.waiting = <<>>
       /\ \A o \in ClientOrigins : r.resolver[o] = latest(o)
  BY <1>10, <1>12 DEF Registry
<1> HIDE DEF r
<1>14. \A o \in ClientOrigins : MonitoredRight(o, checks, r)
  BY <1>12, <1>13 DEF MonitoredRight
<1>15. \A c \in Connections : CheckRight(c, checks, p, selections', allowedOnce')
  BY <1>8, <1>11 DEF CheckRight
<1>16. AskingRight(checks, r) /\ \A i \in DOMAIN r.waiting : r.waiting[i] \notin granted
  <2>1. DOMAIN r.waiting = {}
    BY <1>13
  <2>2. \A c \in Connections : checks[c].state \in {"managed", "user"} => checks[c].origin # NullOrigin
    BY <1>2, <1>4, <1>5, <1>6, <1>8 DEF AskingRight
  <2> QED BY <2>1, <2>2 DEF AskingRight
<1>17. \A c \in granted : MayGrant(checks[c].origin, p, selections', allowedOnce')
  BY <1>1, <1>5, <1>6, <1>8 DEF MayGrant
<1>18. /\ selections' \in [ClientOrigins -> {"none", "allow", "deny"}]
       /\ allowedOnce' \subseteq ClientOrigins /\ r.allowed \subseteq allowedOnce'
       /\ \A o \in ClientOrigins : selections'[o] = selections[o]
       /\ granted \in SUBSET Connections
  BY <1>1, <1>2, <1>5, <1>6, <1>10, <1>13 DEF PermissionsTypes
<1> QED BY <1>1, <1>2, <1>8, <1>11, <1>13, <1>14, <1>15, <1>16, <1>17, <1>18, SettleKeeps

\* A page that starts has settled nothing.
PageStarts ==
  /\ selections \in [ClientOrigins -> {"none", "allow", "deny"}]
  /\ registry = Permitting!NewRegistry /\ prompter = Permitting!NewPrompter
  /\ check = [c \in Connections |-> Permitting!NoCheck]
  /\ prompt = [o \in ClientOrigins |-> "none"] /\ allowedOnce = {}

LEMMA PermissionsStart == PageStarts => PermissionsInv
<1> SUFFICES ASSUME PageStarts PROVE PermissionsInv
  OBVIOUS
<1> USE DEF PageStarts
<1>1. PermissionsTypes
  <2>1. registry \in Registry
    BY DEF Permitting!NewRegistry, Registry
  <2>2. prompter \in Prompter
    BY DEF Permitting!NewPrompter, Prompter, Permitting!Trusted
  <2> QED BY <2>1, <2>2 DEF PermissionsTypes, Permitting!NoCheck, Check, PromptStates
<1>2. ASSUME NEW o \in ClientOrigins
      PROVE  /\ PromiseRight(o, prompter, prompt, selections, allowedOnce)
             /\ MonitoredRight(o, check, registry)
  <2>1. prompter.promise[o] = "none" /\ registry.resolver[o] = NoConnection
    BY DEF Permitting!NewPrompter, Permitting!NewRegistry
  <2> QED BY <2>1 DEF PromiseRight, MonitoredRight, Permitting!Settled
<1>3. \A c \in Connections : CheckRight(c, check, prompter, selections, allowedOnce)
  BY DEF CheckRight, Permitting!NoCheck
<1>4. AskingRight(check, registry) /\ registry.allowed \subseteq allowedOnce
  BY DEF AskingRight, Permitting!NoCheck, Permitting!NewRegistry
<1> QED BY <1>1, <1>2, <1>3, <1>4 DEF PermissionsInv, PermissionsRight

\* A connection is granted the permission and refused it for a reason, in every
\* order of the policy's, the storage's, the user's and the clients' events.
THEOREM PermissionsSettledForReason == Spec => []SettledForReason
<1>1. Init => PermissionsInv
  BY PermissionsStart DEF Init, Permitting!Init, PageStarts
<1>2. Permitting!PermissionsAssumption
  BY ComponentsAssumption
<1>3. PermissionsInv /\ [Next]_vars => PermissionsInv'
  <2> SUFFICES ASSUME PermissionsInv, [Next]_vars PROVE PermissionsInv'
    OBVIOUS
  <2>1. CASE UNCHANGED permissionsVars
    <3>1. UNCHANGED <<registry, prompter, check, prompt, selections, allowedOnce>>
      BY <2>1 DEF permissionsVars
    <3>2. PermissionsTypes' /\ PermissionsRight'
      BY <3>1 DEF PermissionsInv, PermissionsTypes, PermissionsRight
    <3> QED BY <3>2 DEF PermissionsInv
  <2>2. ASSUME NEW c \in Connections, NEW o \in ClientOrigins \cup {NullOrigin},
               Permitting!Connect(c, o)
        PROVE  PermissionsInv'
    BY <1>2, <2>2, ConnectKeeps
  <2>3. ASSUME NEW ok \in BOOLEAN, NEW origins \in SUBSET ClientOrigins,
               \/ Permitting!StorageChanged(ok, origins)
               \/ Permitting!ManagedStorageLoaded(ok, origins)
        PROVE  PermissionsInv'
    BY <1>2, <2>3, StorageChangedKeeps, ManagedStorageLoadedKeeps
  <2>4. CASE \/ \E t \in Permitting!Trusted : Permitting!TrustedClientsLoaded(t)
             \/ \E state \in {"loaded", "failed"} : Permitting!LocalStorageLoaded(state)
    BY <1>2, <2>4, LoadedKeeps
  <2>5. ASSUME NEW o \in ClientOrigins,
               Permitting!WindowCreated(o) \/ Permitting!PromptStep(o)
        PROVE  PermissionsInv'
    BY <1>2, <2>5, PromptMovesKeep, PromptEndsKeeps DEF Permitting!PromptStep
  <2>6. CASE Permitting!Restart
    <3>1. selections \in [ClientOrigins -> {"none", "allow", "deny"}]
      BY DEF PermissionsInv, PermissionsTypes
    <3>2. PageStarts'
      BY <2>6, <3>1 DEF PageStarts, Permitting!Restart
    <3>3. (PageStarts => PermissionsInv)'
      BY PermissionsStart, PTL
    <3> QED BY <3>2, <3>3
  <2>7. UNCHANGED permissionsVars \/ Permitting!Next
    BY DEF Next, vars
  <2> QED BY <2>1, <2>2, <2>3, <2>4, <2>5, <2>6, <2>7 DEF Permitting!Next, Permitting!Loads
<1>4. PermissionsInv => SettledForReason
  <2> SUFFICES ASSUME PermissionsInv, NEW c \in Connections, check[c].origin # NullOrigin
               PROVE  LET o == check[c].origin IN
                      /\ check[c].state = "granted" => MayGrant(o, prompter, selections, allowedOnce)
                      /\ check[c].state = "rejected" => MayRefuse(o, prompter, selections, prompt)
    BY DEF SettledForReason, Permitting!SettledForReason, MayGrant, MayRefuse
  <2> DEFINE o == check[c].origin
  <2>1. o \in ClientOrigins
    BY DEF PermissionsInv, PermissionsTypes, Check
  <2>2. /\ check[c].state = "granted" => MayGrant(o, prompter, selections, allowedOnce)
        /\ check[c].state = "rejected" => prompter.promise[o] = "rejected"
    BY DEF PermissionsInv, PermissionsRight, CheckRight
  <2>3. prompter.promise[o] = "rejected" => MayRefuse(o, prompter, selections, prompt)
    BY <2>1 DEF PermissionsInv, PermissionsRight, PromiseRight
  <2> QED BY <2>2, <2>3
<1> QED BY <1>1, <1>3, <1>4, PTL DEF Spec

-----------------------------------------------------------------------------
\* Dialogs.
Ids == Popups!Ids
PortEvents == [type : {"connect", "value", "error", "gone"}, value : Nat]
Dialog ==
  [id : WindowIds \cup {NoWindowId}, result : {"none", "pending", "resolved", "rejected"},
   value : Nat, awaits : {"nothing", "port", "message"},
   window : {"none", "open", "shown", "closing", "closed"}, told : BOOLEAN,
   port : Seq(PortEvents), user : {"nothing", "entered", "cancelled"},
   answer : {"none", "resolved", "rejected"}]

\* What resolves a dialog, or is on its way to do so, was entered into it, which
\* closes its window; its port is there from when its popup is shown, and ends
\* when the window has gone, which the opener has not heard of while it waits.
DialogRight(d, x) ==
  /\ x.result = "resolved" => x.user = "entered" /\ x.value = d
  /\ \A i \in DOMAIN x.port : x.port[i].type = "value" => x.port[i].value = d /\ x.user = "entered"
  /\ x.user = "entered" => x.window \in {"closing", "closed"}
  /\ x.window \in {"none", "open"} => x.port = <<>> /\ x.awaits # "message"
  /\ x.window = "closed" /\ x.port # <<>> => x.port[Len(x.port)].type = "gone"
  /\ x.window = "closed" /\ x.awaits = "message" => x.port # <<>>

DialogsRight(dialogs) ==
  /\ dialogs \in [Ids -> Dialog]
  /\ \A d \in Ids : DialogRight(d, dialogs[d])

WindowMap == [WindowIds \cup {NoWindowId} -> Ids \cup {0}]

DialogsInv ==
  /\ DialogsRight(dialog) /\ windowIdMap \in WindowMap
  /\ lastUsedPopupId \in 0 .. MaxDialogs
  /\ \A d \in Ids : d > lastUsedPopupId => dialog[d].window = "none"

\* One more event at the end of a dialog's port.
LEMMA PostKeeps ==
  ASSUME NEW d \in Ids, NEW x \in Dialog, DialogRight(d, x), NEW m \in PortEvents,
         x.window = "shown", m.type # "value"
  PROVE  LET y == [x EXCEPT !.port = Append(x.port, m)] IN y \in Dialog /\ DialogRight(d, y)
<1> DEFINE events == Append(x.port, m)
<1>1. /\ events \in Seq(PortEvents)
      /\ \A i \in DOMAIN events : events[i] = m \/ (i \in DOMAIN x.port /\ events[i] = x.port[i])
  BY DEF Dialog
<1> HIDE DEF events
<1> DEFINE y == [x EXCEPT !.port = events]
<1>2. /\ y \in Dialog /\ y.port = events /\ y.window = x.window /\ y.result = x.result
      /\ y.user = x.user /\ y.value = x.value /\ y.awaits = x.awaits
  BY <1>1 DEF Dialog
<1> HIDE DEF y
<1>3. \A i \in DOMAIN events : events[i].type = "value" => events[i].value = d /\ x.user = "entered"
  BY <1>1 DEF DialogRight
<1>4. DialogRight(d, y)
  BY <1>2, <1>3 DEF DialogRight
<1> QED BY <1>2, <1>4 DEF y, events

LEMMA RejectionKeeps ==
  ASSUME NEW d \in Ids, NEW x \in Dialog, DialogRight(d, x)
  PROVE  LET y == Popups!Rejection(x) IN
         /\ y \in Dialog /\ DialogRight(d, y)
         /\ x.window # "shown" => y = x
         /\ x.window = "shown" => y.window = "closing"
<1>1. Popups!Event("error") \in PortEvents /\ Popups!Event("error").type # "value"
  BY DEF Popups!Event, PortEvents
<1>2. CASE x.window = "shown"
  <2> DEFINE z == [x EXCEPT !.port = Append(x.port, Popups!Event("error"))]
  <2>1. z \in Dialog /\ DialogRight(d, z) /\ z.window = "shown"
    BY <1>1, <1>2, PostKeeps DEF Dialog
  <2>2. Popups!Rejection(x) = [z EXCEPT !.window = "closing"]
    BY <1>2 DEF Popups!Rejection, Popups!RejectModalDialog, Popups!CloseWindow
  <2> HIDE DEF z
  <2> QED BY <1>2, <2>1, <2>2 DEF Dialog, DialogRight
<1>3. CASE x.window # "shown"
  BY <1>3 DEF Popups!Rejection
<1> QED BY <1>2, <1>3

LEMMA WindowRemovedKeeps ==
  ASSUME NEW dialogs, DialogsRight(dialogs), NEW w \in Ids, NEW hears \in BOOLEAN,
         dialogs[w].window \in {"open", "shown", "closing"}
  PROVE  LET gone == Popups!WindowRemoved(dialogs, w, hears) IN
         /\ DialogsRight(gone)
         /\ \A d \in Ids : dialogs[d].window = "none" => gone[d].window = "none"
<1> DEFINE gone == Popups!WindowRemoved(dialogs, w, hears)
           x == dialogs[w]
           last == IF hears THEN Popups!Rejection(x) ELSE x
           events == IF x.window = "open" THEN <<>> ELSE Append(last.port, Popups!Event("gone"))
<1>1. /\ gone = [d \in Ids |-> gone[d]]
      /\ gone[w] = [last EXCEPT !.window = "closed", !.port = events]
      /\ \A d \in Ids : d # w => gone[d] \in {Popups!Rejection(dialogs[d]), dialogs[d]}
  <2>1. gone = [d \in Ids |->
                  IF d = w THEN [last EXCEPT !.window = "closed", !.port = events]
                  ELSE IF mode = "extension" THEN Popups!Rejection(dialogs[d]) ELSE dialogs[d]]
    BY Zenon DEF Popups!WindowRemoved, Ids
  <2> HIDE DEF gone, last, events
  <2> QED BY <2>1
<1>2. x \in Dialog /\ DialogRight(w, x)
  BY DEF DialogsRight
<1>3. /\ last \in Dialog /\ DialogRight(w, last)
      /\ x.window # "shown" => last = x
      /\ x.window = "shown" => last.window \in {"shown", "closing"}
  BY <1>2, RejectionKeeps
<1>4. Popups!Event("gone") \in PortEvents /\ Popups!Event("gone").type = "gone"
  BY DEF Popups!Event, PortEvents
<1>5. /\ events \in Seq(PortEvents)
      /\ \A i \in DOMAIN events : events[i].type = "value" => i \in DOMAIN last.port /\ events[i] = last.port[i]
      /\ events # <<>> => events[Len(events)].type = "gone"
      /\ x.window # "open" => events # <<>>
  <2>1. last.port \in Seq(PortEvents)
    BY <1>3 DEF Dialog
  <2> HIDE DEF last
  <2>2. CASE x.window = "open"
    BY <2>2
  <2>3. CASE x.window # "open"
    <3> DEFINE e == Popups!Event("gone")
    <3> HIDE DEF e
    <3>1. e \in PortEvents /\ e.type = "gone" /\ events = Append(last.port, e)
      BY <1>4, <2>3 DEF e
    <3> HIDE DEF events
    <3>2. /\ events \in Seq(PortEvents) /\ events # <<>> /\ events[Len(events)] = e
          /\ \A i \in DOMAIN events : events[i] = e \/ (i \in DOMAIN last.port /\ events[i] = last.port[i])
      BY <2>1, <3>1
    <3> QED BY <3>1, <3>2
  <2> QED BY <2>2, <2>3
<1> HIDE DEF last, events
<1>6. gone[w] \in Dialog /\ DialogRight(w, gone[w])
  <2> DEFINE y == gone[w]
  <2>1. /\ y \in Dialog /\ y.port = events /\ y.window = "closed"
        /\ y.result = last.result /\ y.user = last.user /\ y.value = last.value
        /\ y.awaits = last.awaits
    BY <1>1, <1>3, <1>5 DEF Dialog
  <2> HIDE DEF gone
  <2>2. x.window = "open" => last.awaits # "message"
    BY <1>2, <1>3 DEF DialogRight
  <2> QED BY <1>3, <1>5, <2>1, <2>2 DEF DialogRight
<1>7. ASSUME NEW d \in Ids, d # w
      PROVE  /\ gone[d] \in Dialog /\ DialogRight(d, gone[d])
             /\ dialogs[d].window = "none" => gone[d].window = "none"
  <2>1. dialogs[d] \in Dialog /\ DialogRight(d, dialogs[d])
    BY DEF DialogsRight
  <2> QED BY <1>1, <1>7, <2>1, RejectionKeeps
<1> HIDE DEF gone
<1>8. DialogsRight(gone)
  BY <1>1, <1>6, <1>7 DEF DialogsRight
<1>9. \A d \in Ids : dialogs[d].window = "none" => gone[d].window = "none"
  BY <1>7
<1> QED BY <1>8, <1>9 DEF gone

LEMMA CancelledKeeps ==
  ASSUME DialogsInv, NEW w \in Ids
  PROVE  LET ds == Popups!Cancelled(w) IN
         /\ DialogsRight(ds)
         /\ \A d \in Ids : ds[d].window = dialog[d].window
<1> DEFINE ds == Popups!Cancelled(w)
           x == dialog[w]
           y == [x EXCEPT !.user = IF x.user = "nothing" THEN "cancelled" ELSE x.user]
<1>1. x \in Dialog /\ DialogRight(w, x) /\ dialog \in [Ids -> Dialog]
  BY DEF DialogsInv, DialogsRight
<1>2. y \in Dialog /\ DialogRight(w, y) /\ y.window = x.window
  BY <1>1 DEF Dialog, DialogRight
<1>3. ds = [dialog EXCEPT ![w] = y]
  BY DEF Popups!Cancelled
<1> HIDE DEF y, ds
<1>4. ds \in [Ids -> Dialog] /\ ds[w] = y /\ \A d \in Ids : d # w => ds[d] = dialog[d]
  BY <1>1, <1>2, <1>3
<1>5. \A d \in Ids : DialogRight(d, ds[d]) /\ ds[d].window = dialog[d].window
  BY <1>2, <1>4 DEF DialogsInv, DialogsRight
<1> QED BY <1>4, <1>5 DEF DialogsRight, ds

\* A step of one dialog that keeps it right.
LEMMA DialogMoves ==
  ASSUME DialogsInv, NEW d \in Ids, NEW y \in Dialog, DialogRight(d, y),
         dialog' = [dialog EXCEPT ![d] = y], lastUsedPopupId' = lastUsedPopupId,
         windowIdMap' \in WindowMap,
         y.window # "none" => dialog[d].window # "none"
  PROVE  DialogsInv'
<1>1. /\ dialog' \in [Ids -> Dialog] /\ dialog'[d] = y
      /\ \A e \in Ids : e # d => dialog'[e] = dialog[e]
  BY DEF DialogsInv, DialogsRight
<1>2. DialogsRight(dialog')
  BY <1>1 DEF DialogsInv, DialogsRight
<1>3. \A e \in Ids : e > lastUsedPopupId' => dialog'[e].window = "none"
  <2> TAKE e \in Ids
  <2>1. e > lastUsedPopupId => dialog[e].window = "none"
    BY DEF DialogsInv
  <2> QED BY <1>1, <2>1
<1> QED BY <1>2, <1>3 DEF DialogsInv

LEMMA DialogsInvIs ==
  ASSUME DialogsInv, NEW d \in Ids
  PROVE  /\ dialog[d] \in Dialog /\ DialogRight(d, dialog[d])
         /\ dialog[d].port \in Seq(PortEvents)
BY DEF DialogsInv, DialogsRight, Dialog

LEMMA RunModalDialogKeeps ==
  ASSUME Popups!DialogsAssumption, DialogsInv, NEW id \in WindowIds \cup {NoWindowId},
         Popups!RunModalDialog(id)
  PROVE  DialogsInv'
<1> DEFINE n == lastUsedPopupId + 1
           x == dialog[n]
           y == [x EXCEPT !.result = "pending", !.awaits = "port", !.id = id, !.window = "open"]
<1>1. MaxDialogs \in Nat /\ lastUsedPopupId \in 0 .. MaxDialogs /\ lastUsedPopupId < MaxDialogs
  BY DEF Popups!DialogsAssumption, DialogsInv, Popups!RunModalDialog
<1>2. n \in Ids /\ n > lastUsedPopupId /\ n \in 0 .. MaxDialogs
  BY <1>1 DEF Ids, Popups!Ids
<1>3. x \in Dialog /\ DialogRight(n, x) /\ x.window = "none"
  BY <1>2, DialogsInvIs DEF DialogsInv
<1>4. /\ dialog' = [dialog EXCEPT ![n] = y] /\ lastUsedPopupId' = n
      /\ windowIdMap' = windowIdMap
  BY DEF Popups!RunModalDialog, Popups!CreateWindow, Popups!WaitForPopupResult
<1>5. y \in Dialog /\ DialogRight(n, y)
  BY <1>3 DEF Dialog, DialogRight
<1> HIDE DEF y
<1>6. /\ dialog' \in [Ids -> Dialog] /\ dialog'[n] = y
      /\ \A e \in Ids : e # n => dialog'[e] = dialog[e]
  BY <1>2, <1>4, <1>5 DEF DialogsInv, DialogsRight
<1>7. DialogsRight(dialog')
  BY <1>5, <1>6 DEF DialogsInv, DialogsRight
<1>8. \A e \in Ids : e > n => dialog'[e].window = "none"
  <2> TAKE e \in Ids
  <2> HAVE e > n
  <2>1. e \in Nat /\ e # n /\ e > lastUsedPopupId
    BY <1>1 DEF Ids, Popups!Ids
  <2> QED BY <1>6, <2>1 DEF DialogsInv
<1> QED BY <1>2, <1>4, <1>7, <1>8 DEF DialogsInv

LEMMA PopupStepKeeps ==
  ASSUME DialogsInv, NEW d \in Ids,
         \/ Popups!CreateWindowCallback(d) \/ Popups!OpenChannelToPopupOpener(d)
         \/ Popups!OkClick(d) \/ Popups!CancelClick(d) \/ Popups!EscapeKey(d)
         \/ Popups!PinResponse(d)
  PROVE  DialogsInv'
<1> DEFINE x == dialog[d]
<1>1. x \in Dialog /\ DialogRight(d, x) /\ x.port \in Seq(PortEvents)
  BY DialogsInvIs
<1>2. d \in Nat
  BY DEF Ids, Popups!Ids
<1>3. /\ Popups!Event("connect") \in PortEvents /\ Popups!Event("connect").type = "connect"
      /\ Popups!Event("error") \in PortEvents /\ Popups!Event("error").type = "error"
      /\ Popups!Value(d) \in PortEvents /\ Popups!Value(d).value = d
  BY <1>2 DEF Popups!Event, Popups!Value, PortEvents
<1>4. lastUsedPopupId' = lastUsedPopupId
  BY DEF Popups!CreateWindowCallback, Popups!OpenChannelToPopupOpener, Popups!OkClick,
         Popups!CancelClick, Popups!EscapeKey, Popups!PinResponse
<1>10. windowIdMap' \in WindowMap
  <2>1. \/ windowIdMap' = windowIdMap
        \/ windowIdMap' = [windowIdMap EXCEPT ![x.id] = d]
    BY DEF Popups!CreateWindowCallback, Popups!OpenChannelToPopupOpener, Popups!OkClick,
           Popups!CancelClick, Popups!EscapeKey, Popups!PinResponse
  <2>2. windowIdMap \in WindowMap
    BY DEF DialogsInv
  <2> QED BY <2>1, <2>2 DEF WindowMap
<1>5. CASE Popups!CreateWindowCallback(d)
  <2> DEFINE y == [x EXCEPT !.told = TRUE]
  <2>1. y \in Dialog /\ DialogRight(d, y) /\ y.window = x.window
    BY <1>1 DEF Dialog, DialogRight
  <2>2. dialog' = [dialog EXCEPT ![d] = y]
    BY <1>5 DEF Popups!CreateWindowCallback
  <2> HIDE DEF y
  <2> QED BY <1>4, <1>10, <2>1, <2>2, DialogMoves
<1>6. CASE Popups!PinResponse(d)
  <2> DEFINE y == [x EXCEPT !.answer = x.result]
  <2>1. y \in Dialog /\ DialogRight(d, y) /\ y.window = x.window
    BY <1>1, <1>6 DEF Dialog, DialogRight, Popups!PinResponse
  <2>2. dialog' = [dialog EXCEPT ![d] = y]
    BY <1>6 DEF Popups!PinResponse
  <2> HIDE DEF y
  <2> QED BY <1>4, <1>10, <2>1, <2>2, DialogMoves
<1>7. CASE Popups!OpenChannelToPopupOpener(d)
  <2> DEFINE events == <<Popups!Event("connect")>>
             y == [x EXCEPT !.port = events, !.window = "shown"]
  <2>1. x.window = "open" /\ dialog' = [dialog EXCEPT ![d] = y]
    BY <1>7 DEF Popups!OpenChannelToPopupOpener, Popups!PrepareAndShow
  <2>2. events \in Seq(PortEvents) /\ \A i \in DOMAIN events : events[i].type = "connect"
    BY <1>3
  <2> HIDE DEF events
  <2>3. y \in Dialog /\ DialogRight(d, y)
    BY <1>1, <2>1, <2>2 DEF Dialog, DialogRight
  <2> HIDE DEF y
  <2> QED BY <1>4, <1>10, <2>1, <2>3, DialogMoves
<1>8. CASE Popups!OkClick(d)
  <2> DEFINE events == Append(x.port, Popups!Value(d))
             y == [x EXCEPT !.user = "entered", !.port = events, !.window = "closing"]
  <2>1. x.window = "shown" /\ dialog' = [dialog EXCEPT ![d] = y]
    BY <1>8 DEF Popups!OkClick, Popups!ResolveModalDialog, Popups!CloseWindow
  <2>2. events \in Seq(PortEvents)
        /\ \A i \in DOMAIN events : events[i] = Popups!Value(d) \/ (i \in DOMAIN x.port /\ events[i] = x.port[i])
    BY <1>1, <1>3
  <2>3. \A i \in DOMAIN events : events[i].type = "value" => events[i].value = d
    BY <1>1, <1>3, <2>2 DEF DialogRight
  <2> HIDE DEF events
  <2>4. /\ y \in Dialog /\ y.port = events /\ y.user = "entered" /\ y.window = "closing"
        /\ y.result = x.result /\ y.value = x.value /\ y.awaits = x.awaits
    BY <1>1, <2>2 DEF Dialog
  <2> HIDE DEF y
  <2>5. DialogRight(d, y)
    BY <1>1, <2>1, <2>3, <2>4 DEF DialogRight
  <2> QED BY <1>4, <1>10, <2>1, <2>4, <2>5, DialogMoves
<1>9. CASE Popups!CancelClick(d) \/ Popups!EscapeKey(d)
  <2> DEFINE z == [x EXCEPT !.user = "cancelled"]
  <2>1. x.window = "shown"
    BY <1>9 DEF Popups!CancelClick, Popups!EscapeKey
  <2>2. z \in Dialog /\ DialogRight(d, z) /\ z.window = "shown" /\ z.port = x.port
    BY <1>1, <2>1 DEF Dialog, DialogRight
  <2>3. CASE Popups!CancelClick(d)
    <3> DEFINE y == Popups!Rejection(z)
    <3>1. dialog' = [dialog EXCEPT ![d] = y]
      BY <2>2, <2>3 DEF Popups!CancelClick, Popups!Rejection
    <3>2. y \in Dialog /\ DialogRight(d, y)
      BY <2>2, RejectionKeeps
    <3> HIDE DEF y
    <3> QED BY <1>4, <1>10, <2>1, <3>1, <3>2, DialogMoves
  <2>4. CASE Popups!EscapeKey(d)
    <3> DEFINE y == [x EXCEPT !.user = "cancelled", !.window = "closing"]
    <3>1. dialog' = [dialog EXCEPT ![d] = y]
      BY <2>4 DEF Popups!EscapeKey, Popups!CloseWindow
    <3>2. y \in Dialog /\ DialogRight(d, y)
      BY <1>1, <2>1 DEF Dialog, DialogRight
    <3> HIDE DEF y
    <3> QED BY <1>4, <1>10, <2>1, <3>1, <3>2, DialogMoves
  <2> QED BY <1>9, <2>3, <2>4
<1> QED BY <1>5, <1>6, <1>7, <1>8, <1>9

LEMMA WindowsKeep ==
  ASSUME DialogsInv,
         \/ \E w \in Ids : Popups!WindowCloses(w)
         \/ Popups!OtherWindowCloses
         \/ \E id \in WindowIds : Popups!CloseModalDialog(id)
  PROVE  DialogsInv'
<1>1. lastUsedPopupId' = lastUsedPopupId
  BY DEF Popups!WindowCloses, Popups!OtherWindowCloses, Popups!CloseModalDialog
<1>2. DialogsRight(dialog)
  BY DEF DialogsInv
<1>8. windowIdMap' \in WindowMap
  <2>1. windowIdMap \in WindowMap
    BY DEF DialogsInv
  <2>2. \/ windowIdMap' = windowIdMap
        \/ \E id \in WindowIds : windowIdMap' = [windowIdMap EXCEPT ![id] = 0]
    BY DEF Popups!WindowCloses, Popups!OtherWindowCloses, Popups!CloseModalDialog,
           Popups!ObserveWindowRemoval
  <2> QED BY <2>1, <2>2 DEF WindowMap
<1>3. SUFFICES /\ DialogsRight(dialog')
               /\ \A d \in Ids : dialog[d].window = "none" => dialog'[d].window = "none"
  BY <1>1, <1>8 DEF DialogsInv
<1>4. ASSUME NEW w \in Ids, Popups!Exists(w), NEW hears \in BOOLEAN,
             NEW dialogs \in {dialog, Popups!Cancelled(w)},
             dialog' = Popups!WindowRemoved(dialogs, w, hears)
      PROVE  /\ DialogsRight(dialog')
             /\ \A d \in Ids : dialog[d].window = "none" => dialog'[d].window = "none"
  <2>1. DialogsRight(dialogs) /\ \A d \in Ids : dialogs[d].window = dialog[d].window
    BY <1>2, CancelledKeeps
  <2>2. dialogs[w].window \in {"open", "shown", "closing"}
    BY <1>4, <2>1 DEF Popups!Exists
  <2> QED BY <1>4, <2>1, <2>2, WindowRemovedKeeps
<1>5. CASE \E w \in Ids : Popups!WindowCloses(w)
  <2>1. PICK w \in Ids : Popups!WindowCloses(w)
    BY <1>5
  <2>2. Popups!Exists(w) /\ \E hears \in BOOLEAN :
          \/ dialog' = Popups!WindowRemoved(dialog, w, hears)
          \/ dialog' = Popups!WindowRemoved(Popups!Cancelled(w), w, hears)
    BY <2>1 DEF Popups!WindowCloses
  <2> QED BY <1>4, <2>2
<1>6. CASE Popups!OtherWindowCloses
  <2>1. dialog' = [d \in Ids |-> Popups!Rejection(dialog[d])]
    BY <1>6 DEF Popups!OtherWindowCloses, Ids
  <2>2. ASSUME NEW d \in Ids
        PROVE  /\ dialog'[d] \in Dialog /\ DialogRight(d, dialog'[d])
               /\ dialog[d].window = "none" => dialog'[d].window = "none"
    BY <2>1, DialogsInvIs, RejectionKeeps
  <2>3. dialog' \in [Ids -> Dialog]
    BY <2>1, <2>2
  <2> QED BY <2>2, <2>3 DEF DialogsRight
<1>7. CASE \E id \in WindowIds : Popups!CloseModalDialog(id)
  <2>1. PICK id \in WindowIds : Popups!CloseModalDialog(id)
    BY <1>7
  <2> DEFINE ws == IF mode = "app" THEN {w \in Ids : dialog[w].id = id} ELSE {windowIdMap[id]} \ {0}
             gone == {w \in ws : Popups!Exists(w)}
  <2>2. \/ dialog' = dialog
        \/ \E w \in gone, hears \in BOOLEAN :
             dialog' = Popups!WindowRemoved(Popups!Cancelled(w), w, hears)
    BY <2>1 DEF Popups!CloseModalDialog, Ids
  <2>3. \A w \in gone : w \in Ids /\ Popups!Exists(w)
    BY DEF DialogsInv, WindowMap
  <2> QED BY <1>2, <1>4, <2>2, <2>3
<1> QED BY <1>5, <1>6, <1>7

LEMMA PortEventKeeps ==
  ASSUME DialogsInv, NEW p \in Ids, Popups!PortEvent(p)
  PROVE  DialogsInv'
<1> DEFINE x == dialog[p]
           m == Head(x.port)
           heard == CASE m.type = "connect" -> [d \in Ids |-> Popups!OnConnect(d, p)]
                      [] m.type = "value" -> [dialog EXCEPT ![p] = Popups!Settle(x, "resolved", m.value)]
                      [] OTHER -> [dialog EXCEPT ![p] = Popups!Settle(x, "rejected", 0)]
           y == [heard[p] EXCEPT !.port = Tail(heard[p].port)]
<1>1. x \in Dialog /\ DialogRight(p, x) /\ x.port \in Seq(PortEvents)
  BY DialogsInvIs
<1>2. /\ x.port # <<>> /\ lastUsedPopupId' = lastUsedPopupId /\ windowIdMap' = windowIdMap
      /\ dialog' = [heard EXCEPT ![p] = y]
  BY DEF Popups!PortEvent, Ids
<1>3. \A d \in Ids : d # p => Popups!OnConnect(d, p) = dialog[d]
  BY DEF Popups!OnConnect
<1>4. heard[p] = CASE m.type = "connect" -> Popups!OnConnect(p, p)
                   [] m.type = "value" -> Popups!Settle(x, "resolved", m.value)
                   [] OTHER -> Popups!Settle(x, "rejected", 0)
  BY DEF DialogsInv, DialogsRight
<1>5. DOMAIN heard = Ids /\ \A d \in Ids : d # p => heard[d] = dialog[d]
  BY <1>3 DEF DialogsInv, DialogsRight
<1> HIDE DEF heard
<1>6. /\ Tail(x.port) \in Seq(PortEvents) /\ m \in PortEvents
      /\ \A i \in DOMAIN Tail(x.port) : i + 1 \in DOMAIN x.port /\ Tail(x.port)[i] = x.port[i + 1]
      /\ 1 \in DOMAIN x.port /\ x.port[1] = m
      /\ Tail(x.port) # <<>> =>
           Tail(x.port)[Len(Tail(x.port))] = x.port[Len(x.port)]
      /\ Tail(x.port) = <<>> => m = x.port[Len(x.port)]
  BY <1>1, <1>2, TailIs
<1> DEFINE z == heard[p]
           rest == Tail(x.port)
<1>7. /\ z \in Dialog /\ z.port = x.port /\ z.window = x.window /\ z.user = x.user
      /\ m.type = "connect" => z.result = x.result /\ z.value = x.value
      /\ m.type # "connect" => z.awaits # "message"
      /\ z.result = "resolved" => \/ x.result = "resolved" /\ z.value = x.value
                                  \/ m.type = "value" /\ z.value = m.value
  <2>1. m.value \in Nat /\ 0 \in Nat
    BY <1>6 DEF PortEvents
  <2>2. CASE m.type = "connect"
    <3>1. z = Popups!OnConnect(p, p)
      BY <1>4, <2>2
    <3>2. z = x \/ z = [x EXCEPT !.awaits = "message"]
      BY <3>1 DEF Popups!OnConnect
    <3> HIDE DEF z
    <3> QED BY <1>1, <2>2, <3>2 DEF Dialog
  <2>3. CASE m.type = "value"
    <3>1. z = Popups!Settle(x, "resolved", m.value)
      BY <1>4, <2>3
    <3>2. \/ z = x /\ x.awaits # "message"
          \/ z = [x EXCEPT !.awaits = "nothing", !.result = "resolved", !.value = m.value]
      BY <3>1 DEF Popups!Settle
    <3> HIDE DEF z
    <3> QED BY <1>1, <2>1, <2>3, <3>2 DEF Dialog
  <2>4. CASE m.type \notin {"connect", "value"}
    <3>1. z = Popups!Settle(x, "rejected", 0)
      BY <1>4, <2>4
    <3>2. \/ z = x /\ x.awaits # "message"
          \/ z = [x EXCEPT !.awaits = "nothing", !.result = "rejected", !.value = 0]
      BY <3>1 DEF Popups!Settle
    <3> HIDE DEF z
    <3> QED BY <1>1, <2>1, <2>4, <3>2 DEF Dialog
  <2> QED BY <2>2, <2>3, <2>4
<1> HIDE DEF z, rest
<1>8. /\ y \in Dialog /\ y.port = rest /\ y.window = z.window /\ y.user = z.user
      /\ y.result = z.result /\ y.value = z.value /\ y.awaits = z.awaits
  BY <1>6, <1>7 DEF Dialog, rest, z
<1> HIDE DEF y
<1>9. DialogRight(p, y)
  <2>1. x.window \notin {"none", "open"}
    BY <1>1, <1>2 DEF DialogRight
  <2>2. m.type = "value" => m.value = p /\ x.user = "entered"
    BY <1>1, <1>6 DEF DialogRight
  <2>3. y.result = "resolved" => y.user = "entered" /\ y.value = p
    BY <1>1, <1>7, <1>8, <2>2 DEF DialogRight
  <2>4. \A i \in DOMAIN y.port : y.port[i].type = "value" => y.port[i].value = p /\ y.user = "entered"
    BY <1>1, <1>6, <1>7, <1>8 DEF DialogRight, rest
  <2>5. y.window = "closed" /\ y.port # <<>> => y.port[Len(y.port)].type = "gone"
    BY <1>1, <1>2, <1>6, <1>7, <1>8 DEF DialogRight, rest
  <2>6. y.window = "closed" /\ y.awaits = "message" => y.port # <<>>
    <3> SUFFICES ASSUME y.window = "closed", y.awaits = "message", rest = <<>>
                 PROVE  FALSE
      BY <1>8
    <3>1. m.type = "gone"
      BY <1>1, <1>2, <1>6, <1>7, <1>8 DEF DialogRight, rest
    <3> QED BY <1>7, <1>8, <3>1
  <2> QED BY <1>1, <1>7, <1>8, <2>1, <2>3, <2>4, <2>5, <2>6 DEF DialogRight
<1>10. dialog' = [dialog EXCEPT ![p] = y]
  <2>1. dialog \in [Ids -> Dialog]
    BY DEF DialogsInv, DialogsRight
  <2>2. DOMAIN dialog' = Ids /\ dialog'[p] = y /\ \A d \in Ids : d # p => dialog'[d] = dialog[d]
    BY <1>2, <1>5
  <2>3. dialog' = [d \in Ids |-> dialog'[d]]
    BY <1>2, <1>5
  <2> QED BY <2>1, <2>2, <2>3
<1>11. windowIdMap' \in WindowMap /\ x.window # "none"
  BY <1>1, <1>2 DEF DialogsInv, DialogRight
<1> QED BY <1>2, <1>8, <1>9, <1>10, <1>11, DialogMoves

\* A dialog's answer is what was entered into it, and none whose popup has gone is
\* left without one.
THEOREM DialogAnswerIsOwn == Spec => []AnswerIsOwn
<1>1. Popups!DialogsAssumption
  BY ComponentsAssumption
<1>2. Init => DialogsInv
  <2> SUFFICES ASSUME Init PROVE DialogsInv
    OBVIOUS
  <2>1. Popups!Init /\ MaxDialogs \in Nat
    BY <1>1 DEF Init, Popups!DialogsAssumption
  <2>2. Popups!Unused \in Dialog /\ Popups!Unused.window = "none"
        /\ \A d \in Ids : DialogRight(d, Popups!Unused)
    BY DEF Popups!Unused, Dialog, DialogRight
  <2>3. dialog \in [Ids -> Dialog] /\ \A d \in Ids : dialog[d] = Popups!Unused
    BY <2>1, <2>2 DEF Popups!Init, Ids
  <2>4. windowIdMap \in WindowMap /\ lastUsedPopupId \in 0 .. MaxDialogs
    BY <2>1 DEF Popups!Init, WindowMap
  <2> QED BY <2>2, <2>3, <2>4 DEF DialogsInv, DialogsRight
<1>3. DialogsInv /\ [Next]_vars => DialogsInv'
  <2> SUFFICES ASSUME DialogsInv, [Next]_vars PROVE DialogsInv'
    OBVIOUS
  <2>1. CASE UNCHANGED popupsVars
    BY <2>1 DEF popupsVars, DialogsInv
  <2>2. ASSUME NEW id \in WindowIds, Popups!RunModalDialog(id) \/ Popups!CloseModalDialog(id)
        PROVE  DialogsInv'
    BY <1>1, <2>2, RunModalDialogKeeps, WindowsKeep
  <2>3. CASE Popups!RequestPin
    BY <1>1, <2>3, RunModalDialogKeeps DEF Popups!RequestPin
  <2>4. ASSUME NEW d \in Ids,
               \/ Popups!CreateWindowCallback(d) \/ Popups!OpenChannelToPopupOpener(d)
               \/ Popups!OkClick(d) \/ Popups!CancelClick(d) \/ Popups!EscapeKey(d)
               \/ Popups!WindowCloses(d) \/ Popups!PortEvent(d) \/ Popups!PinResponse(d)
        PROVE  DialogsInv'
    BY <2>4, PopupStepKeeps, WindowsKeep, PortEventKeeps
  <2>5. CASE Popups!OtherWindowCloses
    BY <2>5, WindowsKeep
  <2>6. UNCHANGED popupsVars \/ Popups!Next
    BY DEF Next, vars
  <2> QED BY <2>1, <2>2, <2>3, <2>4, <2>5, <2>6 DEF Popups!Next, Ids
<1>4. DialogsInv => AnswerIsOwn
  <2> SUFFICES ASSUME DialogsInv, NEW d \in Ids
               PROVE  /\ dialog[d].result = "resolved" =>
                           dialog[d].user = "entered" /\ dialog[d].value = d
                      /\ dialog[d].awaits = "message" /\ dialog[d].port = <<>> =>
                           dialog[d].window \in {"shown", "closing"}
    BY DEF AnswerIsOwn, Popups!AnswerIsOwn, Ids
  <2>1. dialog[d] \in Dialog /\ DialogRight(d, dialog[d])
    BY DialogsInvIs
  <2>2. dialog[d].window \in {"none", "open", "shown", "closing", "closed"}
    BY <2>1 DEF Dialog
  <2> QED BY <2>1, <2>2 DEF DialogRight
<1> QED BY <1>2, <1>3, <1>4, PTL DEF Spec

-----------------------------------------------------------------------------
\* Sockets.
Ends == Sockets!Ends
Other(e) == Sockets!Other(e)
Parts == [request : Nat, kind : {"header", "body", "reply"}]
Files == [mapped : BOOLEAN, closed : BOOLEAN, buffer : Seq(Parts)]
ClientDoes == {"nothing", "ready", "header", "body", "awaitReply", "failed", "ended"}
ServerDoes == {"nothing", "awaitHeader", "awaitBody", "reply", "failed", "ended"}
Threads ==
  [does : ClientDoes \cup ServerDoes, at : {"start", "asleep", "readable"}, request : Nat]

\* What is the i-th that end e is sent, and how much that is at most.
SentAt(e, i) ==
  IF e[2] = "server" THEN Sockets!Part((i + 1) \div 2, IF i % 2 = 1 THEN "header" ELSE "body")
  ELSE Sockets!Part(i, "reply")
Most(e) == IF e[2] = "server" THEN 2 * MaxRequests ELSE MaxRequests

\* How much a thread has written, unless it has failed, and how much one of the
\* daemon has read.
Wrote(w, n) ==
  /\ w.does = "nothing" => n = 0
  /\ w.does = "header" => n = 2 * w.request - 2
  /\ w.does = "body" => n = 2 * w.request - 1
  /\ w.does \in {"ready", "awaitReply"} => n = 2 * w.request
  /\ w.does = "reply" => n = w.request - 1
  /\ w.does \in {"awaitHeader", "awaitBody"} => n = w.request
Took(t, n) ==
  /\ t.does = "nothing" => n = 0
  /\ t.does \in {"awaitHeader", "reply"} => n = 2 * t.request
  /\ t.does = "awaitBody" => n = 2 * t.request + 1

\* The thread t of end e, with its file f, of which it has received rec.
ThreadRight(e, t, f, rec) ==
  /\ t \in Threads /\ f \in Files /\ rec \in Seq(Parts)
  /\ e[2] = "client" => t.does \in ClientDoes /\ t.request <= MaxRequests
  /\ e[2] = "server" => t.does \in ServerDoes /\ Took(t, Len(rec))
  /\ t.does = "nothing" => t.request = 0
  /\ t.does \in {"header", "body", "reply"} => t.request > 0
  /\ t.at # "start" => t.does \in Sockets!Receiving
  /\ t.at = "asleep" => f.buffer = <<>> /\ ~f.closed
  /\ t.at = "readable" => f.buffer # <<>>

\* What it has received and what lies in the file are, in order, what it is sent
\* by the thread w of the other end, and all that this one has written.
StreamRight(e, f, rec, w) ==
  /\ \A i \in DOMAIN rec : rec[i] = SentAt(e, i)
  /\ \A i \in DOMAIN f.buffer : f.buffer[i] = SentAt(e, Len(rec) + i)
  /\ Len(rec) + Len(f.buffer) <= Most(e)
  /\ Wrote(w, Len(rec) + Len(f.buffer))

\* The daemon serves who has set up a session, and each once.
QueueRight(q, threads) ==
  /\ q \in Seq(Sessions)
  /\ \A i \in DOMAIN q : /\ threads[<<q[i], "client">>].does # "nothing"
                         /\ threads[<<q[i], "server">>].does = "nothing"
  /\ \A i, j \in DOMAIN q : q[i] = q[j] => i = j
  /\ \A s \in Sessions :
       threads[<<s, "client">>].does = "nothing" => threads[<<s, "server">>].does = "nothing"

SocketsInv ==
  /\ file \in [Ends -> Files] /\ thread \in [Ends -> Threads]
  /\ partsReceived \in [Ends -> Seq(Parts)]
  /\ \A e \in Ends : /\ ThreadRight(e, thread[e], file[e], partsReceived[e])
                     /\ StreamRight(e, file[e], partsReceived[e], thread[Other(e)])
  /\ QueueRight(queue, thread)
  /\ closing \in Ends \cup {Nobody}

LEMMA EndsAre ==
  /\ \A e \in Ends : /\ Other(e) \in Ends /\ Other(e) # e /\ Other(Other(e)) = e
                     /\ e[2] \in {"client", "server"}
                     /\ e[2] = "client" => Other(e)[2] = "server"
                     /\ e[2] = "server" => Other(e)[2] = "client"
  /\ \A e, d \in Ends : d = Other(e) <=> e = Other(d)
  /\ \A s \in Sessions : /\ <<s, "client">> \in Ends /\ <<s, "server">> \in Ends
                         /\ Other(<<s, "client">>) = <<s, "server">>
                         /\ Other(<<s, "server">>) = <<s, "client">>
  /\ \A s, r \in Sessions : s # r => <<s, "client">> # <<r, "client">> /\ <<s, "server">> # <<r, "server">>
<1>1. ASSUME NEW e \in Ends
      PROVE  \E s \in Sessions : e \in {<<s, "client">>, <<s, "server">>}
  BY DEF Ends, Sockets!Ends
<1>2. ASSUME NEW s \in Sessions
      PROVE  /\ <<s, "client">> \in Ends /\ <<s, "server">> \in Ends
             /\ Other(<<s, "client">>) = <<s, "server">>
             /\ Other(<<s, "server">>) = <<s, "client">>
             /\ <<s, "client">>[2] = "client" /\ <<s, "server">>[2] = "server"
             /\ <<s, "client">> # <<s, "server">>
  BY DEF Ends, Sockets!Ends, Other, Sockets!Other
<1>3. ASSUME NEW e \in Ends
      PROVE  /\ Other(e) \in Ends /\ Other(e) # e /\ Other(Other(e)) = e
             /\ e[2] \in {"client", "server"}
             /\ e[2] = "client" => Other(e)[2] = "server"
             /\ e[2] = "server" => Other(e)[2] = "client"
  <2>1. PICK s \in Sessions : e \in {<<s, "client">>, <<s, "server">>}
    BY <1>1
  <2> DEFINE c == <<s, "client">>
             v == <<s, "server">>
  <2>2. /\ c \in Ends /\ v \in Ends /\ Other(c) = v /\ Other(v) = c
        /\ c[2] = "client" /\ v[2] = "server" /\ c # v /\ e \in {c, v}
    BY <1>2, <2>1
  <2> HIDE DEF c, v, Other, Ends
  <2>3. CASE e = c
    BY <2>2, <2>3
  <2>4. CASE e = v
    BY <2>2, <2>4
  <2> QED BY <2>2, <2>3, <2>4
<1>4. \A e, d \in Ends : d = Other(e) <=> e = Other(d)
  BY <1>3
<1>5. \A s, r \in Sessions : s # r => <<s, "client">> # <<r, "client">> /\ <<s, "server">> # <<r, "server">>
  OBVIOUS
<1> QED BY <1>2, <1>3, <1>4, <1>5

\* A header is sent to the daemon first of each two parts, a body second.
LEMMA SentAtIs ==
  /\ \A e \in Ends, r \in Nat : e[2] = "server" =>
       /\ SentAt(e, 2 * r + 1) = Sockets!Part(r + 1, "header")
       /\ SentAt(e, 2 * r + 2) = Sockets!Part(r + 1, "body")
  /\ \A e \in Ends, r \in Nat : e[2] = "client" => SentAt(e, r) = Sockets!Part(r, "reply")
<1>1. ASSUME NEW r \in Nat
      PROVE  /\ ((2 * r + 1) + 1) \div 2 = r + 1 /\ (2 * r + 1) % 2 = 1
             /\ ((2 * r + 2) + 1) \div 2 = r + 1 /\ (2 * r + 2) % 2 = 0
  OBVIOUS
<1> QED BY <1>1 DEF SentAt

\* A thread that is waked up, or whose file is, and what it has sent are right still.
LEMMA NotifiedKeeps ==
  ASSUME NEW threads \in [Ends -> Threads], NEW e \in Ends,
         NEW woken, woken = Sockets!Notified(threads, e)
  PROVE  /\ woken \in [Ends -> Threads]
         /\ \A d \in Ends : /\ woken[d].does = threads[d].does /\ woken[d].request = threads[d].request
                            /\ woken[d].at \in {"start", threads[d].at}
                            /\ d # e => woken[d] = threads[d]
         /\ woken[e].at # "asleep"
<1>1. CASE threads[e].at = "asleep"
  <2>1. woken = [threads EXCEPT ![e] = [threads[e] EXCEPT !.at = "start"]]
    BY <1>1 DEF Sockets!Notified
  <2>2. [threads[e] EXCEPT !.at = "start"] \in Threads
    BY DEF Threads
  <2> QED BY <2>1, <2>2 DEF Threads
<1>2. CASE threads[e].at # "asleep"
  BY <1>2 DEF Sockets!Notified
<1> QED BY <1>1, <1>2

LEMMA QueueSame ==
  ASSUME NEW q, NEW old, QueueRight(q, old), NEW new,
         \A e \in Ends : new[e].does = "nothing" <=> old[e].does = "nothing"
  PROVE  QueueRight(q, new)
<1>1. ASSUME NEW s \in Sessions
      PROVE  /\ new[<<s, "client">>].does = "nothing" <=> old[<<s, "client">>].does = "nothing"
             /\ new[<<s, "server">>].does = "nothing" <=> old[<<s, "server">>].does = "nothing"
  BY EndsAre
<1>2. \A i \in DOMAIN q : q[i] \in Sessions
  BY DEF QueueRight
<1> QED BY <1>1, <1>2 DEF QueueRight

LEMMA SocketsInvIs ==
  ASSUME SocketsInv, NEW e \in Ends
  PROVE  /\ ThreadRight(e, thread[e], file[e], partsReceived[e])
         /\ StreamRight(e, file[e], partsReceived[e], thread[Other(e)])
         /\ thread[e] \in Threads /\ file[e] \in Files /\ partsReceived[e] \in Seq(Parts)
         /\ file[e].buffer \in Seq(Parts)
BY DEF SocketsInv, Files

LEMMA AfterIs ==
  ASSUME NEW t \in Threads, t.does \in Sockets!Sending \cup Sockets!Receiving,
         NEW next, next = Sockets!After(t)
  PROVE  /\ next \in Threads /\ next.at = "start"
         /\ t.does = "header" => next.does = "body" /\ next.request = t.request
         /\ t.does = "body" => next.does = "awaitReply" /\ next.request = t.request
         /\ t.does = "awaitReply" => next.does = "ready" /\ next.request = t.request
         /\ t.does = "awaitHeader" => next.does = "awaitBody" /\ next.request = t.request
         /\ t.does = "awaitBody" => next.does = "reply" /\ next.request = t.request + 1
         /\ t.does = "reply" => next.does = "awaitHeader" /\ next.request = t.request
<1>1. t.request + 1 \in Nat
  BY DEF Threads
<1>2. t.does \in {"header", "body", "awaitReply", "awaitHeader", "awaitBody", "reply"}
  BY DEF Sockets!Sending, Sockets!Receiving
<1>3. CASE t.does = "awaitBody"
  <2>1. next = [t EXCEPT !.does = "reply", !.at = "start", !.request = t.request + 1]
    BY <1>3 DEF Sockets!After
  <2> QED BY <1>1, <1>3, <2>1 DEF Threads, ClientDoes, ServerDoes
<1>4. CASE t.does # "awaitBody"
  <2>1. PICK does \in {"body", "awaitReply", "ready", "awaitBody", "awaitHeader"} :
          /\ next = [t EXCEPT !.does = does, !.at = "start"]
          /\ t.does = "header" => does = "body"
          /\ t.does = "body" => does = "awaitReply"
          /\ t.does = "awaitReply" => does = "ready"
          /\ t.does = "awaitHeader" => does = "awaitBody"
          /\ t.does = "reply" => does = "awaitHeader"
    BY <1>2, <1>4 DEF Sockets!After
  <2> QED BY <1>4, <2>1 DEF Threads, ClientDoes, ServerDoes
<1> QED BY <1>3, <1>4

\* A step that two ends of a session see.
LEMMA PairMoves ==
  ASSUME SocketsInv, NEW e \in Ends,
         file' \in [Ends -> Files], thread' \in [Ends -> Threads],
         partsReceived' \in [Ends -> Seq(Parts)], closing' \in Ends \cup {Nobody},
         QueueRight(queue', thread'),
         \A d \in Ends : d \notin {e, Other(e)} =>
           file'[d] = file[d] /\ thread'[d] = thread[d] /\ partsReceived'[d] = partsReceived[d],
         \A d \in {e, Other(e)} :
           /\ ThreadRight(d, thread'[d], file'[d], partsReceived'[d])
           /\ StreamRight(d, file'[d], partsReceived'[d], thread'[Other(d)])
  PROVE  SocketsInv'
<1> DEFINE o == Other(e)
<1>1. o \in Ends /\ Other(o) = e /\ \A d \in Ends : d \notin {e, o} => Other(d) \in Ends /\ Other(d) \notin {e, o}
  BY EndsAre
<1>2. ASSUME NEW d \in Ends, d \notin {e, o}
      PROVE  /\ ThreadRight(d, thread'[d], file'[d], partsReceived'[d])
             /\ StreamRight(d, file'[d], partsReceived'[d], thread'[Other(d)])
  BY <1>1, <1>2, SocketsInvIs
<1> QED BY <1>2 DEF SocketsInv

\* A thread that fails or ends, or is waked up, and a file that is closed.
LEMMA ThreadKeeps ==
  ASSUME NEW e \in Ends, NEW t, NEW f, NEW rec, ThreadRight(e, t, f, rec)
  PROVE  /\ \A s \in Threads :
              s.does = t.does /\ s.request = t.request /\ s.at \in {"start", t.at} => ThreadRight(e, s, f, rec)
         /\ ThreadRight(e, Sockets!Failed(t), f, rec)
         /\ ThreadRight(e, Sockets!Ended(t), f, rec)
         /\ \A g \in Files : g.buffer = f.buffer /\ (t.at # "asleep" \/ g.closed = f.closed)
              => ThreadRight(e, t, g, rec)
<1>1. \A s \in Threads :
        s.does = t.does /\ s.request = t.request /\ s.at \in {"start", t.at} => ThreadRight(e, s, f, rec)
  BY DEF ThreadRight, Took
<1>2. ThreadRight(e, Sockets!Failed(t), f, rec)
  <2> DEFINE s == Sockets!Failed(t)
  <2>1. s \in Threads /\ s.does = "failed" /\ s.at = "start" /\ s.request = t.request
    BY DEF ThreadRight, Sockets!Failed, Threads, ClientDoes
  <2> HIDE DEF s
  <2>2. ThreadRight(e, s, f, rec)
    BY <2>1 DEF ThreadRight, Took, ClientDoes, ServerDoes
  <2> QED BY <2>2 DEF s
<1>3. ThreadRight(e, Sockets!Ended(t), f, rec)
  <2> DEFINE s == Sockets!Ended(t)
  <2>1. s = t \/ (s \in Threads /\ s.does = "ended" /\ s.at = t.at /\ s.request = t.request
                  /\ t.does \in {"ready", "failed"})
    BY DEF ThreadRight, Sockets!Ended, Threads, ClientDoes
  <2> HIDE DEF s
  <2>2. ASSUME s # t PROVE ThreadRight(e, s, f, rec)
    <3>1. t.at = "start"
      BY <2>1, <2>2 DEF ThreadRight, Sockets!Receiving
    <3> QED BY <2>1, <2>2, <3>1 DEF ThreadRight, Took, ClientDoes, ServerDoes
  <2>3. ThreadRight(e, s, f, rec)
    BY <2>2
  <2> QED BY <2>3 DEF s
<1>4. \A g \in Files : g.buffer = f.buffer /\ (t.at # "asleep" \/ g.closed = f.closed)
        => ThreadRight(e, t, g, rec)
  BY DEF ThreadRight
<1> QED BY <1>1, <1>2, <1>3, <1>4

LEMMA StreamKeeps ==
  ASSUME NEW e \in Ends, NEW f, NEW rec, NEW w, StreamRight(e, f, rec, w)
  PROVE  /\ \A v : (v.does = w.does /\ v.request = w.request) \/ v.does \in {"failed", "ended"}
              => StreamRight(e, f, rec, v)
         /\ \A g : g.buffer = f.buffer => StreamRight(e, g, rec, w)
BY DEF StreamRight, Wrote

LEMMA MessageSendKeeps ==
  ASSUME Sockets!SocketsAssumption, SocketsInv, NEW e \in Ends, Sockets!MessageSend(e)
  PROVE  SocketsInv'
<1> DEFINE o == Other(e)
           t == thread[e]
           next == Sockets!After(t)
           part1 == Sockets!Part(t.request, t.does)
           contents == Append(file[o].buffer, part1)
           f == [file[o] EXCEPT !.buffer = contents]
           stepped == [thread EXCEPT ![e] = next]
<1>1. /\ t.does \in Sockets!Sending /\ closing = Nobody
      /\ UNCHANGED <<closing, queue, shuttingDown, partsReceived>>
  BY DEF Sockets!MessageSend
<1>2. /\ o \in Ends /\ o # e /\ Other(o) = e
      /\ e[2] = "client" => o[2] = "server"
      /\ e[2] = "server" => o[2] = "client"
      /\ e[2] \in {"client", "server"}
  BY EndsAre
<1>3. /\ ThreadRight(e, t, file[e], partsReceived[e])
      /\ StreamRight(e, file[e], partsReceived[e], thread[o])
      /\ ThreadRight(o, thread[o], file[o], partsReceived[o])
      /\ StreamRight(o, file[o], partsReceived[o], t)
      /\ t \in Threads /\ file[o] \in Files /\ file[o].buffer \in Seq(Parts)
      /\ partsReceived[o] \in Seq(Parts) /\ partsReceived[e] \in Seq(Parts)
  BY <1>2, SocketsInvIs
<1>4. /\ file \in [Ends -> Files] /\ thread \in [Ends -> Threads]
      /\ partsReceived \in [Ends -> Seq(Parts)] /\ QueueRight(queue, thread)
      /\ closing \in Ends \cup {Nobody}
  BY DEF SocketsInv
<1>5. CASE /\ file' = [file EXCEPT ![o] = f]
           /\ thread' = Sockets!Notified(stepped, o)
  <2> DEFINE n == Len(partsReceived[o]) + Len(file[o].buffer)
  <2>1. /\ next \in Threads /\ next.at = "start" /\ next.does # "nothing"
        /\ t.does = "header" => next.does = "body" /\ next.request = t.request
        /\ t.does = "body" => next.does = "awaitReply" /\ next.request = t.request
        /\ t.does = "reply" => next.does = "awaitHeader" /\ next.request = t.request
    BY <1>1, <1>3, AfterIs DEF Sockets!Sending
  <2>2. /\ t.request \in Nat /\ t.request > 0 /\ n \in Nat /\ MaxRequests \in Nat
        /\ Len(partsReceived[o]) \in Nat /\ Len(file[o].buffer) \in Nat
        /\ n = Len(partsReceived[o]) + Len(file[o].buffer)
        /\ t.does \in {"header", "body", "reply"}
    <3>1. t.does \in {"header", "body", "reply"} /\ MaxRequests \in Nat
      BY <1>1 DEF Sockets!Sending, Sockets!SocketsAssumption
    <3>2. t.request \in Nat
      BY <1>3 DEF Threads
    <3>3. t.request > 0
      BY <1>3, <3>1 DEF ThreadRight
    <3>4. Len(partsReceived[o]) \in Nat /\ Len(file[o].buffer) \in Nat
      BY <1>3
    <3>5. \A a, b \in Nat : a + b \in Nat
      OBVIOUS
    <3>6. n \in Nat
      BY <3>4, <3>5
    <3>7. n = Len(partsReceived[o]) + Len(file[o].buffer)
      OBVIOUS
    <3> HIDE DEF n
    <3> QED BY <3>1, <3>2, <3>3, <3>4, <3>6, <3>7
  <2>3. Wrote(t, n)
    BY <1>3 DEF StreamRight
  <2> HIDE DEF n
  <2>4. /\ part1 \in Parts /\ part1 = SentAt(o, n + 1) /\ n + 1 <= Most(o)
        /\ Wrote(next, n + 1)
    <3>1. PICK k \in Nat : t.request = k + 1
      <4>1. t.request - 1 \in Nat /\ t.request = (t.request - 1) + 1
        BY <2>2
      <4> QED BY <4>1
    <3>6. \A m \in Nat : /\ 2 * (m + 1) - 2 = 2 * m /\ 2 * (m + 1) - 1 = 2 * m + 1
                         /\ (2 * m + 1) + 1 = 2 * m + 2 /\ (m + 1) - 1 = m
      OBVIOUS
    <3>2. part1 \in Parts
      BY <2>2 DEF Parts, Sockets!Part
    <3>3. CASE t.does = "header"
      <4>1. e[2] = "client" /\ o[2] = "server" /\ t.request <= MaxRequests
        BY <1>2, <1>3, <3>3 DEF ThreadRight, ServerDoes
      <4>2. n = 2 * k
        <5>1. n = 2 * t.request - 2
          BY <2>3, <3>3 DEF Wrote
        <5> QED BY <2>2, <3>1, <3>6, <5>1
      <4>3. SentAt(o, 2 * k + 1) = Sockets!Part(k + 1, "header")
        BY <1>2, <4>1, SentAtIs
      <4>4. 2 * k + 1 <= 2 * MaxRequests
        BY <2>2, <3>1, <4>1
      <4>5. Wrote(next, n + 1)
        <5>1. n + 1 = 2 * t.request - 1
          BY <3>1, <4>2
        <5> QED BY <2>1, <3>3, <5>1 DEF Wrote
      <4> QED BY <3>1, <3>2, <3>3, <4>1, <4>2, <4>3, <4>4, <4>5 DEF Most
    <3>4. CASE t.does = "body"
      <4>1. e[2] = "client" /\ o[2] = "server" /\ t.request <= MaxRequests
        BY <1>2, <1>3, <3>4 DEF ThreadRight, ServerDoes
      <4>2. n = 2 * k + 1 /\ n + 1 = 2 * k + 2
        <5>1. n = 2 * t.request - 1
          BY <2>3, <3>4 DEF Wrote
        <5>2. n = 2 * (k + 1) - 1
          BY <3>1, <5>1
        <5>3. n = 2 * k + 1
          BY <3>6, <5>2
        <5> QED BY <3>6, <5>3
      <4>3. SentAt(o, 2 * k + 2) = Sockets!Part(k + 1, "body")
        BY <1>2, <4>1, SentAtIs
      <4>4. 2 * k + 2 <= 2 * MaxRequests
        BY <2>2, <3>1, <4>1
      <4>5. Wrote(next, n + 1)
        <5>1. n + 1 = 2 * t.request
          BY <3>1, <4>2
        <5> QED BY <2>1, <3>4, <5>1 DEF Wrote
      <4> QED BY <3>1, <3>2, <3>4, <4>1, <4>2, <4>3, <4>4, <4>5 DEF Most
    <3>5. CASE t.does = "reply"
      <4>1. e[2] = "server" /\ o[2] = "client" /\ Len(partsReceived[e]) = 2 * t.request
        BY <1>2, <1>3, <3>5 DEF ThreadRight, ClientDoes, Took
      <4>2. n = k /\ n + 1 = t.request
        <5>1. n = t.request - 1
          BY <2>3, <3>5 DEF Wrote
        <5> QED BY <2>2, <3>1, <3>6, <5>1
      <4>3. SentAt(o, t.request) = Sockets!Part(t.request, "reply")
        BY <1>2, <2>2, <4>1, SentAtIs
      <4>4. t.request <= MaxRequests
        <5>1. Len(partsReceived[e]) + Len(file[e].buffer) <= 2 * MaxRequests
          BY <1>3, <4>1 DEF StreamRight, Most
        <5>2. Len(file[e].buffer) \in Nat
          BY SocketsInvIs
        <5>3. \A r, m, b \in Nat : 2 * r + b <= 2 * m => r <= m
          OBVIOUS
        <5> QED BY <2>2, <4>1, <5>1, <5>2, <5>3
      <4>5. Wrote(next, n + 1)
        BY <2>1, <2>2, <3>5, <4>2 DEF Wrote
      <4> QED BY <3>2, <3>5, <4>1, <4>2, <4>3, <4>4, <4>5 DEF Most
    <3> QED BY <2>2, <3>3, <3>4, <3>5
  <2>5. /\ contents \in Seq(Parts) /\ Len(contents) = Len(file[o].buffer) + 1 /\ contents # <<>>
        /\ \A i \in DOMAIN contents : \/ i \in DOMAIN file[o].buffer /\ contents[i] = file[o].buffer[i]
                                      \/ i = Len(file[o].buffer) + 1 /\ contents[i] = part1
    <3> DEFINE old == file[o].buffer
    <3>1. old \in Seq(Parts) /\ part1 \in Parts /\ contents = Append(old, part1)
      BY <1>3, <2>4
    <3> HIDE DEF part1, contents, old
    <3>2. /\ contents \in Seq(Parts) /\ Len(contents) = Len(old) + 1 /\ contents # <<>>
          /\ \A i \in DOMAIN contents : \/ i \in DOMAIN old /\ contents[i] = old[i]
                                        \/ i = Len(old) + 1 /\ contents[i] = part1
      BY <3>1
    <3> QED BY <3>2 DEF old
  <2> HIDE DEF contents
  <2>6. f \in Files /\ f.buffer = contents /\ f.closed = file[o].closed
    BY <1>3, <2>5 DEF Files
  <2> HIDE DEF f, next, part1
  <2>7. /\ stepped \in [Ends -> Threads] /\ stepped[e] = next
        /\ \A d \in Ends : d # e => stepped[d] = thread[d]
    BY <1>4, <2>1
  <2> HIDE DEF stepped
  <2>8. /\ thread' \in [Ends -> Threads] /\ thread'[e] = next
        /\ thread'[o].does = thread[o].does /\ thread'[o].request = thread[o].request
        /\ thread'[o].at \in {"start", thread[o].at} /\ thread'[o].at # "asleep"
        /\ \A d \in Ends : d \notin {e, o} => thread'[d] = thread[d]
    BY <1>2, <1>5, <2>7, NotifiedKeeps
  <2>9. /\ file' \in [Ends -> Files] /\ file'[o] = f
        /\ \A d \in Ends : d # o => file'[d] = file[d]
    BY <1>2, <1>4, <1>5, <2>6
  <2>10. \A d \in Ends : thread'[d].does = "nothing" <=> thread[d].does = "nothing"
    BY <1>2, <2>1, <2>2, <2>8
  <2>11. QueueRight(queue', thread')
    BY <1>1, <1>4, <2>10, QueueSame
  <2>12. ThreadRight(e, next, file[e], partsReceived[e])
    BY <1>2, <1>3, <2>1, <2>2 DEF ThreadRight, Took, ClientDoes, ServerDoes
  <2>13. StreamRight(e, file[e], partsReceived[e], thread'[o])
    BY <1>3, <2>8, StreamKeeps
  <2>14. ThreadRight(o, thread'[o], f, partsReceived[o])
    BY <1>2, <1>3, <2>5, <2>6, <2>8 DEF ThreadRight, Took
  <2>15. StreamRight(o, f, partsReceived[o], next)
    <3>1. \A i \in DOMAIN f.buffer : f.buffer[i] = SentAt(o, Len(partsReceived[o]) + i)
      <4> TAKE i \in DOMAIN f.buffer
      <4>1. CASE i \in DOMAIN file[o].buffer /\ contents[i] = file[o].buffer[i]
        BY <1>3, <2>6, <4>1 DEF StreamRight
      <4>2. CASE i = Len(file[o].buffer) + 1 /\ contents[i] = part1
        <5>2. \A a, b \in Nat : a + (b + 1) = (a + b) + 1
          OBVIOUS
        <5>1. Len(partsReceived[o]) + i = n + 1
          BY <2>2, <4>2, <5>2
        <5> QED BY <2>4, <2>6, <4>2, <5>1
      <4> QED BY <2>5, <2>6, <4>1, <4>2
    <3>2. Len(partsReceived[o]) + Len(f.buffer) = n + 1
      <4>1. \A a, b \in Nat : a + (b + 1) = (a + b) + 1
        OBVIOUS
      <4> QED BY <2>2, <2>5, <2>6, <4>1
    <3> QED BY <1>3, <2>4, <3>1, <3>2 DEF StreamRight
  <2> HIDE DEF o
  <2>16. \A d \in {e, o} :
           /\ ThreadRight(d, thread'[d], file'[d], partsReceived'[d])
           /\ StreamRight(d, file'[d], partsReceived'[d], thread'[Other(d)])
    BY <1>1, <1>2, <2>8, <2>9, <2>12, <2>13, <2>14, <2>15 DEF o
  <2> QED BY <1>1, <1>4, <2>8, <2>9, <2>11, <2>16, PairMoves DEF o
<1>6. CASE thread' = [thread EXCEPT ![e] = Sockets!Failed(t)] /\ UNCHANGED file
  <2> DEFINE failed == Sockets!Failed(t)
  <2>1. /\ ThreadRight(e, failed, file[e], partsReceived[e])
        /\ StreamRight(o, file[o], partsReceived[o], failed) /\ failed \in Threads
        /\ failed.does # "nothing" /\ t.does # "nothing"
    <3>1. failed.does = "failed"
      BY <1>3 DEF Sockets!Failed, Threads
    <3>2. ThreadRight(e, failed, file[e], partsReceived[e])
      BY <1>3, ThreadKeeps
    <3>3. StreamRight(o, file[o], partsReceived[o], failed)
      BY <1>2, <1>3, <3>1, StreamKeeps
    <3>4. failed \in Threads
      BY <3>2 DEF ThreadRight
    <3> QED BY <1>1, <3>1, <3>2, <3>3, <3>4 DEF Sockets!Sending
  <2> HIDE DEF failed
  <2>2. /\ thread' \in [Ends -> Threads] /\ thread'[e] = failed
        /\ \A d \in Ends : d # e => thread'[d] = thread[d]
    BY <1>4, <1>6, <2>1 DEF failed
  <2>5. \A d \in Ends : thread'[d].does = "nothing" <=> thread[d].does = "nothing"
    BY <2>1, <2>2
  <2>3. QueueRight(queue', thread')
    BY <1>1, <1>4, <2>5, QueueSame
  <2> HIDE DEF o
  <2>4. \A d \in {e, o} :
           /\ ThreadRight(d, thread'[d], file'[d], partsReceived'[d])
           /\ StreamRight(d, file'[d], partsReceived'[d], thread'[Other(d)])
    BY <1>1, <1>2, <1>3, <1>6, <2>1, <2>2 DEF o
  <2> QED BY <1>1, <1>4, <1>6, <2>2, <2>3, <2>4, PairMoves DEF o
<1> QED BY <1>5, <1>6 DEF Sockets!MessageSend, Other

\* A step of one thread that leaves the files: what it has written and read is
\* what the others see.
LEMMA ThreadMoves ==
  ASSUME SocketsInv, NEW e \in Ends, NEW t \in Threads,
         thread' = [thread EXCEPT ![e] = t],
         UNCHANGED <<file, partsReceived, closing, queue>>,
         ThreadRight(e, t, file[e], partsReceived[e]),
         StreamRight(Other(e), file[Other(e)], partsReceived[Other(e)], t),
         t.does = "nothing" <=> thread[e].does = "nothing"
  PROVE  SocketsInv'
<1> DEFINE o == Other(e)
<1>1. o \in Ends /\ o # e /\ Other(o) = e
  BY EndsAre
<1>2. /\ file \in [Ends -> Files] /\ thread \in [Ends -> Threads]
      /\ partsReceived \in [Ends -> Seq(Parts)] /\ QueueRight(queue, thread)
      /\ closing \in Ends \cup {Nobody}
  BY DEF SocketsInv
<1>3. /\ thread' \in [Ends -> Threads] /\ thread'[e] = t
      /\ \A d \in Ends : d # e => thread'[d] = thread[d]
  BY <1>2
<1>4. \A d \in Ends : thread'[d].does = "nothing" <=> thread[d].does = "nothing"
  BY <1>3
<1>5. QueueRight(queue', thread')
  BY <1>2, <1>4, QueueSame
<1>6. /\ ThreadRight(o, thread[o], file[o], partsReceived[o])
      /\ StreamRight(e, file[e], partsReceived[e], thread[o])
  BY <1>1, SocketsInvIs
<1> HIDE DEF o
<1>7. \A d \in {e, o} :
        /\ ThreadRight(d, thread'[d], file'[d], partsReceived'[d])
        /\ StreamRight(d, file'[d], partsReceived'[d], thread'[Other(d)])
  BY <1>1, <1>3, <1>6 DEF o
<1> QED BY <1>2, <1>3, <1>5, <1>7, PairMoves DEF o

LEMMA WaitKeeps ==
  ASSUME SocketsInv, NEW e \in Ends, Sockets!WaitUntilCanBeRead(e)
  PROVE  SocketsInv'
<1> DEFINE t == thread[e]
           next == IF Sockets!Usable(e)
                   THEN [t EXCEPT !.at = IF file[e].buffer = <<>> THEN "asleep" ELSE "readable"]
                   ELSE Sockets!Failed(t)
<1>1. /\ t.does \in Sockets!Receiving /\ t.at = "start" /\ thread' = [thread EXCEPT ![e] = next]
      /\ UNCHANGED <<file, partsReceived, closing, queue>>
  BY DEF Sockets!WaitUntilCanBeRead
<1>2. /\ Other(e) \in Ends /\ Other(Other(e)) = e
  BY EndsAre
<1>3. /\ ThreadRight(e, t, file[e], partsReceived[e]) /\ t \in Threads
      /\ StreamRight(Other(e), file[Other(e)], partsReceived[Other(e)], t)
  BY <1>2, SocketsInvIs
<1>4. /\ ThreadRight(e, next, file[e], partsReceived[e]) /\ next \in Threads
      /\ next.does # "nothing"
      /\ (next.does = t.does /\ next.request = t.request) \/ next.does = "failed"
  <2>1. CASE Sockets!Usable(e)
    <3>1. PICK at \in {"asleep", "readable"} :
            /\ next = [t EXCEPT !.at = at]
            /\ at = "asleep" => file[e].buffer = <<>>
            /\ at = "readable" => file[e].buffer # <<>>
      BY <2>1
    <3>2. next \in Threads /\ next.does = t.does /\ next.request = t.request /\ next.at = at
      BY <1>3, <3>1 DEF Threads
    <3>3. ~file[e].closed
      BY <2>1 DEF Sockets!Usable
    <3>4. ThreadRight(e, next, file[e], partsReceived[e])
      BY <1>1, <1>3, <3>1, <3>2, <3>3 DEF ThreadRight, Took
    <3> QED BY <1>1, <3>2, <3>4 DEF Sockets!Receiving
  <2>2. CASE ~Sockets!Usable(e)
    <3>1. next = Sockets!Failed(t)
      BY <2>2
    <3>2. ThreadRight(e, next, file[e], partsReceived[e])
      BY <1>3, <3>1, ThreadKeeps
    <3>3. next.does = "failed"
      BY <1>3, <3>1 DEF Sockets!Failed, Threads
    <3> QED BY <3>2, <3>3 DEF ThreadRight
  <2> QED BY <2>1, <2>2
<1> HIDE DEF next
<1>5. StreamRight(Other(e), file[Other(e)], partsReceived[Other(e)], next)
  BY <1>2, <1>3, <1>4, StreamKeeps
<1>6. t.does # "nothing"
  BY <1>1 DEF Sockets!Receiving
<1> QED BY <1>1, <1>4, <1>5, <1>6, ThreadMoves

LEMMA StartRequestKeeps ==
  ASSUME Sockets!SocketsAssumption, SocketsInv, NEW s \in Sessions, Sockets!StartRequest(s)
  PROVE  SocketsInv'
<1> DEFINE c == <<s, "client">>
           t == thread[c]
           next == [t EXCEPT !.does = "header", !.request = t.request + 1]
<1>1. /\ c \in Ends /\ Other(c) \in Ends /\ Other(Other(c)) = c
      /\ c[2] = "client"
  BY EndsAre
<1>2. /\ t.does = "ready" /\ t.request < MaxRequests /\ MaxRequests \in Nat
      /\ UNCHANGED <<file, partsReceived, closing, queue>>
  BY DEF Sockets!StartRequest, Sockets!SocketsAssumption
<1>3. thread' = [thread EXCEPT ![c] = next]
  BY DEF Sockets!StartRequest
<1> HIDE DEF c
<1>4. /\ ThreadRight(c, t, file[c], partsReceived[c]) /\ t \in Threads
      /\ StreamRight(Other(c), file[Other(c)], partsReceived[Other(c)], t)
  BY <1>1, SocketsInvIs
<1>5. t.request \in Nat /\ t.request + 1 \in Nat
      /\ t.request + 1 <= MaxRequests /\ t.request + 1 > 0
      /\ 2 * (t.request + 1) - 2 = 2 * t.request
  <2>1. t.request \in Nat
    BY <1>4 DEF Threads
  <2>2. \A m, k \in Nat : m < k => m + 1 <= k /\ m + 1 \in Nat /\ m + 1 > 0 /\ 2 * (m + 1) - 2 = 2 * m
    OBVIOUS
  <2> QED BY <1>2, <2>1, <2>2
<1>6. /\ next \in Threads /\ next.does = "header" /\ next.request = t.request + 1 /\ next.at = t.at
  BY <1>4, <1>5 DEF Threads, ClientDoes
<1> HIDE DEF next
<1>7. ThreadRight(c, next, file[c], partsReceived[c])
  BY <1>1, <1>2, <1>4, <1>5, <1>6 DEF ThreadRight, ClientDoes, Sockets!Receiving
<1>8. StreamRight(Other(c), file[Other(c)], partsReceived[Other(c)], next)
  BY <1>2, <1>4, <1>5, <1>6 DEF StreamRight, Wrote
<1> QED BY <1>1, <1>2, <1>3, <1>6, <1>7, <1>8, ThreadMoves

LEMMA ReadKeeps ==
  ASSUME SocketsInv, NEW e \in Ends, Sockets!Read(e)
  PROVE  SocketsInv'
<1> DEFINE o == Other(e)
           t == thread[e]
           f == file[e]
           rec == partsReceived[e]
<1>1. /\ t.at = "readable" /\ UNCHANGED <<closing, queue, shuttingDown>>
  BY DEF Sockets!Read
<1>2. o \in Ends /\ o # e /\ Other(o) = e /\ e[2] \in {"client", "server"}
  BY EndsAre
<1>3. /\ ThreadRight(e, t, f, rec) /\ StreamRight(e, f, rec, thread[o])
      /\ ThreadRight(o, thread[o], file[o], partsReceived[o])
      /\ StreamRight(o, file[o], partsReceived[o], t)
      /\ t \in Threads /\ f \in Files /\ f.buffer \in Seq(Parts) /\ rec \in Seq(Parts)
  BY <1>2, SocketsInvIs
<1>4. t.does \in Sockets!Receiving /\ f.buffer # <<>>
  BY <1>1, <1>3 DEF ThreadRight
<1>5. CASE thread' = [thread EXCEPT ![e] = Sockets!Failed(t)] /\ UNCHANGED <<file, partsReceived>>
  <2> DEFINE failed == Sockets!Failed(t)
  <2>1. failed.does = "failed"
    BY <1>3 DEF Sockets!Failed, Threads
  <2>2. ThreadRight(e, failed, f, rec) /\ failed \in Threads
    <3>1. ThreadRight(e, failed, f, rec)
      BY <1>3, ThreadKeeps
    <3> QED BY <3>1 DEF ThreadRight
  <2>3. StreamRight(o, file[o], partsReceived[o], failed)
    BY <1>2, <1>3, <2>1, StreamKeeps
  <2>4. t.does # "nothing"
    BY <1>4 DEF Sockets!Receiving
  <2>5. thread' = [thread EXCEPT ![e] = failed]
    BY <1>5
  <2>6. UNCHANGED <<file, partsReceived, closing, queue>>
    BY <1>1, <1>5
  <2> HIDE DEF failed
  <2> QED BY <2>1, <2>2, <2>3, <2>4, <2>5, <2>6, ThreadMoves
<1>6. CASE /\ partsReceived' = [partsReceived EXCEPT ![e] = Append(rec, Head(f.buffer))]
           /\ file' = [file EXCEPT ![e] = [f EXCEPT !.buffer = Tail(f.buffer)]]
           /\ thread' = [thread EXCEPT ![e] = Sockets!After(t)]
  <2> DEFINE next == Sockets!After(t)
             head == Head(f.buffer)
             rest == Tail(f.buffer)
             more == Append(rec, head)
             g == [f EXCEPT !.buffer = rest]
             n == Len(rec)
             k == Len(rest)
  <2>1. /\ next \in Threads /\ next.at = "start"
        /\ t.does = "awaitReply" => next.does = "ready" /\ next.request = t.request
        /\ t.does = "awaitHeader" => next.does = "awaitBody" /\ next.request = t.request
        /\ t.does = "awaitBody" => next.does = "reply" /\ next.request = t.request + 1
    BY <1>3, <1>4, AfterIs DEF Sockets!Receiving
  <2>2. /\ head \in Parts /\ rest \in Seq(Parts) /\ head = f.buffer[1] /\ 1 \in DOMAIN f.buffer
        /\ Len(f.buffer) \in Nat /\ k = Len(f.buffer) - 1
        /\ \A i \in DOMAIN rest : i + 1 \in DOMAIN f.buffer /\ rest[i] = f.buffer[i + 1]
    BY <1>3, <1>4, TailIs
  <2> HIDE DEF next, head, rest
  <2>3. /\ more \in Seq(Parts) /\ Len(more) = n + 1
        /\ \A i \in DOMAIN more : \/ i \in DOMAIN rec /\ more[i] = rec[i]
                                  \/ i = n + 1 /\ more[i] = head
    <3> HIDE DEF f, t, rec
    <3> QED BY <1>3, <2>2
  <2>4. g \in Files /\ g.buffer = rest /\ g.closed = f.closed
    BY <1>3, <2>2 DEF Files
  <2> HIDE DEF more, g
  <2>5. /\ n \in Nat /\ k \in Nat /\ n + Len(f.buffer) = (n + 1) + k
        /\ \A i \in DOMAIN rest : i \in Nat /\ n + (i + 1) = (n + 1) + i
    <3>1. n \in Nat /\ k \in Nat
      BY <1>3, <2>2
    <3>2. \A a, b \in Nat : \A c \in Nat : c = b - 1 => a + b = (a + 1) + c
      OBVIOUS
    <3>3. \A a, i \in Nat : a + (i + 1) = (a + 1) + i
      OBVIOUS
    <3>4. \A i \in DOMAIN rest : i \in Nat
      BY <2>2
    <3> HIDE DEF n, k
    <3>5. n + Len(f.buffer) = (n + 1) + k
      <4> DEFINE m == Len(f.buffer)
      <4>1. m \in Nat /\ k = m - 1
        BY <2>2
      <4> HIDE DEF m
      <4>2. n + m = (n + 1) + k
        BY <3>1, <4>1
      <4> QED BY <4>2 DEF m
    <3>6. \A i \in DOMAIN rest : i \in Nat /\ n + (i + 1) = (n + 1) + i
      BY <3>1, <3>3, <3>4
    <3> QED BY <3>1, <3>5, <3>6
  <2>6. StreamRight(e, g, more, thread[o])
    <3>1. \A i \in DOMAIN more : more[i] = SentAt(e, i)
      <4> TAKE i \in DOMAIN more
      <4>1. CASE i \in DOMAIN rec /\ more[i] = rec[i]
        BY <1>3, <4>1 DEF StreamRight
      <4>2. CASE i = n + 1 /\ more[i] = head
        <5>1. head = SentAt(e, n + 1)
          BY <1>3, <2>2 DEF StreamRight
        <5> QED BY <4>2, <5>1
      <4> QED BY <2>3, <4>1, <4>2
    <3>2. \A i \in DOMAIN g.buffer : g.buffer[i] = SentAt(e, Len(more) + i)
      <4> TAKE i \in DOMAIN g.buffer
      <4>1. i \in DOMAIN rest /\ g.buffer[i] = f.buffer[i + 1] /\ i + 1 \in DOMAIN f.buffer
        BY <2>2, <2>4
      <4>2. f.buffer[i + 1] = SentAt(e, n + (i + 1))
        BY <1>3, <4>1 DEF StreamRight
      <4> QED BY <2>3, <2>5, <4>1, <4>2
    <3>3. Len(more) + Len(g.buffer) = n + Len(f.buffer)
      BY <2>3, <2>4, <2>5
    <3> QED BY <1>3, <3>1, <3>2, <3>3 DEF StreamRight
  <2>7. ThreadRight(e, next, g, more)
    <3>1. t.request \in Nat /\ t.request + 1 \in Nat /\ t.request + 1 > 0
      <4>1. t.request \in Nat
        BY <1>3 DEF Threads
      <4> QED BY <4>1
    <3>2. t.does \in {"awaitReply", "awaitHeader", "awaitBody"}
      BY <1>4 DEF Sockets!Receiving
    <3>3. CASE e[2] = "client"
      <4>1. t.does = "awaitReply" /\ t.request <= MaxRequests
        BY <1>3, <3>2, <3>3 DEF ThreadRight, ClientDoes
      <4> QED BY <2>1, <2>3, <2>4, <3>3, <4>1 DEF ThreadRight, ClientDoes
    <3>4. CASE e[2] = "server"
      <4>1. t.does \in {"awaitHeader", "awaitBody"} /\ Took(t, n)
        BY <1>3, <3>2, <3>4 DEF ThreadRight, ServerDoes
      <4>2. \A m \in Nat : (2 * m + 1) + 1 = 2 * (m + 1)
        OBVIOUS
      <4>3. Took(next, Len(more))
        <5>1. CASE t.does = "awaitHeader"
          BY <2>1, <2>3, <4>1, <5>1 DEF Took
        <5>2. CASE t.does = "awaitBody"
          <6>1. n = 2 * t.request + 1
            BY <4>1, <5>2 DEF Took
          <6>2. Len(more) = 2 * next.request
            BY <2>1, <2>3, <3>1, <4>2, <5>2, <6>1
          <6> QED BY <2>1, <5>2, <6>2 DEF Took
        <5> QED BY <4>1, <5>1, <5>2
      <4> QED BY <2>1, <2>3, <2>4, <3>1, <3>4, <4>1, <4>3 DEF ThreadRight, ServerDoes
    <3> QED BY <1>2, <3>3, <3>4
  <2>8. StreamRight(o, file[o], partsReceived[o], next)
    <3>1. t.does \in {"awaitReply", "awaitHeader", "awaitBody"}
      BY <1>4 DEF Sockets!Receiving
    <3>2. \A m \in Nat : (m + 1) - 1 = m
      OBVIOUS
    <3>3. t.request \in Nat
      BY <1>3 DEF Threads
    <3>4. \A m : Wrote(t, m) => Wrote(next, m)
      BY <2>1, <3>1, <3>2, <3>3 DEF Wrote
    <3> QED BY <1>3, <3>4 DEF StreamRight
  <2>9. /\ file \in [Ends -> Files] /\ thread \in [Ends -> Threads]
        /\ partsReceived \in [Ends -> Seq(Parts)] /\ QueueRight(queue, thread)
        /\ closing \in Ends \cup {Nobody}
    BY DEF SocketsInv
  <2>10. /\ file' \in [Ends -> Files] /\ thread' \in [Ends -> Threads]
         /\ partsReceived' \in [Ends -> Seq(Parts)]
         /\ file'[e] = g /\ thread'[e] = next /\ partsReceived'[e] = more
         /\ \A d \in Ends : d # e =>
              file'[d] = file[d] /\ thread'[d] = thread[d] /\ partsReceived'[d] = partsReceived[d]
    BY <1>6, <2>1, <2>3, <2>4, <2>9 DEF g, more, next, rest, head
  <2>11. \A d \in Ends : thread'[d].does = "nothing" <=> thread[d].does = "nothing"
    BY <1>4, <2>1, <2>10 DEF Sockets!Receiving
  <2>12. QueueRight(queue', thread')
    BY <1>1, <2>9, <2>11, QueueSame
  <2> HIDE DEF o
  <2>13. \A d \in {e, o} :
           /\ ThreadRight(d, thread'[d], file'[d], partsReceived'[d])
           /\ StreamRight(d, file'[d], partsReceived'[d], thread'[Other(d)])
    BY <1>2, <1>3, <2>6, <2>7, <2>8, <2>10 DEF o
  <2> QED BY <1>1, <2>9, <2>10, <2>12, <2>13, PairMoves DEF o
<1> QED BY <1>4, <1>5, <1>6 DEF Sockets!Read

\* Steps that only close files, wake threads up and end them.
LEMMA ClosingKeeps ==
  ASSUME SocketsInv, UNCHANGED <<partsReceived, queue>>,
         file' \in [Ends -> Files], closing' \in Ends \cup {Nobody},
         \A d \in Ends :
           /\ file'[d].buffer = file[d].buffer
           /\ ThreadRight(d, thread'[d], file'[d], partsReceived[d])
           /\ \/ thread'[d].does = thread[d].does /\ thread'[d].request = thread[d].request
              \/ thread'[d].does = "ended" /\ thread[d].does # "nothing",
         thread' \in [Ends -> Threads]
  PROVE  SocketsInv'
<1>1. ASSUME NEW d \in Ends
      PROVE  StreamRight(d, file'[d], partsReceived[d], thread'[Other(d)])
  <2>1. Other(d) \in Ends /\ StreamRight(d, file[d], partsReceived[d], thread[Other(d)])
    BY EndsAre, SocketsInvIs
  <2>2. StreamRight(d, file'[d], partsReceived[d], thread[Other(d)])
    BY <2>1, StreamKeeps
  <2> QED BY <2>1, <2>2, StreamKeeps
<1>2. \A d \in Ends : thread'[d].does = "nothing" <=> thread[d].does = "nothing"
  OBVIOUS
<1>3. QueueRight(queue, thread) /\ partsReceived \in [Ends -> Seq(Parts)]
  BY DEF SocketsInv
<1>4. QueueRight(queue', thread')
  BY <1>2, <1>3, QueueSame
<1> QED BY <1>1, <1>3, <1>4 DEF SocketsInv

\* A thread that is waked up at a file that is closed.
LEMMA WokenKeeps ==
  ASSUME NEW e \in Ends, NEW t \in Threads, NEW f \in Files, NEW rec, ThreadRight(e, t, f, rec),
         NEW s \in Threads, s.does = t.does, s.request = t.request, s.at \in {"start", t.at},
         NEW g \in Files, g.buffer = f.buffer, s.at # "asleep" \/ g.closed = f.closed
  PROVE  ThreadRight(e, s, g, rec)
<1>1. ThreadRight(e, s, f, rec)
  BY ThreadKeeps
<1> QED BY <1>1, ThreadKeeps

LEMMA CloseKeeps ==
  ASSUME SocketsInv, NEW e \in Ends, Sockets!CloseInMemoryFile(e)
  PROVE  SocketsInv'
<1> DEFINE t == thread[e]
           end == Sockets!Ended(t)
           stepped == [thread EXCEPT ![e] = end]
<1>1. /\ file \in [Ends -> Files] /\ thread \in [Ends -> Threads]
      /\ closing \in Ends \cup {Nobody} /\ UNCHANGED <<partsReceived, queue>>
  BY DEF SocketsInv, Sockets!CloseInMemoryFile
<1>2. \A d \in Ends : ThreadRight(d, thread[d], file[d], partsReceived[d])
  BY SocketsInvIs
<1>3. ThreadRight(e, end, file[e], partsReceived[e])
  BY <1>2, ThreadKeeps
<1>4. /\ end \in Threads
      /\ \/ end.does = t.does /\ end.request = t.request
         \/ end.does = "ended" /\ t.does # "nothing"
  <2>1. end \in Threads
    BY <1>3 DEF ThreadRight
  <2> QED BY <1>1, <2>1 DEF Sockets!Ended, Threads
<1> HIDE DEF end
<1>5. /\ stepped \in [Ends -> Threads] /\ stepped[e] = end
      /\ \A d \in Ends : d # e => stepped[d] = thread[d]
  BY <1>1, <1>4
<1> HIDE DEF stepped
<1>6. \A d \in Ends :
        /\ ThreadRight(d, stepped[d], file[d], partsReceived[d])
        /\ \/ stepped[d].does = thread[d].does /\ stepped[d].request = thread[d].request
           \/ stepped[d].does = "ended" /\ thread[d].does # "nothing"
  BY <1>2, <1>3, <1>4, <1>5
<1>7. CASE file[e].mapped
  <2> DEFINE g == [file[e] EXCEPT !.closed = TRUE]
  <2>1. /\ file' = [file EXCEPT ![e] = g] /\ thread' = Sockets!Notified(stepped, e)
        /\ closing' = e
    BY <1>7 DEF Sockets!CloseInMemoryFile, stepped, end
  <2>2. g \in Files /\ g.buffer = file[e].buffer
    BY <1>1 DEF Files
  <2> HIDE DEF g
  <2>3. /\ file' \in [Ends -> Files] /\ \A d \in Ends : file'[d].buffer = file[d].buffer
        /\ \A d \in Ends : d # e => file'[d] = file[d]
    BY <1>1, <2>1, <2>2
  <2>4. /\ thread' \in [Ends -> Threads]
        /\ \A d \in Ends : /\ thread'[d].does = stepped[d].does /\ thread'[d].request = stepped[d].request
                           /\ thread'[d].at \in {"start", stepped[d].at}
                           /\ d # e => thread'[d] = stepped[d]
        /\ thread'[e].at # "asleep"
    BY <1>5, <2>1, NotifiedKeeps
  <2>5. ASSUME NEW d \in Ends
        PROVE  ThreadRight(d, thread'[d], file'[d], partsReceived[d])
    <3>1. stepped[d] \in Threads /\ thread'[d] \in Threads /\ file[d] \in Files /\ file'[d] \in Files
      BY <1>1, <1>5, <2>3, <2>4
    <3>2. thread'[d].at # "asleep" \/ file'[d].closed = file[d].closed
      BY <2>3, <2>4
    <3> QED BY <1>6, <2>3, <2>4, <3>1, <3>2, WokenKeeps
  <2>6. \A d \in Ends :
          \/ thread'[d].does = thread[d].does /\ thread'[d].request = thread[d].request
          \/ thread'[d].does = "ended" /\ thread[d].does # "nothing"
    BY <1>6, <2>4
  <2> QED BY <1>1, <2>1, <2>3, <2>4, <2>5, <2>6, ClosingKeeps
<1>8. CASE ~file[e].mapped
  <2>1. thread' = stepped /\ UNCHANGED <<file, closing>>
    BY <1>8 DEF Sockets!CloseInMemoryFile, stepped, end
  <2> QED BY <1>1, <1>5, <1>6, <2>1, ClosingKeeps
<1> QED BY <1>7, <1>8

LEMMA FinishClosingKeeps ==
  ASSUME SocketsInv, Sockets!FinishClosing
  PROVE  SocketsInv'
<1> DEFINE e == closing
           o == Other(e)
           f == [file[e] EXCEPT !.mapped = FALSE]
           g == [file[o] EXCEPT !.closed = TRUE]
<1>1. /\ file \in [Ends -> Files] /\ thread \in [Ends -> Threads]
      /\ e \in Ends /\ UNCHANGED <<partsReceived, queue>> /\ closing' = Nobody
      /\ thread' = Sockets!Notified(thread, o)
      /\ file' = [file EXCEPT ![e].mapped = FALSE, ![o].closed = TRUE]
  BY DEF SocketsInv, Sockets!FinishClosing, Sockets!CloseOther, Other
<1> HIDE DEF e
<1>2. o \in Ends /\ o # e
  BY <1>1, EndsAre
<1>3. \A d \in Ends : ThreadRight(d, thread[d], file[d], partsReceived[d])
  BY SocketsInvIs
<1> HIDE DEF o
<1>4. /\ f \in Files /\ f.buffer = file[e].buffer /\ f.closed = file[e].closed
      /\ g \in Files /\ g.buffer = file[o].buffer
  BY <1>1, <1>2 DEF Files
<1>5. file' = [file EXCEPT ![e] = f, ![o] = g]
  BY <1>1, <1>2
<1> HIDE DEF f, g
<1>6. /\ file' \in [Ends -> Files] /\ \A d \in Ends : file'[d].buffer = file[d].buffer
      /\ \A d \in Ends : d # o => file'[d].closed = file[d].closed
  BY <1>1, <1>2, <1>4, <1>5
<1>7. /\ thread' \in [Ends -> Threads]
      /\ \A d \in Ends : /\ thread'[d].does = thread[d].does /\ thread'[d].request = thread[d].request
                         /\ thread'[d].at \in {"start", thread[d].at}
      /\ thread'[o].at # "asleep"
  BY <1>1, <1>2, NotifiedKeeps
<1>8. ASSUME NEW d \in Ends
      PROVE  ThreadRight(d, thread'[d], file'[d], partsReceived[d])
  <2>1. thread[d] \in Threads /\ thread'[d] \in Threads /\ file[d] \in Files /\ file'[d] \in Files
    BY <1>1, <1>6, <1>7
  <2>2. thread'[d].at # "asleep" \/ file'[d].closed = file[d].closed
    BY <1>6, <1>7
  <2> QED BY <1>3, <1>6, <1>7, <2>1, <2>2, WokenKeeps
<1> QED BY <1>1, <1>6, <1>7, <1>8, ClosingKeeps

LEMMA SetupKeeps ==
  ASSUME Sockets!SocketsAssumption, SocketsInv, NEW s \in Sessions, Sockets!ClientSetupSession(s)
  PROVE  SocketsInv'
<1> DEFINE c == <<s, "client">>
           v == <<s, "server">>
           next == [thread[c] EXCEPT !.does = "ready"]
           f == [Sockets!NoFile EXCEPT !.mapped = TRUE]
<1>1. /\ c \in Ends /\ v \in Ends /\ Other(c) = v /\ Other(v) = c /\ c # v
      /\ c[2] = "client" /\ v[2] = "server"
      /\ \A r \in Sessions : r # s => <<r, "client">> # c /\ <<r, "server">> # v
                                      /\ <<r, "client">> # v /\ <<r, "server">> # c
      /\ \A d \in Ends : d[1] = s <=> d \in {c, v}
  <2>1. \A d \in Ends : d[1] = s => d \in {c, v}
    BY DEF Ends, Sockets!Ends
  <2>2. c[1] = s /\ v[1] = s /\ c # v
    OBVIOUS
  <2> QED BY <2>1, <2>2, EndsAre
<1>2. /\ thread[c].does = "nothing" /\ thread' = [thread EXCEPT ![c].does = "ready"]
      /\ queue' = Append(queue, s) /\ UNCHANGED <<closing, partsReceived>>
      /\ file' = [d \in Ends |-> IF d[1] = s THEN f ELSE file[d]]
  BY DEF Sockets!ClientSetupSession, Ends
<1>3. /\ file \in [Ends -> Files] /\ thread \in [Ends -> Threads]
      /\ partsReceived \in [Ends -> Seq(Parts)] /\ QueueRight(queue, thread)
      /\ closing \in Ends \cup {Nobody}
  BY DEF SocketsInv
<1>4. f \in Files /\ f.buffer = <<>> /\ ~f.closed
  <2>1. <<>> \in Seq(Parts)
    OBVIOUS
  <2>2. Sockets!NoFile \in Files /\ Sockets!NoFile.buffer = <<>> /\ ~Sockets!NoFile.closed
    BY <2>1 DEF Sockets!NoFile, Files
  <2> QED BY <2>2 DEF Files
<1> HIDE DEF c, v, f
<1>5. \A d \in Ends : /\ ThreadRight(d, thread[d], file[d], partsReceived[d])
                      /\ StreamRight(d, file[d], partsReceived[d], thread[Other(d)])
  BY SocketsInvIs
<1>6. thread[v].does = "nothing"
  BY <1>2, <1>3 DEF QueueRight, c, v
<1>7. /\ next \in Threads /\ next.does = "ready" /\ next.request = 0 /\ next.at = "start"
  <2>1. thread[c] \in Threads /\ thread[c].request = 0 /\ thread[c].at \in {"start", "asleep", "readable"}
    BY <1>1, <1>2, <1>3, <1>5 DEF ThreadRight, Threads
  <2>2. thread[c].at = "start"
    BY <1>1, <1>2, <1>5 DEF ThreadRight, Sockets!Receiving
  <2> QED BY <2>1, <2>2 DEF Threads, ClientDoes
<1>8. /\ thread' \in [Ends -> Threads] /\ thread'[c] = next
      /\ \A d \in Ends : d # c => thread'[d] = thread[d]
  BY <1>1, <1>2, <1>3, <1>7
<1>9. /\ file' \in [Ends -> Files] /\ file'[c] = f /\ file'[v] = f
      /\ \A d \in Ends : d \notin {c, v} => file'[d] = file[d]
  BY <1>1, <1>2, <1>3, <1>4
<1> HIDE DEF next
\* Neither end has received anything, and nothing lies in their new files.
<1>10. ASSUME NEW d \in {c, v}
       PROVE  partsReceived[d] = <<>> /\ Len(<<>>) = 0
  <2>1. /\ thread[Other(d)].does = "nothing" /\ d \in Ends
    BY <1>1, <1>2, <1>6
  <2>2. Len(partsReceived[d]) + Len(file[d].buffer) = 0
    BY <1>5, <2>1 DEF StreamRight, Wrote
  <2>3. partsReceived[d] \in Seq(Parts) /\ file[d].buffer \in Seq(Parts)
    BY <1>3, <2>1 DEF Files
  <2>4. \A r, b \in Seq(Parts) : Len(r) + Len(b) = 0 => r = <<>>
    OBVIOUS
  <2> QED BY <2>2, <2>3, <2>4
<1>15. MaxRequests \in Nat /\ 2 * MaxRequests \in Nat /\ 0 <= MaxRequests /\ 0 <= 2 * MaxRequests
  BY DEF Sockets!SocketsAssumption
<1>11. ThreadRight(c, next, f, partsReceived[c]) /\ ThreadRight(v, thread[v], f, partsReceived[v])
  <2>1. ThreadRight(c, next, f, partsReceived[c])
    BY <1>1, <1>3, <1>4, <1>5, <1>7, <1>15 DEF ThreadRight, ClientDoes
  <2>2. thread[v].at = "start"
    BY <1>1, <1>3, <1>5, <1>6 DEF ThreadRight, Threads, Sockets!Receiving
  <2> QED BY <1>1, <1>4, <1>5, <2>1, <2>2 DEF ThreadRight
<1>12. StreamRight(c, f, partsReceived[c], thread[v]) /\ StreamRight(v, f, partsReceived[v], next)
  <2>1. \A d \in {c, v} : DOMAIN partsReceived[d] = {} /\ Len(partsReceived[d]) = 0
    BY <1>10
  <2>2. DOMAIN f.buffer = {} /\ Len(f.buffer) = 0
    BY <1>4
  <2>3. 0 + 0 <= Most(c) /\ 0 + 0 <= Most(v)
    BY <1>1, <1>15 DEF Most
  <2>4. Wrote(thread[v], 0 + 0) /\ Wrote(next, 0 + 0)
    BY <1>6, <1>7 DEF Wrote
  <2> QED BY <2>1, <2>2, <2>3, <2>4 DEF StreamRight
<1>13. QueueRight(queue', thread')
  <2>1. \A i \in DOMAIN queue : queue[i] \in Sessions /\ queue[i] # s
    <3>1. \A i \in DOMAIN queue : queue[i] \in Sessions /\ thread[<<queue[i], "client">>].does # "nothing"
      <4>1. queue \in Seq(Sessions)
        BY <1>3 DEF QueueRight
      <4>2. \A i \in DOMAIN queue : thread[<<queue[i], "client">>].does # "nothing"
        BY <1>3 DEF QueueRight
      <4>3. \A i \in DOMAIN queue : queue[i] \in Sessions
        BY <4>1
      <4> QED BY <4>2, <4>3, Zenon
    <3>2. thread[<<s, "client">>].does = "nothing"
      BY <1>2 DEF c
    <3> QED BY <3>1, <3>2
  <2>2. /\ queue \in Seq(Sessions) /\ queue' \in Seq(Sessions)
        /\ \A i \in DOMAIN queue' : \/ i \in DOMAIN queue /\ queue'[i] = queue[i]
                                    \/ i = Len(queue) + 1 /\ queue'[i] = s
    BY <1>2, <1>3 DEF QueueRight
  <2>3. \A r \in Sessions : /\ <<r, "client">> \in Ends /\ <<r, "server">> \in Ends
                            /\ <<r, "server">> # c
    BY <1>1, EndsAre DEF c, v
  <2>4. \A r \in Sessions :
          /\ thread'[<<r, "server">>] = thread[<<r, "server">>]
          /\ r # s => thread'[<<r, "client">>] = thread[<<r, "client">>]
          /\ r = s => thread'[<<r, "client">>].does = "ready" /\ thread'[<<r, "server">>].does = "nothing"
    BY <1>1, <1>6, <1>7, <1>8, <2>3 DEF c, v
  <2>5. \A i, j \in DOMAIN queue' : queue'[i] = queue'[j] => i = j
    BY <1>3, <2>1, <2>2 DEF QueueRight
  <2>6. \A i \in DOMAIN queue' : /\ thread'[<<queue'[i], "client">>].does # "nothing"
                                 /\ thread'[<<queue'[i], "server">>].does = "nothing"
    <3> TAKE i \in DOMAIN queue'
    <3>1. CASE i \in DOMAIN queue /\ queue'[i] = queue[i]
      <4>1. /\ thread[<<queue[i], "client">>].does # "nothing"
            /\ thread[<<queue[i], "server">>].does = "nothing"
        BY <1>3, <3>1 DEF QueueRight
      <4> QED BY <2>1, <2>4, <3>1, <4>1
    <3>2. CASE queue'[i] = s
      BY <2>4, <3>2
    <3> QED BY <2>2, <3>1, <3>2
  <2>7. \A r \in Sessions :
          thread'[<<r, "client">>].does = "nothing" => thread'[<<r, "server">>].does = "nothing"
    BY <1>3, <2>4 DEF QueueRight
  <2> QED BY <2>2, <2>5, <2>6, <2>7 DEF QueueRight
<1>14. \A d \in {c, v} :
         /\ ThreadRight(d, thread'[d], file'[d], partsReceived'[d])
         /\ StreamRight(d, file'[d], partsReceived'[d], thread'[Other(d)])
  BY <1>1, <1>2, <1>8, <1>9, <1>11, <1>12
<1> QED BY <1>1, <1>2, <1>3, <1>8, <1>9, <1>13, <1>14, PairMoves

LEMMA WaitAndPopKeeps ==
  ASSUME SocketsInv, Sockets!WaitAndPop
  PROVE  SocketsInv'
<1> DEFINE s == Head(queue)
           c == <<s, "client">>
           v == <<s, "server">>
           next == [thread[v] EXCEPT !.does = "awaitHeader"]
<1>1. /\ queue # <<>> /\ queue' = Tail(queue) /\ UNCHANGED <<file, closing, partsReceived>>
      /\ thread' = [thread EXCEPT ![v].does = "awaitHeader"]
  BY DEF Sockets!WaitAndPop
<1>2. /\ file \in [Ends -> Files] /\ thread \in [Ends -> Threads]
      /\ partsReceived \in [Ends -> Seq(Parts)] /\ QueueRight(queue, thread)
      /\ closing \in Ends \cup {Nobody} /\ queue \in Seq(Sessions)
  BY DEF SocketsInv, QueueRight
<1>3. /\ s \in Sessions /\ s = queue[1] /\ 1 \in DOMAIN queue /\ Tail(queue) \in Seq(Sessions)
      /\ \A i \in DOMAIN Tail(queue) : i + 1 \in DOMAIN queue /\ Tail(queue)[i] = queue[i + 1] /\ i \in Nat \ {0}
  BY <1>1, <1>2, TailIs
<1>4. /\ v \in Ends /\ Other(v) = c /\ Other(c) = v /\ c \in Ends /\ c # v
      /\ v[2] = "server" /\ c[2] = "client"
  BY <1>3, EndsAre
<1>5. thread[v].does = "nothing" /\ thread[c].does # "nothing"
  BY <1>2, <1>3 DEF QueueRight
<1> HIDE DEF s
<1>6. \A r \in Sessions : /\ <<r, "client">> \in Ends /\ <<r, "server">> \in Ends
                          /\ <<r, "client">> # v /\ (r # s => <<r, "server">> # v)
  BY EndsAre
<1> HIDE DEF c, v
<1>7. \A d \in Ends : /\ ThreadRight(d, thread[d], file[d], partsReceived[d])
                      /\ StreamRight(d, file[d], partsReceived[d], thread[Other(d)])
  BY SocketsInvIs
<1>8. /\ next \in Threads /\ next.does = "awaitHeader" /\ next.request = 0 /\ next.at = thread[v].at
  BY <1>2, <1>4, <1>5, <1>7 DEF ThreadRight, Threads, ServerDoes
<1>9. /\ thread' \in [Ends -> Threads] /\ thread'[v] = next
      /\ \A d \in Ends : d # v => thread'[d] = thread[d]
  BY <1>1, <1>2, <1>4, <1>8
<1> HIDE DEF next
<1>10. ThreadRight(v, next, file[v], partsReceived[v])
  BY <1>4, <1>5, <1>7, <1>8 DEF ThreadRight, Took, ServerDoes, Sockets!Receiving
<1>11. StreamRight(c, file[c], partsReceived[c], next)
  BY <1>4, <1>5, <1>7, <1>8 DEF StreamRight, Wrote
<1>12. QueueRight(queue', thread')
  <2>1. \A i \in DOMAIN queue' : i + 1 \in DOMAIN queue /\ queue'[i] = queue[i + 1] /\ i + 1 # 1 /\ i \in Nat
    BY <1>1, <1>3
  <2>2. \A i, j \in DOMAIN queue : queue[i] = queue[j] => i = j
    BY <1>2 DEF QueueRight
  <2>3. \A i \in DOMAIN queue' : queue'[i] # s /\ queue'[i] \in Sessions
    BY <1>2, <1>3, <2>1, <2>2
  <2>4. \A i, j \in DOMAIN queue' : queue'[i] = queue'[j] => i = j
    BY <2>1, <2>2
  <2>5. \A i \in DOMAIN queue' : /\ thread[<<queue'[i], "client">>].does # "nothing"
                                 /\ thread[<<queue'[i], "server">>].does = "nothing"
    BY <1>2, <2>1 DEF QueueRight
  <2>6. \A r \in Sessions : /\ thread'[<<r, "client">>] = thread[<<r, "client">>]
                            /\ r # s => thread'[<<r, "server">>] = thread[<<r, "server">>]
    BY <1>6, <1>9
  <2>7. \A r \in Sessions :
          thread'[<<r, "client">>].does = "nothing" => thread'[<<r, "server">>].does = "nothing"
    <3>1. \A r \in Sessions : thread[<<r, "client">>].does = "nothing" => r # s
      BY <1>5 DEF c
    <3> QED BY <1>2, <2>6, <3>1 DEF QueueRight
  <2>8. queue' \in Seq(Sessions)
    BY <1>1, <1>3
  <2> QED BY <2>3, <2>4, <2>5, <2>6, <2>7, <2>8 DEF QueueRight
<1>13. \A d \in {v, c} :
         /\ ThreadRight(d, thread'[d], file'[d], partsReceived'[d])
         /\ StreamRight(d, file'[d], partsReceived'[d], thread'[Other(d)])
  BY <1>1, <1>4, <1>7, <1>9, <1>10, <1>11
<1> QED BY <1>1, <1>2, <1>4, <1>9, <1>12, <1>13, PairMoves

\* What is received at an end of a socket is what the other end sent, in order,
\* with nothing lost or repeated before what is received, and a thread that has
\* waited for something to read finds it; nobody sleeps at an end that could be
\* read or is closed: whatever the sessions, their requests, and the moments at
\* which ends are closed and the daemon shuts down (PushToReadBuffer,
\* WaitUntilCanBeReadLocked, ReadFromInMemoryFile and SetIsClosed in
\* ipc_emulation.cc, and the retries of winscard_msg_webport.cc).
THEOREM SocketsStayFaithful == Spec => []SocketsFaithful
<1>1. Sockets!SocketsAssumption /\ MaxRequests \in Nat
  BY ComponentsAssumption DEF Sockets!SocketsAssumption
<1>2. Init => SocketsInv
  <2> SUFFICES ASSUME Init PROVE SocketsInv
    OBVIOUS
  <2>1. /\ file = [e \in Ends |-> Sockets!NoFile] /\ thread = [e \in Ends |-> Sockets!NoThread]
        /\ partsReceived = [e \in Ends |-> <<>>] /\ closing = Nobody /\ queue = <<>>
    BY DEF Init, Sockets!Init, Ends
  <2>2. <<>> \in Seq(Parts) /\ <<>> \in Seq(Sessions) /\ DOMAIN <<>> = {} /\ Len(<<>>) = 0
    OBVIOUS
  <2>3. Sockets!NoFile \in Files /\ Sockets!NoFile.buffer = <<>>
    BY <2>2 DEF Sockets!NoFile, Files
  <2>4. /\ Sockets!NoThread \in Threads /\ Sockets!NoThread.does = "nothing"
        /\ Sockets!NoThread.at = "start" /\ Sockets!NoThread.request = 0
    BY DEF Sockets!NoThread, Threads, ClientDoes
  <2>5. ASSUME NEW e \in Ends
        PROVE  /\ ThreadRight(e, Sockets!NoThread, Sockets!NoFile, <<>>)
               /\ StreamRight(e, Sockets!NoFile, <<>>, Sockets!NoThread)
    <3>1. ThreadRight(e, Sockets!NoThread, Sockets!NoFile, <<>>)
      BY <1>1, <2>2, <2>3, <2>4 DEF ThreadRight, ClientDoes, ServerDoes, Took
    <3>2. 0 + 0 <= Most(e)
      BY <1>1 DEF Most
    <3>3. Wrote(Sockets!NoThread, 0 + 0)
      BY <2>4 DEF Wrote
    <3> QED BY <2>2, <2>3, <3>1, <3>2, <3>3 DEF StreamRight
  <2>6. QueueRight(queue, thread)
    BY <2>1, <2>2, <2>4, EndsAre DEF QueueRight
  <2> HIDE DEF Ends
  <2> QED BY <2>1, <2>2, <2>3, <2>4, <2>5, <2>6, EndsAre DEF SocketsInv
<1>3. SocketsInv /\ [Next]_vars => SocketsInv'
  <2> SUFFICES ASSUME SocketsInv, [Next]_vars PROVE SocketsInv'
    OBVIOUS
  <2>1. CASE UNCHANGED <<file, closing, thread, queue, partsReceived>>
    BY <2>1 DEF SocketsInv
  <2>2. ASSUME NEW s \in Sessions, Sockets!ClientSetupSession(s) \/ Sockets!StartRequest(s)
        PROVE  SocketsInv'
    BY <1>1, <2>2, SetupKeeps, StartRequestKeeps
  <2>3. CASE Sockets!WaitAndPop
    BY <2>3, WaitAndPopKeeps
  <2>4. CASE Sockets!ShutDown
    BY <2>1, <2>4 DEF Sockets!ShutDown
  <2>5. ASSUME NEW e \in Ends, Sockets!ThreadStep(e) \/ Sockets!CloseInMemoryFile(e)
        PROVE  SocketsInv'
    BY <1>1, <2>5, MessageSendKeeps, WaitKeeps, ReadKeeps, CloseKeeps DEF Sockets!ThreadStep
  <2>6. CASE Sockets!FinishClosing
    BY <2>6, FinishClosingKeeps
  <2>7. UNCHANGED socketsVars \/ Sockets!Next
    BY DEF Next, vars
  <2>8. CASE UNCHANGED socketsVars
    BY <2>1, <2>8 DEF socketsVars
  <2> QED BY <2>2, <2>3, <2>4, <2>5, <2>6, <2>7, <2>8 DEF Sockets!Next, Ends
<1>4. SocketsInv => SocketsFaithful
  <2> SUFFICES ASSUME SocketsInv PROVE SocketsFaithful
    OBVIOUS
  <2>1. ASSUME NEW e \in Ends
        PROVE  /\ thread[e].at # "notReached"
               /\ thread[e].at = "asleep" => file[e].buffer = <<>> /\ ~file[e].closed
    <3>1. thread[e] \in Threads /\ ThreadRight(e, thread[e], file[e], partsReceived[e])
      BY SocketsInvIs
    <3> QED BY <3>1 DEF ThreadRight, Threads
  <2>2. ASSUME NEW e \in Ends
        PROVE  Sockets!IsPrefix(partsReceived[e], Sockets!Sent(e))
    <3> DEFINE rec == partsReceived[e]
               sentTo == Sockets!Sent(e)
               n == Len(rec)
    <3>1. /\ StreamRight(e, file[e], rec, thread[Other(e)]) /\ rec \in Seq(Parts)
          /\ file[e].buffer \in Seq(Parts)
      BY SocketsInvIs
    <3>2. Most(e) \in Nat /\ sentTo = [i \in 1 .. Most(e) |-> SentAt(e, i)]
      BY <1>1 DEF Most, Sockets!Sent, SentAt
    <3>3. n \in Nat /\ n <= Most(e)
      <4>1. n \in Nat /\ Len(file[e].buffer) \in Nat /\ n + Len(file[e].buffer) <= Most(e)
        <5>1. Len(rec) + Len(file[e].buffer) <= Most(e)
          BY <3>1 DEF StreamRight
        <5>2. Len(rec) \in Nat /\ Len(file[e].buffer) \in Nat
          <6> HIDE DEF rec
          <6> QED BY <3>1
        <5> QED BY <5>1, <5>2
      <4>2. \A a, b, m \in Nat : a + b <= m => a <= m
        OBVIOUS
      <4> QED BY <3>2, <4>1, <4>2
    <3> HIDE DEF sentTo, rec
    <3>4. sentTo \in Seq({SentAt(e, i) : i \in 1 .. Most(e)}) /\ Len(sentTo) = Most(e)
      BY <3>2
    <3>5. \A i \in 1 .. n : rec[i] = sentTo[i]
      BY <3>1, <3>2, <3>3 DEF StreamRight
    <3>6. SubSeq(rec, 1, n) = SubSeq(sentTo, 1, n)
      BY <3>1, <3>3, <3>4, <3>5
    <3> QED BY <3>3, <3>4, <3>6 DEF Sockets!IsPrefix, sentTo, rec
  <2> QED BY <2>1, <2>2 DEF SocketsFaithful, Sockets!StreamsInOrder, Sockets!NoLostWakeup, Ends
<1> QED BY <1>2, <1>3, <1>4, PTL DEF Spec
=============================================================================
