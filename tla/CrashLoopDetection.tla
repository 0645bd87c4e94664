-------------------------- MODULE CrashLoopDetection --------------------------
(***************************************************************************)
(* crash-loop-detection.js and its use in logging.js: after a fatal error  *)
(* the extension reloads itself, unless the crashes come in a loop.  Every *)
(* page of the extension has a library of its own that detects crashes,    *)
(* but they share the storage of the crashes' timestamps, which is read    *)
(* and written asynchronously; a reload ends all pages at once.            *)
(***************************************************************************)
EXTENDS Integers, Sequences, Arrays

CONSTANTS
  Pages,
  Window,               \* CRASH_LOOP_WINDOW_MILLISECONDS
  MaxTime, MaxReloads

CrashAssumption == {Window, MaxTime, MaxReloads} \subseteq Nat

CRASH_LOOP_THRESHOLD_COUNT == 3

VARIABLES
  crash,        \* how far each page is with handling a fatal error
  storage,      \* the crash timestamps in chrome.storage.local, if that works
  now,
  reloads       \* history: the timestamps of the crashes that caused a reload

vars == <<crash, storage, now, reloads>>

-----------------------------------------------------------------------------
Last(s, n) == SubSeq(s, Len(s) - (IF n < Len(s) THEN n ELSE Len(s)) + 1, Len(s))

\* Mutant: a crash leaves the window a moment too early.
NewCrashTimestampsInside(recent, t) ==
  LET kept == Filter(recent, {i \in DOMAIN recent : t - Window < recent[i] /\ recent[i] <= t})
  IN Append(IF Len(kept) >= CRASH_LOOP_THRESHOLD_COUNT
            THEN Last(kept, CRASH_LOOP_THRESHOLD_COUNT - 1) ELSE kept, t)

\* storeNewCrashTimestamps, up to the storage: what is stored at time t.
NewCrashTimestamps(recent, t) ==
  LET kept == Filter(recent, {i \in DOMAIN recent : t - Window <= recent[i] /\ recent[i] <= t})
  IN Append(IF Len(kept) >= CRASH_LOOP_THRESHOLD_COUNT
            THEN Last(kept, CRASH_LOOP_THRESHOLD_COUNT - 1) ELSE kept, t)

NotCrashing == [at |-> "running", timestamps |-> <<>>]

Init ==
  /\ crash = [p \in Pages |-> NotCrashing]
  /\ storage \in [works : BOOLEAN, timestamps : {<<>>}]
  /\ now = 0 /\ reloads = <<>>

\* handleImminentCrash: only the first fatal error of a page counts.
HandleImminentCrash(p) ==
  IF crash[p].at = "running" THEN [crash EXCEPT ![p].at = "loading"] ELSE crash

\* GSC.Logging.fail, with scheduleSelfReloadIfAllowed.
Fail(p) == crash' = HandleImminentCrash(p)

\* A check of a page.
CheckWithLogger(p, condition) ==
  /\ IF condition THEN UNCHANGED crash ELSE Fail(p)
  /\ UNCHANGED <<storage, now, reloads>>

\* promisify: the callback's chrome.runtime.lastError rejects.
Promisify(lastError, result) ==
  IF lastError THEN [settled |-> "rejected"] ELSE [settled |-> "resolved", value |-> result]

\* loadRecentCrashTimestamps: the storage is read; an error counts as empty.
LoadRecentCrashTimestamps(p) ==
  /\ crash[p].at = "loading"
  /\ LET loaded == Promisify(~storage.works, storage.timestamps)
     IN crash' = [crash EXCEPT ![p] =
                    [at |-> "loaded",
                     timestamps |-> IF loaded.settled = "resolved" THEN loaded.value ELSE <<>>]]
  /\ UNCHANGED <<storage, now, reloads>>

\* storeNewCrashTimestamps: written, unless the storage fails.
StoreNewCrashTimestamps(p) ==
  /\ crash[p].at = "loaded"
  /\ LET new == NewCrashTimestamps(crash[p].timestamps, now)
     IN /\ crash' = [crash EXCEPT ![p] = [at |-> "stored", timestamps |-> new]]
        /\ storage' = IF storage.works THEN [storage EXCEPT !.timestamps = new]
                      ELSE storage
  /\ UNCHANGED <<now, reloads>>

\* The loop detected: the page is kept as it is.
CrashLoop(p) ==
  /\ crash[p].at = "stored"
  /\ Len(crash[p].timestamps) >= CRASH_LOOP_THRESHOLD_COUNT
  /\ crash' = [crash EXCEPT ![p].at = "defunct"]
  /\ UNCHANGED <<storage, now, reloads>>

\* reloadApp: every page starts anew.
ReloadApp(p) ==
  /\ crash[p].at = "stored" /\ Len(reloads) < MaxReloads
  /\ Len(crash[p].timestamps) < CRASH_LOOP_THRESHOLD_COUNT
  /\ reloads' = Append(reloads, Last(crash[p].timestamps, 1)[1])
  /\ crash' = [q \in Pages |-> NotCrashing]
  /\ UNCHANGED <<storage, now>>

Tick ==
  /\ now < MaxTime
  /\ now' = now + 1
  /\ UNCHANGED <<crash, storage, reloads>>

Next ==
  \/ \E p \in Pages :
       \/ \E condition \in BOOLEAN : CheckWithLogger(p, condition)
       \/ LoadRecentCrashTimestamps(p) \/ StoreNewCrashTimestamps(p)
       \/ CrashLoop(p) \/ ReloadApp(p)
  \/ Tick

Spec == Init /\ [][Next]_vars

-----------------------------------------------------------------------------
\* The extension does not reload itself over and over: of any three crashes
\* within the window at most two end in a reload, whichever pages crash and
\* however their reads and writes of the storage interleave.
NoReloadLoop ==
  storage.works =>
    \A i \in 1 .. Len(reloads) - 2 : reloads[i + 2] - reloads[i] > Window
=============================================================================
