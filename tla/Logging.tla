------------------------------- MODULE Logging -------------------------------
(***************************************************************************)
(* What the extension's pages keep of their failures: the log records that *)
(* all pages send to one collector page, whose buffer is exported on       *)
(* request (logging.js, log-buffer.js, window-logs-exporting.js).          *)
(***************************************************************************)
EXTENDS Naturals, Sequences

CONSTANTS
  Pages,                \* the paths of the pages' locations
  Capacity,             \* LOG_BUFFER_CAPACITY
  MaxLogs               \* how many records are emitted

GeneratedBackgroundPage == "/_generated_background_page.html"

\* isLogCollectorPage
IsLogCollectorPage(p) == p \in {"/service_worker.js", GeneratedBackgroundPage}

LoggingAssumption ==
  /\ \E p \in Pages : \A q \in Pages : IsLogCollectorPage(q) <=> q = p
  /\ {Capacity, MaxLogs} \subseteq Nat

VARIABLES
  emitted,      \* how many records have been emitted
  ports,        \* the records on their way from each page to the collector
  buffer,       \* the collector's LogBuffer
  systemLog,    \* chrome.systemLog, if there is such an API
  seen,         \* history: every record the collector has seen
  button,       \* the window's export button
  export        \* the messages of an export, and what there was to export

vars == <<emitted, ports, buffer, systemLog, seen, button, export>>

-----------------------------------------------------------------------------
\* LogBuffer: the first records and, in a circular buffer, the last ones.
PrefixCapacity == Capacity \div 2
NewLogBuffer == [size |-> 0, prefix |-> <<>>, suffix |-> <<>>]

Last(s, n) == SubSeq(s, Len(s) - (IF n < Len(s) THEN n ELSE Len(s)) + 1, Len(s))

AddFormattedLogRecord(b, record) ==
  IF Len(b.prefix) < PrefixCapacity
  THEN [b EXCEPT !.prefix = Append(@, record), !.size = @ + 1]
  ELSE [b EXCEPT !.suffix = Last(Append(@, record), Capacity - PrefixCapacity),
                 !.size = @ + 1]

\* getState
State(b) ==
  [logCount |-> b.size, formattedLogsPrefix |-> b.prefix,
   skippedLogCount |-> b.size - Len(b.prefix) - Len(b.suffix),
   formattedLogsSuffix |-> b.suffix]

\* What listenForLogExportRequests posts: the logs, and a line that says how
\* many of them have been left out.
Skipped(n) == [skipped |-> n]
ExportMessages(state) ==
  state.formattedLogsPrefix
    \o (IF state.skippedLogCount > 0 THEN <<Skipped(state.skippedLogCount)>> ELSE <<>>)
    \o state.formattedLogsSuffix

\* A record keeps its page's location, which for the background page is empty.
FormattedDocumentLocation(p) == IF p = GeneratedBackgroundPage THEN "" ELSE p
LogRecord(p, n) == [logger |-> FormattedDocumentLocation(p), number |-> n]

\* addLogRecord: a record is formatted and kept.
AddLogRecord(b, p, n) == AddFormattedLogRecord(b, LogRecord(p, n))

\* addToSystemLog, which bails out silently without the API.
AddToSystemLog(log, p, n) ==
  IF log.available THEN [log EXCEPT !.records = Append(@, LogRecord(p, n))] ELSE log

NoExport == [posted |-> <<>>, got |-> <<>>, records |-> <<>>]

-----------------------------------------------------------------------------
Init ==
  /\ emitted = 0 /\ ports = [p \in Pages |-> <<>>]
  /\ buffer = NewLogBuffer /\ seen = <<>>
  /\ systemLog \in [available : BOOLEAN, records : {<<>>}]
  /\ button = "available" /\ export = NoExport

\* onLogMessageReceived, and the collector's own handlers, for record n of p.
Collect(p, n) ==
  /\ buffer' = AddLogRecord(buffer, p, n)
  /\ systemLog' = AddToSystemLog(systemLog, p, n)
  /\ seen' = Append(seen, LogRecord(p, n))

\* The collector page emits a record: attachBufferToLogger.
EmitHere(p) ==
  /\ IsLogCollectorPage(p) /\ emitted < MaxLogs
  /\ emitted' = emitted + 1
  /\ Collect(p, emitted + 1)
  /\ UNCHANGED <<ports, button, export>>

\* Another page does, and posts it to the collector: setupLogSending.
EmitElsewhere(p) ==
  /\ ~IsLogCollectorPage(p) /\ emitted < MaxLogs
  /\ emitted' = emitted + 1
  /\ ports' = [ports EXCEPT ![p] = Append(@, emitted + 1)]
  /\ UNCHANGED <<buffer, systemLog, seen, button, export>>

\* setupLogReceiving: the collector gets a record of another page.
LogReceived(p) ==
  /\ ports[p] # <<>>
  /\ Collect(p, Head(ports[p]))
  /\ ports' = [ports EXCEPT ![p] = Tail(@)]
  /\ UNCHANGED <<emitted, button, export>>

-----------------------------------------------------------------------------
\* exportLogsClickListener: a click is ignored until the export is over.
Click ==
  /\ button = "available"
  /\ button' = "exporting"
  /\ UNCHANGED <<emitted, ports, buffer, systemLog, seen, export>>

\* The collector hears of the port of getLogsForExport: it posts everything and
\* closes the port.
ExportRequested ==
  /\ button = "exporting"
  /\ button' = "reading"
  /\ export' = [posted |-> ExportMessages(State(buffer)), got |-> <<>>,
                records |-> seen]
  /\ UNCHANGED <<emitted, ports, buffer, systemLog, seen>>

\* getLogsForExport: the messages are read until the port is closed.
ExportRead ==
  /\ button = "reading" /\ export.posted # <<>>
  /\ export' = [export EXCEPT !.got = Append(@, Head(export.posted)),
                              !.posted = Tail(@)]
  /\ UNCHANGED <<emitted, ports, buffer, systemLog, seen, button>>

ExportLogs ==
  /\ button = "reading" /\ export.posted = <<>>
  /\ button' = "exported"
  /\ UNCHANGED <<emitted, ports, buffer, systemLog, seen, export>>

ExportTimeoutPassed ==
  /\ button = "exported"
  /\ button' = "available" /\ export' = NoExport
  /\ UNCHANGED <<emitted, ports, buffer, systemLog, seen>>

Next ==
  \/ \E p \in Pages : EmitHere(p) \/ EmitElsewhere(p) \/ LogReceived(p)
  \/ Click \/ ExportRequested \/ ExportRead \/ ExportLogs \/ ExportTimeoutPassed

Spec == Init /\ [][Next]_vars

-----------------------------------------------------------------------------
\* What the user gets to copy is, of the records the collector had when it was
\* asked, the first ones, the number of those left out, and the last ones, as
\* many as the capacity says and each at its place; however many have come in
\* while it was being read.
ExportFaithful ==
  button = "exported" =>
    LET all == export.records
        skipped == Len(all) - Capacity
    IN export.got = IF skipped <= 0 THEN all
                    ELSE SubSeq(all, 1, PrefixCapacity) \o <<Skipped(skipped)>>
                           \o SubSeq(all, PrefixCapacity + skipped + 1, Len(all))
=============================================================================
