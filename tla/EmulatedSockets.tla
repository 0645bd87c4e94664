---------------------------- MODULE EmulatedSockets ----------------------------
(***************************************************************************)
(* The sockets between PC/SC-Lite's client library and its daemon, which   *)
(* share one process here: pairs of in-memory files (ipc_emulation.cc)     *)
(* with blocking receives (winscard_msg_webport.cc), and the queue through *)
(* which the daemon gets its ends (server_sockets_manager.cc and the       *)
(* daemon's thread in pcsc_lite_server_web_port_service.cc).               *)
(*                                                                         *)
(* A client's thread sets up a session, sends requests, each in two parts, *)
(* receives the answer to each, and closes; a thread of the daemon serves  *)
(* it until it can neither receive nor send.  Every write is received by   *)
(* one read of its size, so that a file's bytes are counted in writes.     *)
(***************************************************************************)
EXTENDS Naturals, Sequences, SequencesExt

CONSTANTS
  Sessions,
  MaxRequests,      \* bound: of a session
  Nobody

SocketsAssumption == MaxRequests \in Nat /\ Nobody \notin Sessions \X {"client", "server"}

Ends == Sessions \X {"client", "server"}
Other(e) == <<e[1], IF e[2] = "client" THEN "server" ELSE "client">>

VARIABLES
  file,         \* each end's InMemoryFile
  closing,      \* the end that is being closed, with IpcEmulation's mutex
  thread,       \* the one thread that uses each end
  queue,        \* server_socket_file_descriptors_queue_
  shuttingDown, \* shutting_down_
  received      \* history: what each end's thread has received

vars == <<file, closing, thread, queue, shuttingDown, received>>

NoFile == [mapped |-> FALSE, closed |-> FALSE, buffer |-> <<>>]
NoThread == [does |-> "nothing", at |-> "start", request |-> 0]

Init ==
  /\ file = [e \in Ends |-> NoFile]
  /\ closing = Nobody
  /\ thread = [e \in Ends |-> NoThread]
  /\ queue = <<>>
  /\ shuttingDown = FALSE
  /\ received = [e \in Ends |-> <<>>]

Part(n, kind) == [request |-> n, kind |-> kind]

Sending == {"header", "body", "reply"}
Receiving == {"awaitReply", "awaitHeader", "awaitBody"}

\* What thread e does next: MessageSendWithHeader and MessageReceive in the
\* client library, the loop of ContextThread in the daemon.
After(t) ==
  CASE t.does = "header" -> [t EXCEPT !.does = "body", !.at = "start"]
    [] t.does = "body" -> [t EXCEPT !.does = "awaitReply", !.at = "start"]
    [] t.does = "awaitReply" -> [t EXCEPT !.does = "ready", !.at = "start"]
    [] t.does = "awaitHeader" -> [t EXCEPT !.does = "awaitBody", !.at = "start"]
    [] t.does = "awaitBody" -> [t EXCEPT !.does = "reply", !.at = "start", !.request = @ + 1]
    [] t.does = "reply" -> [t EXCEPT !.does = "awaitHeader", !.at = "start"]

\* SCARD_F_COMM_ERROR: the thread goes on to close its end.
Failed(t) == [t EXCEPT !.does = "failed", !.at = "start"]

-----------------------------------------------------------------------------
\* ClientSetupSession: CreateInMemoryFilePair, and Push.
ClientSetupSession(s) ==
  LET c == <<s, "client">> IN
  /\ thread[c].does = "nothing" /\ closing = Nobody
  /\ file' = [e \in Ends |-> IF e[1] = s THEN [NoFile EXCEPT !.mapped = TRUE] ELSE file[e]]
  /\ thread' = [thread EXCEPT ![c].does = "ready"]
  /\ queue' = Append(queue, s)
  /\ UNCHANGED <<closing, shuttingDown, received>>

\* The client's next request.
StartRequest(s) ==
  LET c == <<s, "client">> IN
  /\ thread[c].does = "ready" /\ thread[c].request < MaxRequests
  /\ thread' = [thread EXCEPT ![c].does = "header", ![c].request = @ + 1]
  /\ UNCHANGED <<file, closing, queue, shuttingDown, received>>

\* WaitAndPop in the daemon's thread, which starts one to serve the client.
WaitAndPop ==
  /\ queue # <<>> /\ ~shuttingDown
  /\ thread' = [thread EXCEPT ![<<Head(queue), "server">>].does = "awaitHeader"]
  /\ queue' = Tail(queue)
  /\ UNCHANGED <<file, closing, shuttingDown, received>>

\* ShutDown: nothing is popped any more.
ShutDown ==
  /\ ~shuttingDown
  /\ shuttingDown' = TRUE
  /\ UNCHANGED <<file, closing, thread, queue, received>>

-----------------------------------------------------------------------------
\* A file is found by its descriptor under IpcEmulation's mutex, and then used
\* under its own, also when it is forgotten in between; the actions below are
\* both, since a file that is forgotten is closed, which has the same outcome.
Usable(e) == file[e].mapped /\ ~file[e].closed

\* The thread that sleeps at end e, if any, is notified.
Notified(threads, e) ==
  IF threads[e].at = "asleep" THEN [threads EXCEPT ![e].at = "start"] ELSE threads

\* MessageSend: WriteToInMemoryFile, and PushToReadBuffer of the other end.
MessageSend(e) ==
  /\ thread[e].does \in Sending /\ closing = Nobody
  /\ IF file[e].mapped /\ ~file[Other(e)].closed
     THEN /\ file' = [file EXCEPT ![Other(e)].buffer =
                        Append(@, Part(thread[e].request, thread[e].does))]
          /\ thread' = Notified([thread EXCEPT ![e] = After(@)], Other(e))
     ELSE thread' = [thread EXCEPT ![e] = Failed(@)] /\ UNCHANGED file
  /\ UNCHANGED <<closing, queue, shuttingDown, received>>

\* MessageReceive: WaitUntilCanBeReadLocked evaluates its criteria with the
\* file's mutex, which the sleep gives up, also while the file is being closed
\* if it was found before.
WaitUntilCanBeRead(e) ==
  /\ thread[e].does \in Receiving /\ thread[e].at = "start"
  /\ thread' = [thread EXCEPT ![e] =
       IF Usable(e)
       THEN [@ EXCEPT !.at = IF file[e].buffer = <<>> THEN "asleep" ELSE "readable"]
       ELSE Failed(@)]
  /\ UNCHANGED <<file, closing, queue, shuttingDown, received>>

\* MessageReceive: ReadFromInMemoryFile; an empty file would be NOTREACHED.
Read(e) ==
  /\ thread[e].at = "readable" /\ closing = Nobody
  /\ IF ~Usable(e)
     THEN thread' = [thread EXCEPT ![e] = Failed(@)] /\ UNCHANGED <<file, received>>
     ELSE IF file[e].buffer = <<>>
     THEN thread' = [thread EXCEPT ![e].at = "notReached"] /\ UNCHANGED <<file, received>>
     ELSE /\ received' = [received EXCEPT ![e] = Append(@, Head(file[e].buffer))]
          /\ file' = [file EXCEPT ![e].buffer = Tail(@)]
          /\ thread' = [thread EXCEPT ![e] = After(@)]
  /\ UNCHANGED <<closing, queue, shuttingDown>>

-----------------------------------------------------------------------------
\* Who closes an end: its own thread, after its last request or a failure, or
\* for an end that is served the daemon that shuts down.
MayClose(e) ==
  \/ thread[e].does \in {"ready", "failed"}
  \/ shuttingDown /\ e[2] = "server" /\ thread[e].does # "nothing"

\* Mutant: the sleeping thread of the end itself is the only one to be told.
CloseOtherNot(threads, e) == threads

\* SetIsClosed of the other end.
CloseOther(threads, e) == Notified(threads, Other(e))

Ended(t) == IF t.does \in {"ready", "failed"} THEN [t EXCEPT !.does = "ended"] ELSE t

\* CloseInMemoryFile, with IpcEmulation's mutex: SetIsClosed of this end ...
CloseInMemoryFile(e) ==
  /\ MayClose(e) /\ closing = Nobody
  /\ IF file[e].mapped
     THEN /\ file' = [file EXCEPT ![e].closed = TRUE]
          /\ thread' = Notified([thread EXCEPT ![e] = Ended(@)], e)
          /\ closing' = e
     ELSE thread' = [thread EXCEPT ![e] = Ended(@)] /\ UNCHANGED <<file, closing>>
  /\ UNCHANGED <<queue, shuttingDown, received>>

\* ... SetIsClosed of the other end, unless it is closed already, and the
\* descriptor is forgotten.
FinishClosing ==
  /\ closing # Nobody
  /\ file' = [file EXCEPT ![closing].mapped = FALSE, ![Other(closing)].closed = TRUE]
  /\ thread' = CloseOther(thread, closing)
  /\ closing' = Nobody
  /\ UNCHANGED <<queue, shuttingDown, received>>

ThreadStep(e) ==
  \/ MessageSend(e) \/ WaitUntilCanBeRead(e) \/ Read(e)
  \/ thread[e].does = "failed" /\ CloseInMemoryFile(e)

Next ==
  \/ \E s \in Sessions : ClientSetupSession(s) \/ StartRequest(s)
  \/ WaitAndPop \/ ShutDown
  \/ \E e \in Ends : ThreadStep(e) \/ CloseInMemoryFile(e)
  \/ FinishClosing

\* Threads run, and a daemon that shuts down closes what it serves.
Fairness ==
  /\ WF_vars(WaitAndPop) /\ WF_vars(FinishClosing)
  /\ \A e \in Ends : WF_vars(ThreadStep(e)) /\ WF_vars(shuttingDown /\ CloseInMemoryFile(e))

Spec == Init /\ [][Next]_vars /\ Fairness

-----------------------------------------------------------------------------
\* What is received: the parts of the other end's requests or replies, in
\* order, none twice and none left out, whatever is lost when a file is closed;
\* and a thread that has waited finds what it waited for.
Sent(e) ==
  IF e[2] = "server"
  THEN [i \in 1 .. 2 * MaxRequests |-> Part((i + 1) \div 2, IF i % 2 = 1 THEN "header" ELSE "body")]
  ELSE [i \in 1 .. MaxRequests |-> Part(i, "reply")]

StreamsInOrder ==
  \A e \in Ends : IsPrefix(received[e], Sent(e)) /\ thread[e].at # "notReached"

\* Nobody sleeps at an end that could be read or is closed.
NoLostWakeup ==
  \A e \in Ends : thread[e].at = "asleep" => file[e].buffer = <<>> /\ ~file[e].closed

\* A client that waits for an answer gets it, or learns that there is none; only
\* one that the daemon has not yet accepted when it shuts down may wait for ever.
RequestsEnd ==
  \A s \in Sessions :
    thread[<<s, "client">>].does = "awaitReply"
      ~> \/ thread[<<s, "client">>].does # "awaitReply"
         \/ shuttingDown /\ \E i \in DOMAIN queue : queue[i] = s
=============================================================================
