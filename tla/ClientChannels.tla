--------------------------- MODULE ClientChannels ---------------------------
(***************************************************************************)
(* The message channels between the Connector's background page and one    *)
(* client application: message-channel-pinging.js (Pinger, PingResponder)  *)
(* over port-message-channel.js or single-message-based-channel.js, with   *)
(* the listeners of background.js that create the Connector's ends and the *)
(* pool of message-channel-pool.js that holds them.                        *)
(*                                                                         *)
(* The client's page may close or reload at any moment.  A port tells the  *)
(* other end about it; single messages do not, so there the pongs' channel *)
(* identifiers (one per page) and the pinger's timeout are what detects it.*)
(*                                                                         *)
(* Time is discrete: Tick is disabled while something is due, so timers    *)
(* and messages are at most as late as their bounds say, and everything    *)
(* due at one instant happens in any order.                                *)
(***************************************************************************)
EXTENDS Naturals, Sequences, FiniteSets

CONSTANTS
  Timeout,      \* PINGER_TIMEOUT_MILLISECONDS, in ticks
  Interval,     \* PINGER_INTERVAL_MILLISECONDS, in ticks
  Delay,        \* how long a message may stay on its way
  MaxPages      \* how many times the client's page is loaded

PingAssumption ==
  /\ {Timeout, Interval, Delay, MaxPages} \subseteq Nat
  /\ 0 < Interval
  \* The code asserts Interval < Timeout; a round trip has to fit as well.
  /\ Interval + 2 * Delay < Timeout

Pages == 1 .. MaxPages
\* generateChannelId: an identifier for each page; the Connector's background
\* page outlives the clients'.
NoId == 0
ServerId == MaxPages + 1

VARIABLES
  transport,    \* "port" or "single"
  page,         \* the client's page: its identifier, and whether it is open
  client,       \* the client's end of its channel
  server,       \* the Connector's ends, by slot: a port has its own, single
                \* messages of one extension share one
  toServer,     \* messages on their way, by the page that sent them
  toClient,     \* and by the slot that sent them
  pool          \* MessageChannelPool.channels_: the slots it holds

vars == <<transport, page, client, server, toServer, toClient, pool>>

Msg(type, id) == [type |-> type, id |-> id, age |-> 0]
PingerMessage(id) == Msg("ping", id)
PingResponderMessage(id) == Msg("pong", id)

\* The service of a message: a Pinger gets the pongs, a PingResponder the pings.
ForPinger(m) == m.type = "pong"
ForPingResponder(m) == m.type = "ping"

\* A disposed channel: neither timer will do anything.
Closed == [open |-> FALSE, prev |-> NoId, idle |-> 0, wait |-> 0, by |-> NoId]

\* A new channel: its pinger starts the timeout's timer, and posts the first
\* ping at the next turn of the event loop.  `by` is history: the page that had
\* the channel opened.
Opened(p) == [Closed EXCEPT !.open = TRUE, !.wait = Interval, !.by = p]

\* The extension's only channel.
NewSingleChannel(p) == Opened(p)

PageOf(s) == IF transport = "port" THEN s ELSE page.id
Connected(p) == page.up /\ page.id = p

-----------------------------------------------------------------------------
\* pingMessageReceivedListener_: the Connector pings on a ping, and only over
\* single messages.
PingOnPing(id) ==
  IF id = ServerId /\ transport = "single" THEN <<PingerMessage(id)>> ELSE <<>>

\* Mutants: the pongs are not taken for signs of life; the channel identifier
\* is only looked at once.
PongWithoutReset(end, id) ==
  CASE end.prev = NoId -> [end EXCEPT !.prev = id]
    [] end.prev = id   -> end
    [] OTHER           -> Closed
PongOfAnyPage(end, id) ==
  IF end.prev = NoId THEN [end EXCEPT !.prev = id] ELSE [end EXCEPT !.idle = 0]

\* Pinger.serviceCallback_: what a pong of channel `id` does to a pinger.
Pong(end, id) ==
  CASE end.prev = NoId -> [end EXCEPT !.prev = id]
    [] end.prev = id   -> [end EXCEPT !.idle = 0]
    [] OTHER           -> Closed

\* PingResponder.serviceCallback_: an open end answers with its page's channel
\* identifier, then tells its channel.
PongBack(id) == <<PingResponderMessage(id)>> \o PingOnPing(id)

\* PortMessageChannel.disposeInternal disconnects the port, which the other
\* end is told; single messages have nothing like it.
Goodbye(id) == IF transport = "port" THEN <<Msg("disconnect", id)>> ELSE <<>>

\* PortMessageChannel.send: what is posted arrives in order.
Post(links, from, msgs) == [links EXCEPT ![from] = @ \o msgs]

\* MessageChannelPool.addChannel, and handleChannelDisposed_: the channel told
\* the pool that it has been disposed of.
AddChannel(channels, s) == channels \cup {s}
\* (Mutant: the pool is not told.)
DropNoChannel(channels, s) == channels

DropChannel(channels, s) == channels \ {s}

-----------------------------------------------------------------------------
Init ==
  /\ transport \in {"port", "single"}
  /\ page = [id |-> 0, up |-> FALSE]
  /\ client = Closed
  /\ server = [s \in Pages |-> Closed]
  /\ toServer = [p \in Pages |-> <<>>]
  /\ toClient = [s \in Pages |-> <<>>]
  /\ pool = {}

\* The client's page is loaded and opens its channel to the Connector.
LoadPage ==
  /\ ~page.up /\ page.id < MaxPages
  /\ page' = [id |-> page.id + 1, up |-> TRUE]
  /\ client' = Opened(page.id + 1)
  /\ toServer' = IF transport = "port"
                 THEN Post(toServer, page.id + 1, <<Msg("connect", page.id + 1)>>)
                 ELSE toServer
  /\ UNCHANGED <<transport, server, toClient, pool>>

\* The client's page is closed, or goes away to be loaded anew.
ClosePage ==
  /\ page.up
  /\ page' = [page EXCEPT !.up = FALSE]
  /\ client' = Closed
  /\ toServer' = IF client.open THEN Post(toServer, page.id, Goodbye(page.id))
                 ELSE toServer
  /\ UNCHANGED <<transport, server, toClient, pool>>

-----------------------------------------------------------------------------
\* The client's pinger: the periodic ping, and the timeout of the pongs.
ClientPings ==
  /\ client.open /\ client.wait >= Interval
  /\ client' = [client EXCEPT !.wait = 0]
  /\ toServer' = Post(toServer, page.id, <<PingerMessage(page.id)>>)
  /\ UNCHANGED <<transport, page, server, toClient, pool>>

ClientTimeout ==
  /\ client.open /\ client.idle >= Timeout
  /\ client' = Closed
  /\ toServer' = Post(toServer, page.id, Goodbye(page.id))
  /\ UNCHANGED <<transport, page, server, toClient, pool>>

\* A message of slot s reaches the client.  Over a port it is for the page
\* that opened the port, a single message for whichever page is there.
ClientReceives(s) ==
  /\ toClient[s] # <<>>
  /\ LET m == Head(toClient[s])
         here == Connected(PageOf(s)) /\ client.open
         next == CASE ForPinger(m) -> Pong(client, m.id)
                   [] ForPingResponder(m) -> client
                   [] m.type = "disconnect" -> Closed
         sent == CASE ForPingResponder(m) -> PongBack(page.id)
                   [] ForPinger(m) /\ ~next.open -> Goodbye(page.id)
                   [] OTHER -> <<>>
     IN /\ toClient' = [toClient EXCEPT ![s] = Tail(@)]
        /\ client' = IF here THEN next ELSE client
        /\ toServer' = IF here THEN Post(toServer, page.id, sent) ELSE toServer
  /\ UNCHANGED <<transport, page, server, pool>>

-----------------------------------------------------------------------------
ServerPings(s) ==
  /\ server[s].open /\ server[s].wait >= Interval
  /\ server' = [server EXCEPT ![s].wait = 0]
  /\ toClient' = Post(toClient, s, <<PingerMessage(ServerId)>>)
  /\ UNCHANGED <<transport, page, client, toServer, pool>>

ServerTimeout(s) ==
  /\ server[s].open /\ server[s].idle >= Timeout
  /\ server' = [server EXCEPT ![s] = Closed]
  /\ toClient' = Post(toClient, s, Goodbye(ServerId))
  /\ pool' = DropChannel(pool, s)
  /\ UNCHANGED <<transport, page, client, toServer>>
\* What an open end of the Connector makes of message m of page p.
Handled(end, m) ==
  CASE ForPingResponder(m) -> [end |-> end, sent |-> PongBack(ServerId)]
    [] ForPinger(m) ->
         LET next == Pong(end, m.id)
         IN [end |-> next,
             sent |-> IF next.open THEN <<>> ELSE Goodbye(ServerId)]
    [] OTHER -> [end |-> Closed, sent |-> <<>>]

\* onConnectExternal, onMessage and onDisconnect of a port: a disposed end has
\* removed its listeners.
PortReceives(p) ==
  /\ transport = "port" /\ toServer[p] # <<>>
  /\ LET m == Head(toServer[p])
         r == IF m.type = "connect"
              THEN [end |-> Opened(p), sent |-> <<>>]
              ELSE IF server[p].open THEN Handled(server[p], m)
              ELSE [end |-> Closed, sent |-> <<>>]
     IN /\ server' = [server EXCEPT ![p] = r.end]
        /\ toClient' = Post(toClient, p, r.sent)
        /\ pool' = IF m.type = "connect" THEN AddChannel(pool, p)
                   ELSE IF server[p].open /\ ~r.end.open THEN DropChannel(pool, p)
                   ELSE pool
  /\ toServer' = [toServer EXCEPT ![p] = Tail(@)]
  /\ UNCHANGED <<transport, page, client>>

\* getOrCreateSingleMessageBasedChannel for the extension page p belongs to.
ChannelOf(p) == IF server[1].open THEN server[1] ELSE NewSingleChannel(p)

\* externalMessageListener: the message is handled by the extension's channel,
\* a new one if there is none, and once more by a new one if it exposed that
\* the client had been reloaded.
SingleReceives(p) ==
  /\ transport = "single" /\ toServer[p] # <<>>
  /\ LET m == Head(toServer[p])
         first == Handled(ChannelOf(p), m)
         r == IF first.end.open THEN first ELSE Handled(NewSingleChannel(p), m)
     IN /\ server' = [server EXCEPT ![1] = r.end]
        /\ toClient' = Post(toClient, 1, r.sent)
        /\ pool' = IF first.end.open THEN AddChannel(pool, 1)
                   ELSE AddChannel(DropChannel(pool, 1), 1)
  /\ toServer' = [toServer EXCEPT ![p] = Tail(@)]
  /\ UNCHANGED <<transport, page, client>>

-----------------------------------------------------------------------------
Due(end) == end.open /\ (end.wait >= Interval \/ end.idle >= Timeout)
Late(q) == q # <<>> /\ Head(q).age >= Delay

Older(end) ==
  IF end.open
  THEN [end EXCEPT !.idle = @ + 1, !.wait = @ + 1] ELSE end
Aged(q) == [i \in DOMAIN q |-> [q[i] EXCEPT !.age = @ + 1]]

\* One tick of time, once nothing is due.
Tick ==
  /\ ~Due(client) /\ \A s \in Pages : ~Due(server[s])
  /\ \A p \in Pages : ~Late(toServer[p]) /\ ~Late(toClient[p])
  /\ client' = Older(client)
  /\ server' = [s \in Pages |-> Older(server[s])]
  /\ toServer' = [p \in Pages |-> Aged(toServer[p])]
  /\ toClient' = [s \in Pages |-> Aged(toClient[s])]
  /\ UNCHANGED <<transport, page, pool>>

Next ==
  \/ LoadPage \/ ClosePage \/ ClientPings \/ ClientTimeout
  \/ \E s \in Pages : \/ ClientReceives(s) \/ ServerPings(s) \/ ServerTimeout(s)
                       \/ PortReceives(s) \/ SingleReceives(s)
  \/ Tick

\* Timers fire and messages arrive; nobody has to load or close a page.
Fairness ==
  /\ WF_vars(Tick)
  /\ WF_vars(ClientPings \/ ClientTimeout)
  /\ WF_vars(\E s \in Pages : ServerPings(s) \/ ServerTimeout(s))
  /\ WF_vars(\E s \in Pages : ClientReceives(s))
  /\ WF_vars(\E s \in Pages : PortReceives(s) \/ SingleReceives(s))

Spec == Init /\ [][Next]_vars /\ Fairness

-----------------------------------------------------------------------------
\* A pinger does not give up on a page that is there and answers: neither the
\* client's on the Connector, nor the Connector's on the page that had its
\* channel opened.  (The round trip has to fit between interval and timeout.)
LiveEndsKept ==
  /\ client.open => client.idle < Timeout
  /\ \A s \in Pages :
       server[s].open /\ Connected(server[s].by) => server[s].idle < Timeout

\* The message that exposes a reloaded client is not lost with the old
\* channel: a pong over single messages leaves the Connector with a channel
\* established with the page that sent it.
PongEstablishes ==
  [][\A p \in Pages :
       toServer[p] # <<>> /\ Head(toServer[p]).type = "pong"
         /\ toServer'[p] = Tail(toServer[p]) /\ transport = "single"
       => server'[1].open /\ server'[1].prev = p]_vars

\* A client that has left for good is noticed, over either transport: no
\* channel, and so no client handler, is kept for it.
DepartedNoticed == <>[](~page.up) => <>[](pool = {})
=============================================================================
