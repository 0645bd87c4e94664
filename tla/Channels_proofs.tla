--------------------------- MODULE Channels_proofs ----------------------------
(***************************************************************************)
(* The message channels between the Connector and its clients' pages, and  *)
(* their pingers, for any number of pages, any interval and any delay that *)
(* PingAssumption allows.                                                  *)
(*                                                                         *)
(* PongsEstablish follows from the types: what a page sends bears its      *)
(* identifier (ChannelsTypes).  PingersNeverGiveUp needs a timed argument: *)
(* while an end waits, a message that will reset it is due early enough.   *)
(* Expected says where that message is: still to be sent, a ping on its    *)
(* way out, or a pong on its way back; an end that does not know the other *)
(* one's identifier yet needs two of them, since the first pong resets     *)
(* nothing (Met).  PingersInv adds what keeps it: queues in order of age,  *)
(* and the channels of pages that are there open and with no disconnection *)
(* on its way.                                                             *)
(***************************************************************************)
EXTENDS MCChannels, TLAPS

Pages == Channels!Pages
FromPage(p) == [type : {"connect", "ping", "pong", "disconnect"}, id : {p}, age : Nat]
FromServer == [type : {"ping", "pong", "disconnect"}, id : {Channels!ServerId}, age : Nat]
End == [open : BOOLEAN, prev : 0 .. MaxPages + 1, idle : Nat, wait : Nat, by : 0 .. MaxPages]

Links(links) ==
  links = [p \in Pages |-> links[p]] /\ \A p \in Pages : links[p] \in Seq(FromPage(p))

\* What a page sends bears its own identifier, what the Connector sends bears its.
ChannelsTypes ==
  /\ transport \in {"port", "single"}
  /\ tab \in [id : 0 .. MaxPages, up : BOOLEAN]
  /\ client \in End /\ server \in [Pages -> End] /\ pool \subseteq Pages
  /\ Links(toServer)
  /\ toClient \in [Pages -> Seq(FromServer)]
  /\ client.open => tab.up
  /\ tab.up => tab.id \in Pages

LEMMA PagesNumbers ==
  ASSUME Channels!PingAssumption
  PROVE  /\ Timeout \in Nat /\ Interval \in Nat /\ Delay \in Nat /\ MaxPages \in Nat
         /\ Pages = 1 .. MaxPages
         /\ 0 < Interval /\ Interval + 2 * Delay < Timeout
         /\ Channels!ServerId = MaxPages + 1 /\ Channels!NoId = 0
BY DEF Channels!PingAssumption, Pages, Channels!Pages, Channels!ServerId, Channels!NoId

LEMMA EndsTyped ==
  ASSUME Channels!PingAssumption
  PROVE  /\ Channels!Closed \in End /\ ~Channels!Closed.open
         /\ \A p \in 0 .. MaxPages : Channels!Opened(p) \in End /\ Channels!Opened(p).open
         /\ \A end \in End, id \in 0 .. MaxPages + 1 : Channels!Pong(end, id) \in End
         /\ \A end \in End, p \in Pages : \A m \in FromPage(p) : Channels!Handled(end, m).end \in End
         /\ \A end \in End : Channels!Older(end) \in End /\ Channels!Older(end).open = end.open
<1> USE PagesNumbers
<1>1. Channels!Closed \in End /\ ~Channels!Closed.open
  BY DEF Channels!Closed, End
<1>2. ASSUME NEW p \in 0 .. MaxPages PROVE Channels!Opened(p) \in End /\ Channels!Opened(p).open
  <2> DEFINE closed == Channels!Closed
  <2>1. closed \in End /\ Channels!Opened(p) = [closed EXCEPT !.open = TRUE, !.wait = Interval, !.by = p]
    BY <1>1 DEF Channels!Opened
  <2> HIDE DEF closed
  <2> QED BY <2>1 DEF End
<1>3. ASSUME NEW end \in End, NEW id \in 0 .. MaxPages + 1 PROVE Channels!Pong(end, id) \in End
  BY <1>1 DEF Channels!Pong, End
<1>4. ASSUME NEW end \in End, NEW p \in Pages, NEW m \in FromPage(p)
      PROVE  Channels!Handled(end, m).end \in End
  <2>1. m.id \in 0 .. MaxPages + 1
    BY DEF FromPage
  <2>2. Channels!Handled(end, m).end \in {end, Channels!Closed, Channels!Pong(end, m.id)}
    BY DEF Channels!Handled
  <2> QED BY <1>1, <1>3, <2>1, <2>2
<1>5. ASSUME NEW end \in End
      PROVE  Channels!Older(end) \in End /\ Channels!Older(end).open = end.open
  <2>1. end.idle + 1 \in Nat /\ end.wait + 1 \in Nat
    BY DEF End
  <2>2. \/ Channels!Older(end) = end
        \/ Channels!Older(end) = [end EXCEPT !.idle = end.idle + 1, !.wait = end.wait + 1]
    BY DEF Channels!Older
  <2> QED BY <2>1, <2>2 DEF End
<1> QED BY <1>1, <1>2, <1>3, <1>4, <1>5

LEMMA PostTyped ==
  ASSUME Links(toServer), NEW p \in Pages, NEW msgs \in Seq(FromPage(p)),
         NEW posted, posted = Channels!Post(toServer, p, msgs)
  PROVE  /\ Links(posted) /\ posted[p] = toServer[p] \o msgs
         /\ \A q \in Pages : q # p => posted[q] = toServer[q]
         /\ \A q \in Pages : Len(posted[q]) >= Len(toServer[q])
<1>1. /\ posted = [q \in Pages |-> posted[q]]
      /\ posted[p] = toServer[p] \o msgs
      /\ \A q \in Pages : q # p => posted[q] = toServer[q]
  BY DEF Channels!Post, Links
<1>2. toServer[p] \in Seq(FromPage(p))
  BY DEF Links
<1>3. toServer[p] \o msgs \in Seq(FromPage(p)) /\ Len(toServer[p] \o msgs) >= Len(toServer[p])
  BY <1>2
<1>4. \A q \in Pages : posted[q] \in Seq(FromPage(q)) /\ Len(posted[q]) >= Len(toServer[q])
  <2> TAKE q \in Pages
  <2>1. CASE q = p
    BY <1>1, <1>3, <2>1
  <2>2. CASE q # p
    <3>1. toServer[q] \in Seq(FromPage(q))
      BY DEF Links
    <3> QED BY <1>1, <2>2, <3>1
  <2> QED BY <2>1, <2>2
<1> QED BY <1>1, <1>4 DEF Links

LEMMA PostBackTyped ==
  ASSUME toClient \in [Pages -> Seq(FromServer)], NEW s \in Pages, NEW msgs \in Seq(FromServer)
  PROVE  Channels!Post(toClient, s, msgs) \in [Pages -> Seq(FromServer)]
<1>1. toClient[s] \o msgs \in Seq(FromServer)
  OBVIOUS
<1> QED BY <1>1 DEF Channels!Post

LEMMA MessagesTyped ==
  ASSUME Channels!PingAssumption
  PROVE  /\ \A p \in Pages :
              /\ <<Channels!Msg("connect", p)>> \in Seq(FromPage(p))
              /\ <<Channels!PingerMessage(p)>> \in Seq(FromPage(p))
              /\ Channels!PongBack(p) \in Seq(FromPage(p))
              /\ Channels!Goodbye(p) \in Seq(FromPage(p)) /\ <<>> \in Seq(FromPage(p))
         /\ <<Channels!PingerMessage(Channels!ServerId)>> \in Seq(FromServer)
         /\ Channels!PongBack(Channels!ServerId) \in Seq(FromServer)
         /\ Channels!Goodbye(Channels!ServerId) \in Seq(FromServer) /\ <<>> \in Seq(FromServer)
<1>1. ASSUME NEW p \in Pages,
             NEW m, m \in {Channels!Msg("connect", p), Channels!PingerMessage(p),
                           Channels!PingResponderMessage(p), Channels!Msg("disconnect", p)}
      PROVE  m \in FromPage(p)
  BY <1>1 DEF Channels!Msg, Channels!PingerMessage, Channels!PingResponderMessage, FromPage
<1>2. ASSUME NEW m, m \in {Channels!PingerMessage(Channels!ServerId),
                           Channels!PingResponderMessage(Channels!ServerId),
                           Channels!Msg("disconnect", Channels!ServerId)}
      PROVE  m \in FromServer
  BY <1>2 DEF Channels!Msg, Channels!PingerMessage, Channels!PingResponderMessage, FromServer
<1>3. ASSUME NEW p \in Pages
      PROVE  Channels!PongBack(p) = <<Channels!PingResponderMessage(p)>> \o <<>>
  <2>1. p # Channels!ServerId
    BY PagesNumbers
  <2> HIDE DEF Channels!PingResponderMessage
  <2> QED BY <2>1 DEF Channels!PongBack, Channels!PingOnPing
<1>4. \/ Channels!PongBack(Channels!ServerId)
           = <<Channels!PingResponderMessage(Channels!ServerId)>> \o <<>>
      \/ Channels!PongBack(Channels!ServerId)
           = <<Channels!PingResponderMessage(Channels!ServerId)>>
             \o <<Channels!PingerMessage(Channels!ServerId)>>
  <2> HIDE DEF Channels!PingResponderMessage, Channels!PingerMessage
  <2> QED BY DEF Channels!PongBack, Channels!PingOnPing
<1>5. ASSUME NEW S, NEW m \in S
      PROVE  <<m>> \in Seq(S) /\ <<>> \in Seq(S)
  OBVIOUS
<1>9. ASSUME NEW S, NEW s \in Seq(S), NEW t \in Seq(S) PROVE s \o t \in Seq(S)
  OBVIOUS
<1>6. ASSUME NEW p \in Pages
      PROVE  /\ <<Channels!Msg("connect", p)>> \in Seq(FromPage(p))
             /\ <<Channels!PingerMessage(p)>> \in Seq(FromPage(p))
             /\ <<Channels!PingResponderMessage(p)>> \in Seq(FromPage(p))
             /\ <<Channels!Msg("disconnect", p)>> \in Seq(FromPage(p))
             /\ <<>> \in Seq(FromPage(p))
  BY <1>1, <1>5
<1>7. /\ <<Channels!PingerMessage(Channels!ServerId)>> \in Seq(FromServer)
      /\ <<Channels!PingResponderMessage(Channels!ServerId)>> \in Seq(FromServer)
      /\ <<Channels!Msg("disconnect", Channels!ServerId)>> \in Seq(FromServer)
      /\ <<>> \in Seq(FromServer)
  BY <1>2, <1>5
<1>8. ASSUME NEW id PROVE Channels!Goodbye(id) \in {<<Channels!Msg("disconnect", id)>>, <<>>}
  BY DEF Channels!Goodbye
<1>10. Channels!PongBack(Channels!ServerId) \in Seq(FromServer)
  BY <1>4, <1>7, <1>9
<1>11. \A p \in Pages : Channels!PongBack(p) \in Seq(FromPage(p))
  BY <1>3, <1>6, <1>9
<1> QED BY <1>6, <1>7, <1>8, <1>10, <1>11

\* What PongEstablishes says of a step.
Establishes ==
  \A p \in Pages :
    toServer[p] # <<>> /\ Head(toServer[p]).type = "pong"
      /\ toServer'[p] = Tail(toServer[p]) /\ transport = "single"
    => server'[1].open /\ server'[1].prev = p

LEMMA NothingTaken ==
  ASSUME Links(toServer), \A p \in Pages : Len(toServer'[p]) >= Len(toServer[p])
  PROVE  Establishes
<1> SUFFICES ASSUME NEW p \in Pages, toServer[p] # <<>>, toServer'[p] = Tail(toServer[p])
             PROVE  FALSE
  BY DEF Establishes
<1>1. toServer[p] \in Seq(FromPage(p)) /\ Len(toServer'[p]) >= Len(toServer[p])
  BY DEF Links
<1> QED BY <1>1

LEMMA LoadPageTyped ==
  ASSUME Channels!PingAssumption, ChannelsTypes, Channels!LoadPage
  PROVE  ChannelsTypes' /\ Establishes
<1> DEFINE p == tab.id + 1
<1>1. /\ tab' = [id |-> p, up |-> TRUE] /\ client' = Channels!Opened(p)
      /\ toServer' \in {toServer, Channels!Post(toServer, p, <<Channels!Msg("connect", p)>>)}
      /\ UNCHANGED <<transport, server, toClient, pool>> /\ tab.id < MaxPages
  BY DEF Channels!LoadPage
<1>2. p \in Pages /\ p \in 0 .. MaxPages
  BY <1>1, PagesNumbers DEF ChannelsTypes
<1>3. Links(toServer') /\ \A q \in Pages : Len(toServer'[q]) >= Len(toServer[q])
  <2>1. Links(toServer) /\ <<Channels!Msg("connect", p)>> \in Seq(FromPage(p))
    BY <1>2, MessagesTyped DEF ChannelsTypes
  <2>2. CASE toServer' = toServer
    BY <2>1, <2>2 DEF Links
  <2>3. CASE toServer' = Channels!Post(toServer, p, <<Channels!Msg("connect", p)>>)
    BY <1>2, <2>1, <2>3, PostTyped
  <2> QED BY <1>1, <2>2, <2>3
<1>4. client' \in End
  BY <1>1, <1>2, EndsTyped
<1> HIDE DEF p
<1>5. ChannelsTypes'
  BY <1>1, <1>2, <1>3, <1>4 DEF ChannelsTypes
<1>6. Establishes
  BY <1>3, NothingTaken DEF ChannelsTypes
<1> QED BY <1>5, <1>6

\* The client's end changes, and perhaps its page says something more.
LEMMA ClientTyped ==
  ASSUME Channels!PingAssumption, ChannelsTypes, client' \in End, client'.open => tab'.up,
         tab' \in {tab, [tab EXCEPT !.up = FALSE]},
         tab.up, NEW msgs \in Seq(FromPage(tab.id)),
         toServer' \in {toServer, Channels!Post(toServer, tab.id, msgs)},
         toClient' \in [Pages -> Seq(FromServer)],
         UNCHANGED <<transport, server, pool>>
  PROVE  ChannelsTypes' /\ Establishes
<1>1. tab.id \in Pages /\ Links(toServer)
  BY DEF ChannelsTypes
<1>2. Links(toServer') /\ \A q \in Pages : Len(toServer'[q]) >= Len(toServer[q])
  <2>1. CASE toServer' = toServer
    BY <1>1, <2>1 DEF Links
  <2>2. CASE toServer' = Channels!Post(toServer, tab.id, msgs)
    BY <1>1, <2>2, PostTyped
  <2> QED BY <2>1, <2>2
<1>3. tab' \in [id : 0 .. MaxPages, up : BOOLEAN] /\ tab'.id = tab.id
  BY DEF ChannelsTypes
<1>4. ChannelsTypes'
  BY <1>1, <1>2, <1>3 DEF ChannelsTypes
<1>5. Establishes
  BY <1>1, <1>2, NothingTaken
<1> QED BY <1>4, <1>5

LEMMA ClosePageTyped ==
  ASSUME Channels!PingAssumption, ChannelsTypes, Channels!ClosePage
  PROVE  ChannelsTypes' /\ Establishes
<1> DEFINE msgs == Channels!Goodbye(tab.id)
<1>1. /\ tab.up /\ tab' = [tab EXCEPT !.up = FALSE] /\ client' = Channels!Closed
      /\ toServer' \in {toServer, Channels!Post(toServer, tab.id, msgs)}
      /\ UNCHANGED <<transport, server, toClient, pool>>
  BY DEF Channels!ClosePage
<1>2. msgs \in Seq(FromPage(tab.id)) /\ client' \in End /\ ~client'.open
  BY <1>1, MessagesTyped, EndsTyped DEF ChannelsTypes
<1>3. toClient' \in [Pages -> Seq(FromServer)]
  BY <1>1 DEF ChannelsTypes
<1> HIDE DEF msgs
<1> QED BY <1>1, <1>2, <1>3, ClientTyped

LEMMA ClientPingsTyped ==
  ASSUME Channels!PingAssumption, ChannelsTypes,
         Channels!ClientPings \/ Channels!ClientTimeout
  PROVE  ChannelsTypes' /\ Establishes
<1>1. /\ client.open /\ client' \in {[client EXCEPT !.wait = 0], Channels!Closed}
      /\ \/ toServer' = Channels!Post(toServer, tab.id, <<Channels!PingerMessage(tab.id)>>)
         \/ toServer' = Channels!Post(toServer, tab.id, Channels!Goodbye(tab.id))
      /\ UNCHANGED <<transport, tab, server, toClient, pool>>
  BY DEF Channels!ClientPings, Channels!ClientTimeout
<1>2. /\ tab.up /\ tab.id \in Pages /\ toClient' \in [Pages -> Seq(FromServer)] /\ client \in End
  BY <1>1 DEF ChannelsTypes
<1>3. /\ <<Channels!PingerMessage(tab.id)>> \in Seq(FromPage(tab.id))
      /\ Channels!Goodbye(tab.id) \in Seq(FromPage(tab.id))
  BY <1>2, MessagesTyped
<1>4. client' \in End
  <2>1. [client EXCEPT !.wait = 0] \in End
    BY <1>2 DEF End
  <2> QED BY <1>1, <2>1, EndsTyped
<1> QED BY <1>1, <1>2, <1>3, <1>4, ClientTyped

LEMMA ClientReceivesTyped ==
  ASSUME Channels!PingAssumption, ChannelsTypes, NEW s \in Pages, Channels!ClientReceives(s)
  PROVE  ChannelsTypes' /\ Establishes
<1> DEFINE m == Head(toClient[s])
           here == Channels!Connected(Channels!PageOf(s)) /\ client.open
<1>1. /\ toClient[s] # <<>> /\ toClient' = [toClient EXCEPT ![s] = Tail(@)]
      /\ UNCHANGED <<transport, tab, server, pool>>
  BY DEF Channels!ClientReceives
<1>2. /\ m \in FromServer /\ toClient' \in [Pages -> Seq(FromServer)]
  <2>1. toClient \in [Pages -> Seq(FromServer)] /\ toClient[s] \in Seq(FromServer)
    BY DEF ChannelsTypes
  <2>2. m \in FromServer /\ Tail(toClient[s]) \in Seq(FromServer)
    BY <1>1, <2>1
  <2> QED BY <1>1, <2>1, <2>2
<1>3. client \in End /\ Channels!Pong(client, m.id) \in End /\ Channels!Closed \in End
  <2>0. \A n \in FromServer : n.id \in 0 .. MaxPages + 1
    BY PagesNumbers DEF FromServer
  <2>1. client \in End /\ m.id \in 0 .. MaxPages + 1
    BY <1>2, <2>0 DEF ChannelsTypes
  <2> QED BY <2>1, EndsTyped
<1>4. CASE ~here
  <2>1. UNCHANGED <<client, toServer>>
    BY <1>4 DEF Channels!ClientReceives
  <2>2. Links(toServer) /\ Links(toServer') /\ \A q \in Pages : Len(toServer'[q]) >= Len(toServer[q])
    BY <2>1 DEF ChannelsTypes, Links
  <2>3. Establishes
    BY <2>2, NothingTaken
  <2>4. ChannelsTypes'
    BY <1>1, <1>2, <2>1, <2>2 DEF ChannelsTypes
  <2> QED BY <2>3, <2>4
<1>5. CASE here
  <2>1. tab.up /\ tab.id \in Pages
    BY <1>5 DEF ChannelsTypes
  <2>3. /\ client' \in {client, Channels!Pong(client, m.id), Channels!Closed}
        /\ toServer' = Channels!Post(toServer, tab.id,
             CASE Channels!ForPingResponder(m) -> Channels!PongBack(tab.id)
               [] Channels!ForPinger(m) /\ ~client'.open -> Channels!Goodbye(tab.id)
               [] OTHER -> <<>>)
    <3>1. m.type = "ping" \/ m.type = "pong" \/ m.type = "disconnect"
      BY <1>2 DEF FromServer
    <3> QED BY <1>5, <3>1
            DEF Channels!ClientReceives, Channels!ForPinger, Channels!ForPingResponder
  <2>4. client' \in End
    BY <1>3, <2>3
  <2> DEFINE sent == CASE Channels!ForPingResponder(m) -> Channels!PongBack(tab.id)
                       [] Channels!ForPinger(m) /\ ~client'.open -> Channels!Goodbye(tab.id)
                       [] OTHER -> <<>>
  <2>5. sent \in Seq(FromPage(tab.id))
    <3>1. /\ Channels!PongBack(tab.id) \in Seq(FromPage(tab.id)) /\ <<>> \in Seq(FromPage(tab.id))
          /\ Channels!Goodbye(tab.id) \in Seq(FromPage(tab.id))
      BY <2>1, MessagesTyped
    <3> QED BY <3>1
  <2> HIDE DEF sent
  <2>6. toServer' \in {toServer, Channels!Post(toServer, tab.id, sent)}
    BY <2>3 DEF sent
  <2>7. tab' \in {tab, [tab EXCEPT !.up = FALSE]} /\ tab'.up
    BY <1>1, <2>1
  <2> QED BY <1>1, <1>2, <2>1, <2>4, <2>5, <2>6, <2>7, ClientTyped
<1> QED BY <1>4, <1>5

\* One of the Connector's ends changes, and perhaps says something more.
LEMMA ServerTyped ==
  ASSUME Channels!PingAssumption, ChannelsTypes, NEW s \in Pages, NEW end \in End,
         server' = [server EXCEPT ![s] = end], NEW msgs \in Seq(FromServer),
         toClient' = Channels!Post(toClient, s, msgs), pool' \subseteq pool \cup {s},
         Links(toServer'), UNCHANGED <<transport, tab, client>>
  PROVE  ChannelsTypes'
<1>1. toClient' \in [Pages -> Seq(FromServer)]
  BY PostBackTyped DEF ChannelsTypes
<1>2. server' \in [Pages -> End]
  BY DEF ChannelsTypes
<1> QED BY <1>1, <1>2 DEF ChannelsTypes

LEMMA ServerPingsTyped ==
  ASSUME Channels!PingAssumption, ChannelsTypes, NEW s \in Pages,
         Channels!ServerPings(s) \/ Channels!ServerTimeout(s)
  PROVE  ChannelsTypes' /\ Establishes
<1>1. /\ Links(toServer) /\ UNCHANGED <<transport, tab, client, toServer>>
      /\ server \in [Pages -> End] /\ server[s] \in End /\ pool' \subseteq pool \cup {s}
  BY DEF Channels!ServerPings, Channels!ServerTimeout, Channels!DropChannel, ChannelsTypes
<1>2. Links(toServer') /\ \A p \in Pages : Len(toServer'[p]) >= Len(toServer[p])
  BY <1>1 DEF Links
<1>3. Establishes
  BY <1>1, <1>2, NothingTaken
<1>4. /\ <<Channels!PingerMessage(Channels!ServerId)>> \in Seq(FromServer)
      /\ Channels!Goodbye(Channels!ServerId) \in Seq(FromServer)
  BY MessagesTyped
<1>5. CASE Channels!ServerPings(s)
  <2> DEFINE end == [server[s] EXCEPT !.wait = 0]
  <2>1. /\ server' = [server EXCEPT ![s] = end] /\ end \in End
        /\ toClient' = Channels!Post(toClient, s, <<Channels!PingerMessage(Channels!ServerId)>>)
    BY <1>1, <1>5 DEF Channels!ServerPings, End
  <2> HIDE DEF end
  <2> QED BY <1>1, <1>2, <1>3, <1>4, <2>1, ServerTyped
<1>6. CASE Channels!ServerTimeout(s)
  <2>1. /\ server' = [server EXCEPT ![s] = Channels!Closed] /\ Channels!Closed \in End
        /\ toClient' = Channels!Post(toClient, s, Channels!Goodbye(Channels!ServerId))
    BY <1>6, EndsTyped DEF Channels!ServerTimeout
  <2> QED BY <1>1, <1>2, <1>3, <1>4, <2>1, ServerTyped
<1> QED BY <1>5, <1>6

\* The next message of page p is taken.
LEMMA TakenTyped ==
  ASSUME Links(toServer), NEW p \in Pages, toServer[p] # <<>>,
         toServer' = [toServer EXCEPT ![p] = Tail(@)]
  PROVE  /\ Head(toServer[p]) \in FromPage(p) /\ Links(toServer')
         /\ \A q \in Pages : q # p => toServer'[q] = toServer[q]
<1>1. toServer[p] \in Seq(FromPage(p)) /\ \A q \in Pages : toServer[q] \in Seq(FromPage(q))
  BY DEF Links
<1>2. Head(toServer[p]) \in FromPage(p) /\ Tail(toServer[p]) \in Seq(FromPage(p))
  BY <1>1
<1>3. /\ toServer' = [q \in Pages |-> toServer'[q]] /\ toServer'[p] = Tail(toServer[p])
      /\ \A q \in Pages : q # p => toServer'[q] = toServer[q]
  BY DEF Links
<1>4. \A q \in Pages : toServer'[q] \in Seq(FromPage(q))
  BY <1>1, <1>2, <1>3
<1> QED BY <1>2, <1>3, <1>4 DEF Links

LEMMA HandledTyped ==
  ASSUME Channels!PingAssumption, NEW end \in End, NEW p \in Pages, NEW m \in FromPage(p)
  PROVE  /\ Channels!Handled(end, m).end \in End /\ Channels!Handled(end, m).sent \in Seq(FromServer)
<1>1. Channels!Handled(end, m).end \in End
  BY EndsTyped
<1>2. /\ Channels!PongBack(Channels!ServerId) \in Seq(FromServer)
      /\ Channels!Goodbye(Channels!ServerId) \in Seq(FromServer) /\ <<>> \in Seq(FromServer)
  BY MessagesTyped
<1>3. Channels!Handled(end, m).sent \in {Channels!PongBack(Channels!ServerId),
                                         Channels!Goodbye(Channels!ServerId), <<>>}
  BY DEF Channels!Handled
<1> QED BY <1>1, <1>2, <1>3

LEMMA PortReceivesTyped ==
  ASSUME Channels!PingAssumption, ChannelsTypes, NEW p \in Pages, Channels!PortReceives(p)
  PROVE  ChannelsTypes' /\ Establishes
<1> DEFINE m == Head(toServer[p])
           r == IF m.type = "connect"
                THEN [end |-> Channels!Opened(p), sent |-> <<>>]
                ELSE IF server[p].open THEN Channels!Handled(server[p], m)
                ELSE [end |-> Channels!Closed, sent |-> <<>>]
<1>1. /\ toServer[p] # <<>> /\ toServer' = [toServer EXCEPT ![p] = Tail(@)]
      /\ server' = [server EXCEPT ![p] = r.end] /\ toClient' = Channels!Post(toClient, p, r.sent)
      /\ pool' \subseteq pool \cup {p} /\ UNCHANGED <<transport, tab, client>>
      /\ transport = "port"
  BY DEF Channels!PortReceives, Channels!AddChannel, Channels!DropChannel
<1>2. m \in FromPage(p) /\ Links(toServer')
  BY <1>1, TakenTyped DEF ChannelsTypes
<1>3. r.end \in End /\ r.sent \in Seq(FromServer)
  <2>1. server[p] \in End /\ p \in 0 .. MaxPages
    BY PagesNumbers DEF ChannelsTypes
  <2>2. Channels!Opened(p) \in End /\ Channels!Closed \in End /\ <<>> \in Seq(FromServer)
    BY <2>1, EndsTyped
  <2>3. /\ Channels!Handled(server[p], m).end \in End
        /\ Channels!Handled(server[p], m).sent \in Seq(FromServer)
    BY <1>2, <2>1, HandledTyped
  <2>4. \/ r.end = Channels!Opened(p) /\ r.sent = <<>>
        \/ r.end = Channels!Closed /\ r.sent = <<>>
        \/ r = Channels!Handled(server[p], m)
    OBVIOUS
  <2> HIDE DEF m, r
  <2> QED BY <2>2, <2>3, <2>4
<1> HIDE DEF r
<1>4. ChannelsTypes'
  BY <1>1, <1>2, <1>3, ServerTyped
<1>5. Establishes
  BY <1>1 DEF Establishes
<1> QED BY <1>4, <1>5

\* A pong establishes the channel: a new one does not know of another page.
LEMMA PongHandled ==
  ASSUME Channels!PingAssumption, NEW end \in End, end.open, NEW p \in Pages,
         NEW m \in FromPage(p), m.type = "pong",
         NEW r, r = Channels!Handled(end, m)
  PROVE  /\ r.end.open => r.end.prev = p
         /\ end.prev = Channels!NoId => r.end.open
<1>1. m.id = p /\ p # Channels!NoId
  BY PagesNumbers DEF FromPage
<1>2. r.end = Channels!Pong(end, p)
  BY <1>1 DEF Channels!Handled, Channels!ForPingResponder, Channels!ForPinger
<1>3. ~Channels!Closed.open
  BY EndsTyped
<1>4. CASE end.prev = Channels!NoId
  BY <1>2, <1>4 DEF Channels!Pong, End
<1>5. CASE end.prev = p
  BY <1>1, <1>2, <1>5 DEF Channels!Pong, End
<1>6. CASE end.prev # Channels!NoId /\ end.prev # p
  BY <1>2, <1>3, <1>6 DEF Channels!Pong
<1> QED BY <1>4, <1>5, <1>6

LEMMA SingleReceivesTyped ==
  ASSUME Channels!PingAssumption, ChannelsTypes, NEW p \in Pages, Channels!SingleReceives(p)
  PROVE  ChannelsTypes' /\ Establishes
<1> DEFINE m == Head(toServer[p])
           first == Channels!Handled(Channels!ChannelOf(p), m)
           second == Channels!Handled(Channels!NewSingleChannel(p), m)
           r == IF first.end.open THEN first ELSE second
<1>1. /\ toServer[p] # <<>> /\ toServer' = [toServer EXCEPT ![p] = Tail(@)]
      /\ server' = [server EXCEPT ![1] = r.end] /\ toClient' = Channels!Post(toClient, 1, r.sent)
      /\ pool' \subseteq pool \cup {1} /\ UNCHANGED <<transport, tab, client>>
  BY DEF Channels!SingleReceives, Channels!AddChannel, Channels!DropChannel
<1>2. /\ m \in FromPage(p) /\ Links(toServer')
      /\ \A q \in Pages : q # p => toServer'[q] = toServer[q]
  BY <1>1, TakenTyped DEF ChannelsTypes
<1>3. 1 \in Pages /\ p \in 0 .. MaxPages /\ server \in [Pages -> End] /\ server[1] \in End
  BY PagesNumbers DEF ChannelsTypes
<1>4. /\ Channels!NewSingleChannel(p) \in End /\ Channels!NewSingleChannel(p).open
      /\ Channels!ChannelOf(p) \in End /\ Channels!ChannelOf(p).open
      /\ Channels!NewSingleChannel(p).prev = Channels!NoId
  <2>1. Channels!Opened(p) \in End /\ Channels!Opened(p).open
    BY <1>3, EndsTyped
  <2>2. Channels!Opened(p).prev = Channels!NoId
    BY DEF Channels!Opened, Channels!Closed
  <2> QED BY <1>3, <2>1, <2>2 DEF Channels!NewSingleChannel, Channels!ChannelOf
<1>5. r.end \in End /\ r.sent \in Seq(FromServer)
  <2>1. /\ first.end \in End /\ first.sent \in Seq(FromServer)
        /\ second.end \in End /\ second.sent \in Seq(FromServer)
    BY <1>2, <1>4, HandledTyped
  <2> HIDE DEF first, second
  <2> QED BY <2>1
<1>6. m.type = "pong" => r.end.open /\ r.end.prev = p
  <2>1. m.type = "pong" => /\ first.end.open => first.end.prev = p
                           /\ second.end.open => second.end.prev = p
                           /\ second.end.open
    <3> HIDE DEF m
    <3> QED BY <1>2, <1>4, PongHandled
  <2> HIDE DEF m, first, second
  <2> QED BY <2>1
<1> HIDE DEF r, m
<1>7. ChannelsTypes'
  BY <1>1, <1>2, <1>3, <1>5, ServerTyped
<1>8. server'[1] = r.end
  BY <1>1, <1>3
<1>9. Establishes
  <2> SUFFICES ASSUME NEW q \in Pages, toServer[q] # <<>>, Head(toServer[q]).type = "pong",
                      toServer'[q] = Tail(toServer[q])
               PROVE  server'[1].open /\ server'[1].prev = q
    BY DEF Establishes
  <2>1. toServer[q] \in Seq(FromPage(q)) /\ Tail(toServer[q]) # toServer[q]
    BY DEF ChannelsTypes, Links
  <2>2. q = p
    BY <1>2, <2>1
  <2> QED BY <1>6, <1>8, <2>2 DEF m
<1> QED BY <1>7, <1>9

LEMMA AgedTyped ==
  ASSUME NEW S, \A m \in S : [m EXCEPT !.age = @ + 1] \in S, NEW q \in Seq(S)
  PROVE  /\ Channels!Aged(q) \in Seq(S) /\ Len(Channels!Aged(q)) = Len(q)
         /\ \A i \in 1 .. Len(q) : Channels!Aged(q)[i] = [q[i] EXCEPT !.age = @ + 1]
<1> DEFINE aged(i) == [q[i] EXCEPT !.age = @ + 1]  r == [i \in 1 .. Len(q) |-> aged(i)]
<1>1. Channels!Aged(q) = r
  BY DEF Channels!Aged
<1>2. \A i \in 1 .. Len(q) : aged(i) \in S
  OBVIOUS
<1> HIDE DEF aged
<1>3. r \in Seq(S) /\ Len(r) = Len(q) /\ \A i \in 1 .. Len(q) : r[i] = aged(i)
  BY <1>2
<1> QED BY <1>1, <1>3 DEF aged

LEMMA TickTyped ==
  ASSUME Channels!PingAssumption, ChannelsTypes, Channels!Tick
  PROVE  ChannelsTypes' /\ Establishes
<1>1. /\ client' = Channels!Older(client)
      /\ server' = [s \in Pages |-> Channels!Older(server[s])]
      /\ toServer' = [p \in Pages |-> Channels!Aged(toServer[p])]
      /\ toClient' = [s \in Pages |-> Channels!Aged(toClient[s])]
      /\ UNCHANGED <<transport, tab, pool>>
  BY DEF Channels!Tick, Pages
<1>2. client' \in End /\ server' \in [Pages -> End] /\ client'.open = client.open
  BY <1>1, EndsTyped DEF ChannelsTypes
<1>3. ASSUME NEW p \in Pages, NEW q \in Seq(FromPage(p))
      PROVE  Channels!Aged(q) \in Seq(FromPage(p)) /\ Len(Channels!Aged(q)) = Len(q)
  <2>1. \A m \in FromPage(p) : [m EXCEPT !.age = @ + 1] \in FromPage(p)
    BY DEF FromPage
  <2> QED BY <2>1, AgedTyped
<1>4. ASSUME NEW q \in Seq(FromServer) PROVE Channels!Aged(q) \in Seq(FromServer)
  <2>1. \A m \in FromServer : [m EXCEPT !.age = @ + 1] \in FromServer
    BY DEF FromServer
  <2> QED BY <2>1, AgedTyped
<1>5. Links(toServer') /\ \A p \in Pages : Len(toServer'[p]) >= Len(toServer[p])
  <2>1. \A p \in Pages : toServer[p] \in Seq(FromPage(p))
    BY DEF ChannelsTypes, Links
  <2>2. \A p \in Pages : /\ toServer'[p] \in Seq(FromPage(p))
                         /\ Len(toServer'[p]) = Len(toServer[p]) /\ Len(toServer[p]) \in Nat
    BY <1>1, <1>3, <2>1
  <2> QED BY <1>1, <2>2 DEF Links
<1>6. toClient' \in [Pages -> Seq(FromServer)]
  BY <1>1, <1>4 DEF ChannelsTypes
<1>7. ChannelsTypes'
  BY <1>1, <1>2, <1>5, <1>6 DEF ChannelsTypes
<1>8. Establishes
  BY <1>5, NothingTaken DEF ChannelsTypes
<1> QED BY <1>7, <1>8

LEMMA ChannelsInitially ==
  ASSUME Channels!PingAssumption PROVE Channels!Init => ChannelsTypes
<1> SUFFICES ASSUME Channels!Init PROVE ChannelsTypes
  OBVIOUS
<1>1. /\ transport \in {"port", "single"} /\ tab = [id |-> 0, up |-> FALSE] /\ pool = {}
      /\ client = Channels!Closed /\ server = [s \in Pages |-> Channels!Closed]
      /\ toServer = [p \in Pages |-> <<>>] /\ toClient = [s \in Pages |-> <<>>]
  BY DEF Channels!Init, Pages
<1>2. Channels!Closed \in End /\ ~Channels!Closed.open
  BY EndsTyped
<1>3. \A p \in Pages : <<>> \in Seq(FromPage(p)) /\ <<>> \in Seq(FromServer)
  OBVIOUS
<1>4. Links(toServer) /\ toClient \in [Pages -> Seq(FromServer)]
  BY <1>1, <1>3 DEF Links
<1>5. tab \in [id : 0 .. MaxPages, up : BOOLEAN] /\ ~tab.up
  BY <1>1, PagesNumbers
<1> QED BY <1>1, <1>2, <1>4, <1>5 DEF ChannelsTypes

LEMMA ChannelsKept ==
  ASSUME Channels!PingAssumption, ChannelsTypes, Channels!Next
  PROVE  ChannelsTypes' /\ Establishes
<1>1. CASE Channels!LoadPage
  BY <1>1, LoadPageTyped
<1>2. CASE Channels!ClosePage
  BY <1>2, ClosePageTyped
<1>3. CASE Channels!ClientPings \/ Channels!ClientTimeout
  BY <1>3, ClientPingsTyped
<1>4. CASE \E s \in Pages : Channels!ClientReceives(s)
  BY <1>4, ClientReceivesTyped
<1>5. CASE \E s \in Pages : Channels!ServerPings(s) \/ Channels!ServerTimeout(s)
  BY <1>5, ServerPingsTyped
<1>6. CASE \E p \in Pages : Channels!PortReceives(p)
  BY <1>6, PortReceivesTyped
<1>7. CASE \E p \in Pages : Channels!SingleReceives(p)
  BY <1>7, SingleReceivesTyped
<1>8. CASE Channels!Tick
  BY <1>8, TickTyped
<1> QED BY <1>1, <1>2, <1>3, <1>4, <1>5, <1>6, <1>7, <1>8 DEF Channels!Next, Pages

\* The pong that exposes a reloaded client is not lost with the old channel
\* (background.js, getOrCreateSingleMessageBasedChannel): it leaves the Connector with
\* a channel established with the page that sent it, however many pages there are.
THEOREM PongsEstablish == PartSpec => PongEstablishes
<1> USE ChannelsAssumption
<1>1. PartInit => ChannelsTypes
  BY ChannelsInitially DEF PartInit
<1>2. ASSUME ChannelsTypes, [PartNext]_partVars
      PROVE  ChannelsTypes' /\ (Establishes \/ UNCHANGED Channels!vars)
  <2>1. CASE Channels!Next
    BY <1>2, <2>1, ChannelsKept
  <2>2. CASE UNCHANGED channelsVars
    BY <1>2, <2>2 DEF channelsVars, Channels!vars, ChannelsTypes, Links
  <2> QED BY <1>2, <2>1, <2>2 DEF PartNext, partVars
<1>3. ChannelsTypes /\ [PartNext]_partVars
        => ChannelsTypes' /\ [Establishes]_(Channels!vars)
  BY <1>2
<1>4. [][Establishes]_(Channels!vars) => PongEstablishes
  BY PTL DEF Establishes, PongEstablishes, Channels!PongEstablishes, Pages
<1> QED BY <1>1, <1>3, <1>4, PTL DEF PartSpec

-----------------------------------------------------------------------------
(* A pinger hears of the other end in time                                  *)

\* The pong of the next ping is in time, of a ping on its way, a pong on its way.
NextInTime(end) == end.idle + Interval + 2 * Delay < Timeout + end.wait
PingInTime(end, m) == m.type = "ping" /\ end.idle + 2 * Delay < Timeout + m.age
PongInTime(end, m) == m.type = "pong" /\ end.idle + Delay < Timeout + m.age

\* An end that knows the other's identifier is reset by the next pong; `out` are the
\* messages to the other end, `back` those from it.
Reset(end, out, back) ==
  \/ NextInTime(end)
  \/ \E j \in DOMAIN out : PingInTime(end, out[j])
  \/ \E j \in DOMAIN back : PongInTime(end, back[j])

\* The first pong only tells the identifier: there must be another in time.
Met(end, out, back) ==
  \/ end.idle = 0 /\ end.wait = Interval
  \/ NextInTime(end) /\ \E i \in DOMAIN out : out[i].type = "ping"
  \/ NextInTime(end) /\ \E i \in DOMAIN back : back[i].type = "pong"
  \/ \E i, j \in DOMAIN out : i < j /\ out[i].type = "ping" /\ PingInTime(end, out[j])
  \/ \E i \in DOMAIN back, j \in DOMAIN out : back[i].type = "pong" /\ PingInTime(end, out[j])
  \/ \E i, j \in DOMAIN back : i < j /\ back[i].type = "pong" /\ PongInTime(end, back[j])

Expected(end, out, back) ==
  /\ end.prev = Channels!NoId => Met(end, out, back)
  /\ end.prev # Channels!NoId => Reset(end, out, back)

\* Messages arrive in order and in time.
Aging(q) ==
  /\ \A i \in DOMAIN q : i \in Nat /\ q[i].age \in Nat /\ q[i].age <= Delay
  /\ \A i, j \in DOMAIN q : i < j => q[j].age <= q[i].age

\* How a queue changes: s becomes t.
Extends(s, t) == \A i \in DOMAIN s : i \in DOMAIN t /\ t[i] = s[i]
Skips(s, t, type) == \A i \in DOMAIN s : s[i].type = type => i - 1 \in DOMAIN t /\ t[i - 1] = s[i]
IsNew(k, s, t, type) ==
  /\ k \in DOMAIN t /\ t[k].type = type /\ t[k].age = 0
  /\ \A i \in DOMAIN s : i < k

LEMMA ExpectedInTime ==
  ASSUME Channels!PingAssumption, NEW end \in End, end.wait <= Interval,
         NEW out, Aging(out), NEW back, Aging(back), Expected(end, out, back)
  PROVE  end.idle < Timeout
<1>1. end.idle \in Nat /\ end.wait \in Nat
  BY DEF End
<1>2. CASE NextInTime(end)
  BY <1>1, <1>2, PagesNumbers DEF NextInTime
<1>3. CASE \E j \in DOMAIN out : PingInTime(end, out[j])
  BY <1>1, <1>3, PagesNumbers DEF PingInTime, Aging
<1>4. CASE \E j \in DOMAIN back : PongInTime(end, back[j])
  BY <1>1, <1>4, PagesNumbers DEF PongInTime, Aging
<1>5. CASE end.idle = 0
  BY <1>5, PagesNumbers
<1> QED BY <1>2, <1>3, <1>4, <1>5 DEF Expected, Met, Reset

LEMMA ExpectedExtended ==
  ASSUME NEW end, NEW out, NEW back, Expected(end, out, back),
         NEW out2, Extends(out, out2), NEW back2, Extends(back, back2)
  PROVE  Expected(end, out2, back2)
<1>1. Met(end, out, back) => Met(end, out2, back2)
  BY DEF Met, Extends
<1>2. Reset(end, out, back) => Reset(end, out2, back2)
  BY DEF Reset, Extends
<1> QED BY <1>1, <1>2 DEF Expected

LEMMA ExpectedSkipped ==
  ASSUME NEW end, NEW out, NEW back, Aging(out), Aging(back), Expected(end, out, back)
  PROVE  /\ \A out2 : Skips(out, out2, "ping") => Expected(end, out2, back)
         /\ \A back2 : Skips(back, back2, "pong") => Expected(end, out, back2)
<1>1. ASSUME NEW out2, Skips(out, out2, "ping") PROVE Expected(end, out2, back)
  <2>1. Met(end, out, back) => Met(end, out2, back)
    BY <1>1 DEF Met, Skips, PingInTime, Aging
  <2>2. Reset(end, out, back) => Reset(end, out2, back)
    BY <1>1 DEF Reset, Skips, PingInTime, Aging
  <2> QED BY <2>1, <2>2 DEF Expected
<1>2. ASSUME NEW back2, Skips(back, back2, "pong") PROVE Expected(end, out, back2)
  <2>1. Met(end, out, back) => Met(end, out, back2)
    BY <1>2 DEF Met, Skips, PongInTime, Aging
  <2>2. Reset(end, out, back) => Reset(end, out, back2)
    BY <1>2 DEF Reset, Skips, PongInTime, Aging
  <2> QED BY <2>1, <2>2 DEF Expected
<1> QED BY <1>1, <1>2

\* The ping at the head of `out` is answered.
LEMMA ExpectedAnswered ==
  ASSUME Channels!PingAssumption, NEW end \in End,
         NEW out, NEW back, Aging(out), Aging(back), Expected(end, out, back),
         1 \in DOMAIN out, out[1].type = "ping", \A i \in DOMAIN out : i >= 1,
         NEW out2, \A i \in DOMAIN out : i # 1 => i - 1 \in DOMAIN out2 /\ out2[i - 1] = out[i],
         NEW back2, Extends(back, back2), NEW k, IsNew(k, back, back2, "pong")
  PROVE  Expected(end, out2, back2)
<1>1. end.idle \in Nat /\ end.wait \in Nat
  BY DEF End
<1>2. PingInTime(end, out[1]) => PongInTime(end, back2[k])
  BY <1>1, PagesNumbers DEF PingInTime, PongInTime, Aging, IsNew
<1>3. Reset(end, out, back) => Reset(end, out2, back2)
  <2>1. CASE NextInTime(end)
    BY <2>1 DEF Reset
  <2>2. CASE \E j \in DOMAIN out : PingInTime(end, out[j])
    <3>1. PICK j \in DOMAIN out : PingInTime(end, out[j])
      BY <2>2
    <3>2. CASE j = 1
      BY <1>2, <3>1, <3>2 DEF Reset, IsNew
    <3>3. CASE j # 1
      BY <3>1, <3>3 DEF Reset
    <3> QED BY <3>2, <3>3
  <2>3. CASE \E j \in DOMAIN back : PongInTime(end, back[j])
    BY <2>3 DEF Reset, Extends
  <2> QED BY <2>1, <2>2, <2>3 DEF Reset
<1>4. Met(end, out, back) => Met(end, out2, back2)
  <2>0. k \in DOMAIN back2 /\ back2[k].type = "pong" /\ \A i \in DOMAIN back : i < k
    BY DEF IsNew
  <2>1. CASE end.idle = 0 /\ end.wait = Interval
    BY <2>1 DEF Met
  <2>2. CASE NextInTime(end)
    BY <2>0, <2>2 DEF Met
  <2>3. CASE \E i, j \in DOMAIN out : i < j /\ out[i].type = "ping" /\ PingInTime(end, out[j])
    <3>1. PICK j \in DOMAIN out : j # 1 /\ PingInTime(end, out[j])
      BY <2>3 DEF Aging
    <3>2. j - 1 \in DOMAIN out2 /\ PingInTime(end, out2[j - 1])
      BY <3>1
    <3> QED BY <2>0, <3>2 DEF Met
  <2>4. CASE \E i \in DOMAIN back, j \in DOMAIN out : back[i].type = "pong" /\ PingInTime(end, out[j])
    <3>1. PICK i \in DOMAIN back, j \in DOMAIN out : back[i].type = "pong" /\ PingInTime(end, out[j])
      BY <2>4
    <3>2. i \in DOMAIN back2 /\ back2[i].type = "pong" /\ i < k
      BY <2>0, <3>1 DEF Extends
    <3>3. CASE j = 1
      BY <1>2, <2>0, <3>1, <3>2, <3>3 DEF Met
    <3>4. CASE j # 1
      <4>1. j - 1 \in DOMAIN out2 /\ PingInTime(end, out2[j - 1])
        BY <3>1, <3>4
      <4> QED BY <3>2, <4>1 DEF Met
    <3> QED BY <3>3, <3>4
  <2>5. CASE \E i, j \in DOMAIN back : i < j /\ back[i].type = "pong" /\ PongInTime(end, back[j])
    BY <2>5 DEF Met, Extends
  <2> QED BY <2>1, <2>2, <2>3, <2>4, <2>5 DEF Met
<1> QED BY <1>3, <1>4 DEF Expected

\* The end pings.
LEMMA ExpectedPinged ==
  ASSUME Channels!PingAssumption, NEW end \in End, end.wait = Interval,
         NEW out, NEW back, Expected(end, out, back),
         NEW out2, Extends(out, out2), NEW k, IsNew(k, out, out2, "ping")
  PROVE  Expected([end EXCEPT !.wait = 0], out2, back)
<1> DEFINE end2 == [end EXCEPT !.wait = 0]
<1>1. end.idle \in Nat /\ end2.idle = end.idle /\ end2.wait = 0 /\ end2.prev = end.prev
  BY DEF End
<1> HIDE DEF end2
<1>2. k \in DOMAIN out2 /\ out2[k].type = "ping" /\ out2[k].age = 0 /\ \A i \in DOMAIN out : i < k
  BY DEF IsNew
<1>3. NextInTime(end) => PingInTime(end2, out2[k])
  BY <1>1, <1>2, PagesNumbers DEF NextInTime, PingInTime
<1>4. /\ \A m : PingInTime(end, m) => PingInTime(end2, m)
      /\ \A m : PongInTime(end, m) => PongInTime(end2, m)
  BY <1>1 DEF PingInTime, PongInTime
<1>5. Reset(end, out, back) => Reset(end2, out2, back)
  BY <1>2, <1>3, <1>4 DEF Reset, Extends
<1>6. Met(end, out, back) => Met(end2, out2, back)
  <2>1. CASE end.idle = 0
    <3>1. NextInTime(end2)
      BY <1>1, <2>1, PagesNumbers DEF NextInTime
    <3> QED BY <1>2, <3>1 DEF Met
  <2>2. CASE NextInTime(end) /\ \E i \in DOMAIN out : out[i].type = "ping"
    BY <1>2, <1>3, <2>2 DEF Met, Extends
  <2>3. CASE NextInTime(end) /\ \E i \in DOMAIN back : back[i].type = "pong"
    BY <1>2, <1>3, <2>3 DEF Met
  <2>4. CASE \E i, j \in DOMAIN out : i < j /\ out[i].type = "ping" /\ PingInTime(end, out[j])
    BY <1>4, <2>4 DEF Met, Extends
  <2>5. CASE \E i \in DOMAIN back, j \in DOMAIN out : back[i].type = "pong" /\ PingInTime(end, out[j])
    BY <1>4, <2>5 DEF Met, Extends
  <2>6. CASE \E i, j \in DOMAIN back : i < j /\ back[i].type = "pong" /\ PongInTime(end, back[j])
    BY <1>4, <2>6 DEF Met
  <2> QED BY <2>1, <2>2, <2>3, <2>4, <2>5, <2>6 DEF Met
<1> QED BY <1>1, <1>5, <1>6 DEF Expected, end2

\* The other end has been met: by the pong at the head of `back`, or by one of another
\* page.
LEMMA ExpectedMet ==
  ASSUME Channels!PingAssumption, NEW end \in End, end.prev = Channels!NoId,
         NEW end2 \in End, end2.prev # Channels!NoId,
         end2.idle = end.idle, end2.wait = end.wait,
         NEW out, NEW back, Aging(back), Expected(end, out, back)
  PROVE  /\ Expected(end2, out, back)
         /\ \A back2 : (\A i \in DOMAIN back : i > 1 => i - 1 \in DOMAIN back2 /\ back2[i - 1] = back[i])
                       /\ (\A i \in DOMAIN back : i >= 1)
                       => Expected(end2, out, back2)
<1>1. end.idle = 0 => NextInTime(end2)
  BY PagesNumbers DEF NextInTime, End
<1>2. /\ NextInTime(end) <=> NextInTime(end2)
      /\ \A m : PingInTime(end, m) => PingInTime(end2, m)
      /\ \A m : PongInTime(end, m) => PongInTime(end2, m)
  BY DEF NextInTime, PingInTime, PongInTime
<1>3. Met(end, out, back)
  BY DEF Expected
<1>4. Reset(end2, out, back)
  BY <1>1, <1>2, <1>3 DEF Met, Reset
<1>5. ASSUME NEW back2, \A i \in DOMAIN back : i > 1 => i - 1 \in DOMAIN back2 /\ back2[i - 1] = back[i],
             \A i \in DOMAIN back : i >= 1
      PROVE  Reset(end2, out, back2)
  <2>1. ASSUME NEW i \in DOMAIN back, NEW j \in DOMAIN back, i < j PROVE j > 1
    BY <1>5, <2>1 DEF Aging
  <2>2. (\E i, j \in DOMAIN back : i < j /\ back[i].type = "pong" /\ PongInTime(end, back[j]))
          => \E j \in DOMAIN back2 : PongInTime(end2, back2[j])
    BY <1>2, <1>5, <2>1
  <2> QED BY <1>1, <1>2, <1>3, <2>2 DEF Met, Reset
<1> QED BY <1>4, <1>5 DEF Expected

\* A pong has just come, or the channel has just been opened.
LEMMA ExpectedFresh ==
  ASSUME Channels!PingAssumption, NEW end \in End, end.idle = 0,
         end.prev # Channels!NoId \/ end.wait = Interval, NEW out, NEW back
  PROVE  Expected(end, out, back)
<1>1. NextInTime(end)
  BY PagesNumbers DEF NextInTime, End
<1> QED BY <1>1 DEF Expected, Met, Reset

LEMMA LaterAsWell ==
  ASSUME NEW i \in Nat, NEW x \in Nat, NEW y \in Nat, NEW a \in Nat, i + x < y + a
  PROVE  (i + 1) + x < y + (a + 1)
OBVIOUS

\* Time goes on, with the next ping not due yet.
LEMMA ExpectedAged ==
  ASSUME Channels!PingAssumption, NEW end \in End, end.wait < Interval,
         NEW out, NEW back, Aging(out), Aging(back), Expected(end, out, back),
         NEW end2, end2.prev = end.prev, end2.idle = end.idle + 1, end2.wait = end.wait + 1,
         NEW out2, \A i \in DOMAIN out : i \in DOMAIN out2 /\ out2[i].type = out[i].type
                                         /\ out2[i].age = out[i].age + 1,
         NEW back2, \A i \in DOMAIN back : i \in DOMAIN back2 /\ back2[i].type = back[i].type
                                           /\ back2[i].age = back[i].age + 1
  PROVE  Expected(end2, out2, back2)
<1>1. end.idle \in Nat /\ end.wait \in Nat /\ end.wait # Interval
  BY PagesNumbers DEF End
<1>2. NextInTime(end) => NextInTime(end2)
  <2>1. ASSUME NEW i \in Nat, NEW w \in Nat, i + Interval + 2 * Delay < Timeout + w
        PROVE  (i + 1) + Interval + 2 * Delay < Timeout + (w + 1)
    <3> DEFINE x == Interval + 2 * Delay
    <3>1. /\ x \in Nat /\ Timeout \in Nat
          /\ \A k \in Nat : k + Interval + 2 * Delay = k + x
      BY PagesNumbers
    <3> HIDE DEF x
    <3>2. (i + 1) + x < Timeout + (w + 1)
      BY <2>1, <3>1, LaterAsWell
    <3> QED BY <3>1, <3>2
  <2> QED BY <1>1, <2>1 DEF NextInTime
<1>3. \A j \in DOMAIN out : PingInTime(end, out[j]) => PingInTime(end2, out2[j])
  <2>1. ASSUME NEW i \in Nat, NEW a \in Nat, i + 2 * Delay < Timeout + a
        PROVE  (i + 1) + 2 * Delay < Timeout + (a + 1)
    <3>1. 2 * Delay \in Nat /\ Timeout \in Nat
      BY PagesNumbers
    <3> QED BY <2>1, <3>1, LaterAsWell
  <2> QED BY <1>1, <2>1 DEF PingInTime, Aging
<1>4. \A j \in DOMAIN back : PongInTime(end, back[j]) => PongInTime(end2, back2[j])
  <2>1. ASSUME NEW i \in Nat, NEW a \in Nat, i + Delay < Timeout + a
        PROVE  (i + 1) + Delay < Timeout + (a + 1)
    <3>1. Delay \in Nat /\ Timeout \in Nat
      BY PagesNumbers
    <3> QED BY <2>1, <3>1, LaterAsWell
  <2> QED BY <1>1, <2>1 DEF PongInTime, Aging
<1>5. Reset(end, out, back) => Reset(end2, out2, back2)
  BY <1>2, <1>3, <1>4 DEF Reset
<1>6. Met(end, out, back) => Met(end2, out2, back2)
  BY <1>1, <1>2, <1>3, <1>4 DEF Met
<1> QED BY <1>5, <1>6 DEF Expected

-----------------------------------------------------------------------------
(* What is posted and what is taken                                         *)

Posts(msgs, types) == \A i \in DOMAIN msgs : msgs[i].age = 0 /\ msgs[i].type \in types
None(q, type) == \A i \in DOMAIN q : q[i].type # type

\* A port's first message is the connection, the only one.
Connecting(q) ==
  1 \in DOMAIN q /\ q[1].type = "connect" /\ \A i \in DOMAIN q : i # 1 => q[i].type # "connect"

LEMMA Appended ==
  ASSUME Channels!PingAssumption, NEW S, NEW s \in Seq(S), NEW t \in Seq(S),
         NEW types, Posts(t, types), NEW u, u = s \o t
  PROVE  /\ Extends(s, u) /\ Extends(s, s)
         /\ Aging(s) => Aging(u)
         /\ \A type : None(s, type) /\ type \notin types => None(u, type)
         /\ "connect" \notin types /\ Connecting(s) => Connecting(u)
         /\ 1 \in DOMAIN t => IsNew(Len(s) + 1, s, u, t[1].type)
<1>1. /\ Len(s) \in Nat /\ DOMAIN s = 1 .. Len(s) /\ u \in Seq(S)
      /\ \A i \in DOMAIN s : i \in Nat /\ i \in DOMAIN u /\ u[i] = s[i] /\ i < Len(s) + 1
      /\ \A i \in DOMAIN u : i \in Nat /\ \/ i \in DOMAIN s
                                          \/ i > Len(s) /\ i - Len(s) \in DOMAIN t
                                             /\ u[i] = t[i - Len(s)]
      /\ 1 \in DOMAIN t => Len(s) + 1 \in DOMAIN u /\ u[Len(s) + 1] = t[1]
  OBVIOUS
<1>2. Extends(s, u) /\ Extends(s, s)
  BY <1>1 DEF Extends
<1>3. ASSUME Aging(s) PROVE Aging(u)
  <2>1. ASSUME NEW i \in DOMAIN u PROVE i \in Nat /\ u[i].age \in Nat /\ u[i].age <= Delay
    <3>1. CASE i \in DOMAIN s
      <4>1. u[i] = s[i]
        BY <1>1, <3>1
      <4> QED BY <1>3, <3>1, <4>1 DEF Aging
    <3>2. CASE i \notin DOMAIN s
      <4>1. i \in Nat /\ u[i].age = 0
        BY <1>1, <3>2 DEF Posts
      <4>2. 0 <= Delay
        BY PagesNumbers
      <4> QED BY <4>1, <4>2
    <3> QED BY <3>1, <3>2
  <2>2. ASSUME NEW i \in DOMAIN u, NEW j \in DOMAIN u, i < j PROVE u[j].age <= u[i].age
    <3>1. CASE j \in DOMAIN s
      <4>1. i \in DOMAIN s
        BY <1>1, <2>2, <3>1
      <4> QED BY <1>1, <1>3, <2>2, <3>1, <4>1 DEF Aging
    <3>2. CASE j \notin DOMAIN s
      <4>1. u[j].age = 0
        BY <1>1, <3>2 DEF Posts
      <4> QED BY <2>1, <4>1
    <3> QED BY <3>1, <3>2
  <2> QED BY <2>1, <2>2 DEF Aging
<1>4. ASSUME NEW type, None(s, type), type \notin types PROVE None(u, type)
  BY <1>1, <1>4 DEF None, Posts
<1>5. ASSUME "connect" \notin types, Connecting(s) PROVE Connecting(u)
  BY <1>1, <1>5 DEF Connecting, Posts
<1>6. ASSUME 1 \in DOMAIN t PROVE IsNew(Len(s) + 1, s, u, t[1].type)
  BY <1>1, <1>6 DEF IsNew, Posts
<1> QED BY <1>2, <1>3, <1>4, <1>5, <1>6

LEMMA Taken ==
  ASSUME NEW S, NEW s \in Seq(S), s # <<>>, NEW u, u = Tail(s)
  PROVE  /\ Head(s) = s[1] /\ 1 \in DOMAIN s
         /\ \A i \in DOMAIN s : i >= 1 /\ (i # 1 => i - 1 \in DOMAIN u /\ u[i - 1] = s[i])
         /\ Aging(s) => Aging(u)
         /\ \A type : None(s, type) => None(u, type)
         /\ Connecting(s) => None(u, "connect")
         /\ \A type : s[1].type # type => Skips(s, u, type)
<1>1. /\ Head(s) = s[1] /\ 1 \in DOMAIN s
      /\ \A i \in DOMAIN s : i >= 1 /\ (i # 1 => i - 1 \in DOMAIN u /\ u[i - 1] = s[i])
      /\ \A i \in DOMAIN u : i \in Nat /\ i + 1 \in DOMAIN s /\ i + 1 # 1 /\ u[i] = s[i + 1]
  OBVIOUS
<1>2. ASSUME Aging(s) PROVE Aging(u)
  BY <1>1, <1>2 DEF Aging
<1>3. \A type : None(s, type) => None(u, type)
  BY <1>1 DEF None
<1>4. Connecting(s) => None(u, "connect")
  BY <1>1 DEF None, Connecting
<1>5. \A type : s[1].type # type => Skips(s, u, type)
  BY <1>1 DEF Skips
<1> QED BY <1>1, <1>2, <1>3, <1>4, <1>5

LEMMA MessagesNew ==
  ASSUME NEW id
  PROVE  /\ Posts(<<Channels!PingerMessage(id)>>, {"ping"})
         /\ 1 \in DOMAIN <<Channels!PingerMessage(id)>>
         /\ <<Channels!PingerMessage(id)>>[1].type = "ping"
         /\ Posts(Channels!PongBack(id), {"ping", "pong"})
         /\ 1 \in DOMAIN Channels!PongBack(id) /\ Channels!PongBack(id)[1].type = "pong"
         /\ Posts(Channels!Goodbye(id), {"disconnect"})
         /\ transport # "port" => Channels!Goodbye(id) = <<>>
         /\ Posts(<<Channels!Msg("connect", id)>>, {"connect"})
         /\ 1 \in DOMAIN <<Channels!Msg("connect", id)>>
         /\ <<Channels!Msg("connect", id)>>[1].type = "connect"
         /\ Posts(<<>>, {})
<1>1. \A type : Channels!Msg(type, id).age = 0 /\ Channels!Msg(type, id).type = type
  BY DEF Channels!Msg
<1>2. ASSUME NEW m, NEW type, m.age = 0, m.type = type
      PROVE  Posts(<<m>>, {type}) /\ 1 \in DOMAIN <<m>> /\ <<m>>[1].type = type
  BY <1>2 DEF Posts
<1>3. ASSUME NEW m, m.age = 0, m.type = "pong", NEW n, n.age = 0, n.type = "ping",
             NEW q, q = <<m>> \o <<n>> \/ q = <<m>> \o <<>>
      PROVE  Posts(q, {"ping", "pong"}) /\ 1 \in DOMAIN q /\ q[1].type = "pong"
  <2>1. 1 \in DOMAIN q /\ q[1] = m /\ \A i \in DOMAIN q : q[i] \in {m, n}
    BY <1>3
  <2> QED BY <1>3, <2>1 DEF Posts
<1>4. \/ Channels!PongBack(id) = <<Channels!Msg("pong", id)>> \o <<Channels!Msg("ping", id)>>
      \/ Channels!PongBack(id) = <<Channels!Msg("pong", id)>> \o <<>>
  <2> HIDE DEF Channels!Msg
  <2> QED BY DEF Channels!PongBack, Channels!PingOnPing, Channels!PingerMessage,
                 Channels!PingResponderMessage
<1>5. Posts(<<>>, {}) /\ Posts(<<>>, {"disconnect"})
  BY DEF Posts
<1>6. /\ Channels!Goodbye(id) \in {<<Channels!Msg("disconnect", id)>>, <<>>}
      /\ transport # "port" => Channels!Goodbye(id) = <<>>
  <2> HIDE DEF Channels!Msg
  <2> QED BY DEF Channels!Goodbye
<1>7. /\ Posts(<<Channels!Msg("ping", id)>>, {"ping"}) /\ 1 \in DOMAIN <<Channels!Msg("ping", id)>>
      /\ <<Channels!Msg("ping", id)>>[1].type = "ping"
      /\ Posts(<<Channels!Msg("connect", id)>>, {"connect"})
      /\ 1 \in DOMAIN <<Channels!Msg("connect", id)>>
      /\ <<Channels!Msg("connect", id)>>[1].type = "connect"
      /\ Posts(<<Channels!Msg("disconnect", id)>>, {"disconnect"})
  BY <1>1, <1>2
<1>8. /\ Posts(Channels!PongBack(id), {"ping", "pong"})
      /\ 1 \in DOMAIN Channels!PongBack(id) /\ Channels!PongBack(id)[1].type = "pong"
  <2> DEFINE m == Channels!Msg("pong", id)  n == Channels!Msg("ping", id)
  <2>1. m.age = 0 /\ m.type = "pong" /\ n.age = 0 /\ n.type = "ping"
    BY <1>1
  <2> HIDE DEF m, n
  <2>2. \A q : q = <<m>> \o <<n>> \/ q = <<m>> \o <<>>
               => Posts(q, {"ping", "pong"}) /\ 1 \in DOMAIN q /\ q[1].type = "pong"
    BY <1>3, <2>1
  <2>3. Channels!PongBack(id) = <<m>> \o <<n>> \/ Channels!PongBack(id) = <<m>> \o <<>>
    BY <1>4 DEF m, n
  <2> QED BY <2>2, <2>3
<1> QED BY <1>5, <1>6, <1>7, <1>8 DEF Channels!PingerMessage

LEMMA PostBackAt ==
  ASSUME toClient \in [Pages -> Seq(FromServer)], NEW s \in Pages, NEW msgs \in Seq(FromServer),
         NEW posted, posted = Channels!Post(toClient, s, msgs)
  PROVE  /\ posted[s] = toClient[s] \o msgs
         /\ \A r \in Pages : r # s => posted[r] = toClient[r]
         /\ toClient[s] \in Seq(FromServer)
BY DEF Channels!Post

-----------------------------------------------------------------------------
(* The inductive invariant of the pingers                                   *)

\* Where the Connector's end of the current page's channel is.
Slot == IF transport = "port" THEN tab.id ELSE 1

QueuesAging ==
  /\ \A p \in Pages : Aging(toServer[p]) /\ Aging(toClient[p])
  /\ client.open => client.wait <= Interval
  /\ \A s \in Pages : server[s].open => server[s].wait <= Interval

\* A port belongs to its page; the current page's is open, or about to be.
PortsOwn ==
  transport = "port" =>
    /\ \A s \in Pages :
         server[s].open => server[s].by = s /\ server[s].prev \in {Channels!NoId, s} /\ s <= tab.id
    /\ tab.up =>
         /\ None(toServer[tab.id], "disconnect") /\ None(toClient[tab.id], "disconnect")
         /\ \/ server[tab.id].open /\ None(toServer[tab.id], "connect")
            \/ ~server[tab.id].open /\ Connecting(toServer[tab.id])
    /\ \A s \in Pages : s > tab.id => toServer[s] = <<>> /\ toClient[s] = <<>>

\* Single messages all use the first slot, and none is about a connection.
SinglesShare ==
  transport # "port" =>
    /\ \A s \in Pages : s # 1 => ~server[s].open /\ toClient[s] = <<>>
    /\ \A s \in Pages : s > tab.id => toServer[s] = <<>>
    /\ \A s \in Pages : /\ None(toServer[s], "connect") /\ None(toServer[s], "disconnect")
                        /\ None(toClient[s], "disconnect")
    /\ \A s \in Pages : server[s].open => server[s].by \in 1 .. tab.id

\* A page keeps its channel, and both pingers hear of each other in time.
PingersExpect ==
  /\ client.open = tab.up
  /\ client.prev \in {Channels!NoId, Channels!ServerId}
  /\ tab.up => Expected(client, toServer[tab.id], toClient[Slot])
  /\ tab.up /\ server[Slot].open /\ server[Slot].by = tab.id
       => Expected(server[Slot], toClient[Slot], toServer[tab.id])

PingersInv == QueuesAging /\ PortsOwn /\ SinglesShare /\ PingersExpect

LEMMA SlotOfPage ==
  ASSUME Channels!PingAssumption, ChannelsTypes, tab.up
  PROVE  tab.id \in Pages /\ Slot \in Pages /\ (transport = "port" => Slot = tab.id)
         /\ (transport # "port" => Slot = 1)
BY PagesNumbers DEF ChannelsTypes, Slot

\* The pingers give up on no page that is there.
LEMMA PingersInTime ==
  ASSUME Channels!PingAssumption, ChannelsTypes, PingersInv PROVE Channels!LiveEndsKept
<1>1. ASSUME client.open PROVE client.idle < Timeout
  <2>1. tab.up /\ client \in End
    BY <1>1 DEF ChannelsTypes
  <2>2. tab.id \in Pages /\ Slot \in Pages
    BY <2>1, SlotOfPage
  <2>3. /\ client.wait <= Interval /\ Aging(toServer[tab.id]) /\ Aging(toClient[Slot])
        /\ Expected(client, toServer[tab.id], toClient[Slot])
    BY <1>1, <2>1, <2>2 DEF PingersInv, QueuesAging, PingersExpect
  <2> QED BY <2>1, <2>3, ExpectedInTime
<1>2. ASSUME NEW s \in Pages, server[s].open, tab.up, tab.id = server[s].by
      PROVE  server[s].idle < Timeout
  <2>1. tab.id \in Pages /\ Slot \in Pages /\ server[s] \in End
    BY <1>2, SlotOfPage DEF ChannelsTypes
  <2>2. s = Slot
    BY <1>2 DEF PingersInv, PortsOwn, SinglesShare, Slot
  <2>3. /\ server[s].wait <= Interval /\ Aging(toServer[tab.id]) /\ Aging(toClient[Slot])
        /\ Expected(server[s], toClient[Slot], toServer[tab.id])
    BY <1>2, <2>1, <2>2 DEF PingersInv, QueuesAging, PingersExpect
  <2> QED BY <2>1, <2>3, ExpectedInTime
<1> QED BY <1>1, <1>2 DEF Channels!LiveEndsKept, Channels!Connected, Pages

LEMMA LoadPageExpects ==
  ASSUME Channels!PingAssumption, ChannelsTypes, ChannelsTypes', PingersInv, Channels!LoadPage
  PROVE  PingersInv'
<1> DEFINE p == tab.id + 1
<1>1. /\ ~tab.up /\ tab' = [id |-> p, up |-> TRUE] /\ client' = Channels!Opened(p)
      /\ toServer' = IF transport = "port"
                     THEN Channels!Post(toServer, p, <<Channels!Msg("connect", p)>>)
                     ELSE toServer
      /\ UNCHANGED <<transport, server, toClient, pool>>
  BY DEF Channels!LoadPage
<1>2. p \in Pages /\ tab.id \in Nat /\ p > tab.id /\ Links(toServer) /\ tab'.id = p /\ tab'.up
  BY <1>1, PagesNumbers DEF ChannelsTypes
<1>3. /\ client' \in End /\ client'.open /\ client'.idle = 0 /\ client'.wait = Interval
      /\ client'.prev = Channels!NoId
  BY <1>1 DEF ChannelsTypes, Channels!Opened, Channels!Closed
<1>4. toServer[p] = <<>> /\ None(toServer[p], "disconnect") /\ Aging(toServer[p])
  <2>1. toServer[p] = <<>>
    BY <1>2 DEF PingersInv, PortsOwn, SinglesShare
  <2> QED BY <2>1 DEF None, Aging
<1>5. \A s \in Pages : s # p => toServer'[s] = toServer[s]
  <2>1. <<Channels!Msg("connect", p)>> \in Seq(FromPage(p))
    BY <1>2, MessagesTyped
  <2> DEFINE q == <<Channels!Msg("connect", p)>>
  <2>2. q \in Seq(FromPage(p)) /\ toServer' \in {toServer, Channels!Post(toServer, p, q)}
    BY <1>1, <2>1
  <2> HIDE DEF p, q
  <2> QED BY <1>2, <2>2, PostTyped
<1>6. transport = "port" =>
        Connecting(toServer'[p]) /\ None(toServer'[p], "disconnect") /\ Aging(toServer'[p])
  <2> DEFINE q == <<Channels!Msg("connect", p)>>
  <2>1. q \in Seq(FromPage(p)) /\ Posts(q, {"connect"}) /\ 1 \in DOMAIN q /\ q[1].type = "connect"
        /\ Len(q) = 1
    BY <1>2, MessagesTyped, MessagesNew
  <2> HIDE DEF q, p
  <2>2. transport = "port" => toServer'[p] = toServer[p] \o q
    BY <1>1, <1>2, <2>1, PostTyped DEF q
  <2>3. toServer[p] \o q = q
    BY <1>4, <2>1
  <2>4. Connecting(q) /\ None(q, "disconnect") /\ Aging(q)
    BY <2>1, PagesNumbers DEF Connecting, None, Aging, Posts
  <2> QED BY <2>2, <2>3, <2>4
<1> HIDE DEF p
<1>7. QueuesAging'
  <2>1. \A s \in Pages : Aging(toServer'[s])
    BY <1>1, <1>4, <1>5, <1>6 DEF PingersInv, QueuesAging
  <2> QED BY <1>1, <1>3, <2>1, PagesNumbers DEF PingersInv, QueuesAging
<1>8. PortsOwn'
  <2> SUFFICES ASSUME transport = "port" PROVE PortsOwn'
    BY <1>1 DEF PortsOwn
  <2>1. \A s \in Pages : /\ server[s].open => s <= p /\ s # p
                         /\ s > p => s > tab.id /\ s # p
    BY <1>2, PagesNumbers DEF PingersInv, PortsOwn, p
  <2>2. toClient[p] = <<>>
    BY <1>2 DEF PingersInv, PortsOwn
  <2>3. None(toClient[p], "disconnect") /\ ~server[p].open
    BY <1>2, <2>1, <2>2 DEF None
  <2> QED BY <1>1, <1>2, <1>5, <1>6, <2>1, <2>3 DEF PingersInv, PortsOwn
<1>9. SinglesShare'
  <2> SUFFICES ASSUME transport # "port" PROVE SinglesShare'
    BY <1>1 DEF SinglesShare
  <2>1. \A s \in Pages : s > p => s > tab.id
    BY <1>2, PagesNumbers DEF p
  <2>2. \A b \in 1 .. tab.id : b \in 1 .. p
    BY <1>2 DEF p
  <2> QED BY <1>1, <1>2, <2>1, <2>2 DEF PingersInv, SinglesShare
<1>10. PingersExpect'
  <2>1. \A out, back : Expected(client', out, back)
    BY <1>3, ExpectedFresh
  <2>2. \A s \in Pages : server[s].open => server[s].by # p
    BY <1>2, PagesNumbers DEF PingersInv, PortsOwn, SinglesShare, p
  <2>3. Slot' \in Pages
    BY <1>2, SlotOfPage, PagesNumbers DEF Slot
  <2> QED BY <1>1, <1>2, <1>3, <2>1, <2>2, <2>3 DEF PingersExpect
<1> QED BY <1>7, <1>8, <1>9, <1>10 DEF PingersInv

LEMMA ClosePageExpects ==
  ASSUME Channels!PingAssumption, ChannelsTypes, ChannelsTypes', PingersInv, Channels!ClosePage
  PROVE  PingersInv'
<1> DEFINE p == tab.id  msgs == Channels!Goodbye(p)
<1>1. /\ tab.up /\ tab' = [tab EXCEPT !.up = FALSE] /\ client' = Channels!Closed
      /\ toServer' \in {toServer, Channels!Post(toServer, p, msgs)}
      /\ UNCHANGED <<transport, server, toClient, pool>>
  BY DEF Channels!ClosePage
<1>2. p \in Pages /\ p \in Nat /\ Links(toServer) /\ msgs \in Seq(FromPage(p))
  BY <1>1, PagesNumbers, MessagesTyped DEF ChannelsTypes
<1>3. Posts(msgs, {"disconnect"}) /\ (transport # "port" => msgs = <<>>)
  BY MessagesNew
<1>4. /\ tab'.id = p /\ tab'.up = FALSE /\ client'.open = FALSE
      /\ client'.prev = Channels!NoId
  BY <1>1 DEF ChannelsTypes, Channels!Closed
<1> HIDE DEF msgs, p
<1>5. /\ toServer'[p] \in {toServer[p], toServer[p] \o msgs}
      /\ \A s \in Pages : s # p => toServer'[s] = toServer[s]
  <2>1. CASE toServer' = toServer
    BY <2>1
  <2>2. CASE toServer' = Channels!Post(toServer, p, msgs)
    BY <1>2, <2>2, PostTyped
  <2> QED BY <1>1, <2>1, <2>2
<1>6. /\ Aging(toServer'[p])
      /\ \A s \in Pages : s > p => toServer'[s] = toServer[s]
      /\ transport # "port" => \A s \in Pages : toServer'[s] = toServer[s]
  <2>1. toServer[p] \in Seq(FromPage(p)) /\ Aging(toServer[p])
    BY <1>2 DEF Links, PingersInv, QueuesAging
  <2>2. \A u : u = toServer[p] \o msgs => Aging(u)
    BY <1>2, <1>3, <2>1, Appended
  <2>3. transport # "port" => toServer[p] \o msgs = toServer[p]
    BY <1>3, <2>1
  <2>4. \A s \in Pages : s > p => s # p
    BY <1>2, PagesNumbers
  <2> QED BY <1>5, <2>1, <2>2, <2>3, <2>4
<1>7. QueuesAging'
  BY <1>1, <1>2, <1>4, <1>5, <1>6 DEF PingersInv, QueuesAging
<1>8. PortsOwn'
  BY <1>1, <1>4, <1>6 DEF PingersInv, PortsOwn, p
<1>9. SinglesShare'
  BY <1>1, <1>4, <1>6 DEF PingersInv, SinglesShare, p
<1>10. PingersExpect'
  BY <1>4 DEF PingersExpect
<1> QED BY <1>7, <1>8, <1>9, <1>10 DEF PingersInv

\* The queue of page p or of its channel goes on with msgs, which are pings and pongs.
LEMMA PageSays ==
  ASSUME Channels!PingAssumption, ChannelsTypes, PingersInv, tab.up, UNCHANGED tab,
         NEW msgs \in Seq(FromPage(tab.id)), Posts(msgs, {"ping", "pong"}),
         toServer' = Channels!Post(toServer, tab.id, msgs)
  PROVE  /\ Extends(toServer[tab.id], toServer'[tab.id])
         /\ \A s \in Pages : s # tab.id => toServer'[s] = toServer[s]
         /\ \A s \in Pages : Aging(toServer'[s])
         /\ \A s \in Pages : \A type : type \in {"connect", "disconnect"} /\ None(toServer[s], type)
                                     => None(toServer'[s], type)
         /\ Connecting(toServer[tab.id]) => Connecting(toServer'[tab.id])
         /\ 1 \in DOMAIN msgs =>
              IsNew(Len(toServer[tab.id]) + 1, toServer[tab.id], toServer'[tab.id], msgs[1].type)
<1> DEFINE p == tab.id
<1>1. p \in Pages /\ Links(toServer)
  BY DEF ChannelsTypes
<1>2. toServer[p] \in Seq(FromPage(p)) /\ \A s \in Pages : Aging(toServer[s])
  BY <1>1 DEF Links, PingersInv, QueuesAging
<1>3. /\ toServer'[p] = toServer[p] \o msgs
      /\ \A s \in Pages : s # p => toServer'[s] = toServer[s]
  <2>1. p \in Pages /\ msgs \in Seq(FromPage(p)) /\ toServer' = Channels!Post(toServer, p, msgs)
    BY <1>1
  <2> HIDE DEF p
  <2> QED BY <1>1, <2>1, PostTyped
<1> DEFINE u == toServer'[p]
<1>4. u = toServer[p] \o msgs
  BY <1>3
<1> HIDE DEF u, p
<1>5. /\ Extends(toServer[p], u) /\ Aging(u)
      /\ \A type : None(toServer[p], type) /\ type \notin {"ping", "pong"} => None(u, type)
      /\ Connecting(toServer[p]) => Connecting(u)
      /\ 1 \in DOMAIN msgs => IsNew(Len(toServer[p]) + 1, toServer[p], u, msgs[1].type)
  <2>1. "connect" \notin {"ping", "pong"} /\ msgs \in Seq(FromPage(p)) /\ Aging(toServer[p])
    BY <1>1, <1>2 DEF p
  <2> QED BY <1>2, <1>4, <2>1, Appended
<1> QED BY <1>2, <1>3, <1>5 DEF u, p

\* The Connector's ends stay as they are, and no queue gets a connection or its end.
LEMMA ClientStepKeeps ==
  ASSUME ChannelsTypes, PingersInv, UNCHANGED <<transport, tab, server>>,
         client'.open => client'.wait <= Interval,
         \A s \in Pages : Aging(toServer'[s]) /\ Aging(toClient'[s]),
         \A s \in Pages, type \in {"connect", "disconnect"} :
            /\ None(toServer[s], type) => None(toServer'[s], type)
            /\ None(toClient[s], type) => None(toClient'[s], type),
         tab.up /\ Connecting(toServer[tab.id]) => Connecting(toServer'[tab.id]),
         \A s \in Pages : /\ s > tab.id => toServer'[s] = toServer[s]
                          /\ toClient[s] = <<>> => toClient'[s] = <<>>
  PROVE  QueuesAging' /\ PortsOwn' /\ SinglesShare'
<1>1. tab.up => tab.id \in Pages
  BY DEF ChannelsTypes
<1>2. QueuesAging'
  BY DEF PingersInv, QueuesAging
<1>3. PortsOwn'
  BY <1>1 DEF PingersInv, PortsOwn
<1>4. SinglesShare'
  BY DEF PingersInv, SinglesShare
<1> QED BY <1>2, <1>3, <1>4

LEMMA ClientPingsExpects ==
  ASSUME Channels!PingAssumption, ChannelsTypes, ChannelsTypes', PingersInv, Channels!ClientPings
  PROVE  PingersInv'
<1> DEFINE msgs == <<Channels!PingerMessage(tab.id)>>
<1>1. /\ client.open /\ client.wait >= Interval /\ client' = [client EXCEPT !.wait = 0]
      /\ toServer' = Channels!Post(toServer, tab.id, msgs)
      /\ UNCHANGED <<transport, tab, server, toClient, pool>>
  BY DEF Channels!ClientPings
<1>2. tab.up /\ client \in End /\ client.wait = Interval
  BY <1>1, PagesNumbers DEF ChannelsTypes, PingersInv, QueuesAging, End
<1>3. tab.id \in Pages /\ Slot \in Pages /\ Slot' = Slot
  BY <1>1, <1>2, SlotOfPage DEF Slot
<1>4. /\ msgs \in Seq(FromPage(tab.id)) /\ Posts(msgs, {"ping", "pong"})
      /\ 1 \in DOMAIN msgs /\ msgs[1].type = "ping"
  <2>1. /\ msgs \in Seq(FromPage(tab.id)) /\ Posts(msgs, {"ping"})
        /\ 1 \in DOMAIN msgs /\ msgs[1].type = "ping"
    BY <1>3, MessagesTyped, MessagesNew
  <2> HIDE DEF msgs
  <2> QED BY <2>1 DEF Posts
<1> HIDE DEF msgs
<1> DEFINE q == toServer[tab.id]  u == toServer'[tab.id]  back == toClient[Slot]
<1>5. /\ Extends(q, u) /\ \A s \in Pages : Aging(toServer'[s])
      /\ \A s \in Pages : s # tab.id => toServer'[s] = toServer[s]
      /\ \A s \in Pages : \A type : type \in {"connect", "disconnect"} /\ None(toServer[s], type)
                                  => None(toServer'[s], type)
      /\ Connecting(q) => Connecting(u)
      /\ IsNew(Len(q) + 1, q, u, "ping")
  BY <1>1, <1>2, <1>4, PageSays
<1>6. client'.wait = 0 /\ client'.prev = client.prev /\ client'.open = client.open
  BY <1>1, <1>2 DEF End
<1>7. QueuesAging' /\ PortsOwn' /\ SinglesShare'
  <2>1. \A s \in Pages : Aging(toClient[s])
    BY DEF PingersInv, QueuesAging
  <2>2. \A s \in Pages : s > tab.id => s # tab.id
    BY <1>3, PagesNumbers
  <2>3. client'.wait <= Interval /\ toClient' = toClient
    BY <1>1, <1>6, PagesNumbers
  <2> QED BY <1>1, <1>5, <2>1, <2>2, <2>3, ClientStepKeeps
<1>8. Expected(client', u, back)
  <2>1. Expected(client, q, back)
    BY <1>2 DEF PingersInv, PingersExpect
  <2> HIDE DEF q, u, back
  <2> QED BY <1>1, <1>2, <1>5, <2>1, ExpectedPinged
<1>9. server[Slot].open /\ server[Slot].by = tab.id => Expected(server[Slot], back, u)
  <2>1. server[Slot].open /\ server[Slot].by = tab.id => Expected(server[Slot], back, q)
    BY <1>2 DEF PingersInv, PingersExpect
  <2>2. Extends(back, back)
    BY DEF Extends
  <2> HIDE DEF q, u, back
  <2> QED BY <1>5, <2>1, <2>2, ExpectedExtended
<1>10. PingersExpect'
  BY <1>1, <1>3, <1>6, <1>8, <1>9 DEF PingersInv, PingersExpect
<1> QED BY <1>7, <1>10 DEF PingersInv

LEMMA ClientReceivesExpects ==
  ASSUME Channels!PingAssumption, ChannelsTypes, ChannelsTypes', PingersInv, NEW s \in Pages,
         Channels!ClientReceives(s)
  PROVE  PingersInv'
<1> DEFINE m == Head(toClient[s])
           here == Channels!Connected(Channels!PageOf(s)) /\ client.open
           back == toClient[s]  back2 == toClient'[s]
<1>1. /\ toClient[s] # <<>> /\ toClient' = [toClient EXCEPT ![s] = Tail(@)]
      /\ UNCHANGED <<transport, tab, server, pool>>
  BY DEF Channels!ClientReceives
<1>2. /\ toClient[s] \in Seq(FromServer) /\ back2 = Tail(back)
      /\ \A r \in Pages : r # s => toClient'[r] = toClient[r]
  BY <1>1 DEF ChannelsTypes
<1>3. /\ m = back[1] /\ 1 \in DOMAIN back /\ m \in FromServer
      /\ \A i \in DOMAIN back : i >= 1 /\ (i # 1 => i - 1 \in DOMAIN back2 /\ back2[i - 1] = back[i])
      /\ Aging(back) => Aging(back2)
      /\ \A type : None(back, type) => None(back2, type)
      /\ \A type : back[1].type # type => Skips(back, back2, type)
  <2>1. back # <<>> /\ back \in Seq(FromServer) /\ back2 = Tail(back) /\ m = Head(back)
    BY <1>1, <1>2
  <2> HIDE DEF back, back2, m
  <2>2. m \in FromServer
    BY <2>1
  <2> QED BY <2>1, <2>2, Taken
<1>4. \A r \in Pages : /\ Aging(toClient[r]) /\ Aging(toClient'[r])
                       /\ \A type : None(toClient[r], type) => None(toClient'[r], type)
                       /\ toClient[r] = <<>> => toClient'[r] = <<>>
  <2>1. \A r \in Pages : Aging(toClient[r])
    BY DEF PingersInv, QueuesAging
  <2> HIDE DEF back2, m
  <2> QED BY <1>1, <1>2, <1>3, <2>1 DEF back2
<1>5. \A r \in Pages : Aging(toServer[r])
  BY DEF PingersInv, QueuesAging
<1>6. CASE ~here
  <2>1. UNCHANGED <<client, toServer>>
    BY <1>6 DEF Channels!ClientReceives
  <2>2. QueuesAging' /\ PortsOwn' /\ SinglesShare'
    <3>1. client'.open => client'.wait <= Interval
      BY <2>1 DEF PingersInv, QueuesAging
    <3> QED BY <1>1, <1>4, <1>5, <2>1, <3>1, ClientStepKeeps
  <2>3. tab.up => toClient'[Slot] = toClient[Slot]
    <3> SUFFICES ASSUME tab.up PROVE toClient'[Slot] = toClient[Slot]
      OBVIOUS
    <3>1. Slot \in Pages /\ client.open
      BY SlotOfPage DEF PingersInv, PingersExpect
    <3>2. Slot # s
      BY <1>6, <3>1 DEF Channels!Connected, Channels!PageOf, Slot
    <3> QED BY <1>2, <3>1, <3>2
  <2>4. PingersExpect'
    <3>1. Slot' = Slot
      BY <1>1 DEF Slot
    <3> QED BY <1>1, <2>1, <2>3, <3>1 DEF PingersInv, PingersExpect
  <2> QED BY <2>2, <2>4 DEF PingersInv
<1>7. CASE here
  <2>1. tab.up /\ client.open /\ s = Slot /\ tab.id \in Pages /\ Slot' = Slot
    <3>1. tab.up /\ tab.id = Channels!PageOf(s) /\ client.open
      BY <1>7 DEF Channels!Connected
    <3>2. transport # "port" => s = 1
      BY <1>1 DEF PingersInv, SinglesShare
    <3> QED BY <1>1, <3>1, <3>2, SlotOfPage DEF Channels!PageOf, Slot
  <2> DEFINE q == toServer[tab.id]  u == toServer'[tab.id]
  <2>2. /\ Expected(client, q, back)
        /\ server[s].open /\ server[s].by = tab.id => Expected(server[s], back, q)
        /\ client.wait <= Interval /\ client \in End /\ server[s] \in End
        /\ client.prev \in {Channels!NoId, Channels!ServerId}
        /\ Aging(q) /\ Aging(back)
    BY <1>4, <1>5, <2>1 DEF PingersInv, PingersExpect, QueuesAging, ChannelsTypes
  <2>3. m.type \in {"ping", "pong"} /\ m.id = Channels!ServerId
    <3>1. m.type \in {"ping", "pong", "disconnect"} /\ m.id = Channels!ServerId
      BY <1>3 DEF FromServer
    <3>2. None(back, "disconnect")
      BY <2>1 DEF PingersInv, PortsOwn, SinglesShare, Slot
    <3> QED BY <1>3, <3>1, <3>2 DEF None
  <2>4. ASSUME NEW msgs \in Seq(FromPage(tab.id)), Posts(msgs, {"ping", "pong"}),
               toServer' = Channels!Post(toServer, tab.id, msgs),
               client'.open, client'.wait = client.wait,
               client'.prev \in {Channels!NoId, Channels!ServerId},
               Expected(client', q, back2),
               server[s].open /\ server[s].by = tab.id => Expected(server[s], back2, u)
        PROVE  PingersInv'
    <3>1. /\ Extends(q, u) /\ \A r \in Pages : Aging(toServer'[r])
          /\ \A r \in Pages : r # tab.id => toServer'[r] = toServer[r]
          /\ \A r \in Pages : \A type : type \in {"connect", "disconnect"} /\ None(toServer[r], type)
                                      => None(toServer'[r], type)
          /\ Connecting(q) => Connecting(u)
      BY <1>1, <2>1, <2>4, PageSays
    <3>2. QueuesAging' /\ PortsOwn' /\ SinglesShare'
      <4>1. \A r \in Pages : r > tab.id => r # tab.id
        BY <2>1, PagesNumbers
      <4> QED BY <1>1, <1>4, <2>2, <2>4, <3>1, <4>1, ClientStepKeeps
    <3>3. Expected(client', u, back2)
      <4>1. Extends(back2, back2)
        BY DEF Extends
      <4> HIDE DEF q, u, back2
      <4> QED BY <2>4, <3>1, <4>1, ExpectedExtended
    <3>4. PingersExpect'
      BY <1>1, <2>1, <2>4, <3>3 DEF PingersInv, PingersExpect, ChannelsTypes, End
    <3> QED BY <3>2, <3>4 DEF PingersInv
  <2>5. CASE m.type = "pong"
    <3>1. client' = Channels!Pong(client, Channels!ServerId)
      <4>1. client' = Channels!Pong(client, m.id)
        BY <1>7, <2>5 DEF Channels!ClientReceives, Channels!ForPinger, Channels!ForPingResponder
      <4> HIDE DEF m
      <4> QED BY <2>3, <4>1
    <3>2. /\ client'.open /\ client'.wait = client.wait /\ client'.prev = Channels!ServerId
          /\ Channels!ServerId # Channels!NoId
          /\ client'.idle = IF client.prev = Channels!NoId THEN client.idle ELSE 0
      <4>1. Channels!ServerId # Channels!NoId
        BY PagesNumbers
      <4> HIDE DEF Channels!ServerId, Channels!NoId
      <4>2. client' = IF client.prev = Channels!NoId
                      THEN [client EXCEPT !.prev = Channels!ServerId]
                      ELSE [client EXCEPT !.idle = 0]
        BY <2>2, <3>1, <4>1 DEF Channels!Pong
      <4> QED BY <2>1, <2>2, <4>1, <4>2 DEF End
    <3>3. toServer' = Channels!Post(toServer, tab.id, <<>>)
      BY <1>7, <2>5, <3>1, <3>2, <2>3
         DEF Channels!ClientReceives, Channels!ForPinger, Channels!ForPingResponder
    <3>4. <<>> \in Seq(FromPage(tab.id)) /\ Posts(<<>>, {"ping", "pong"})
      BY DEF Posts
    <3>5. Expected(client', q, back2)
      <4>1. CASE client.prev = Channels!NoId
        <5> HIDE DEF q, back, back2
        <5>1. client' \in End
          BY DEF ChannelsTypes
        <5> QED BY <1>3, <2>2, <3>2, <4>1, <5>1, ExpectedMet
      <4>2. CASE client.prev # Channels!NoId
        BY <3>2, <4>2, ExpectedFresh DEF ChannelsTypes
      <4> QED BY <4>1, <4>2
    <3>6. server[s].open /\ server[s].by = tab.id => Expected(server[s], back2, u)
      <4>1. Skips(back, back2, "ping")
        BY <1>3, <2>5
      <4>2. Extends(q, u) /\ Extends(back2, back2)
        <5>1. Extends(q, u)
          BY <1>1, <2>1, <3>3, <3>4, PageSays
        <5> QED BY <5>1 DEF Extends
      <4> HIDE DEF q, u, back, back2
      <4>3. server[s].open /\ server[s].by = tab.id => Expected(server[s], back2, q)
        BY <2>2, <4>1, ExpectedSkipped
      <4> QED BY <4>2, <4>3, ExpectedExtended
    <3> QED BY <2>4, <3>2, <3>3, <3>4, <3>5, <3>6
  <2>6. CASE m.type = "ping"
    <3> DEFINE msgs == Channels!PongBack(tab.id)
    <3>1. client' = client /\ toServer' = Channels!Post(toServer, tab.id, msgs)
      BY <1>7, <2>6 DEF Channels!ClientReceives, Channels!ForPinger, Channels!ForPingResponder
    <3>2. /\ msgs \in Seq(FromPage(tab.id)) /\ Posts(msgs, {"ping", "pong"})
          /\ 1 \in DOMAIN msgs /\ msgs[1].type = "pong"
      BY <2>1, MessagesTyped, MessagesNew
    <3> HIDE DEF msgs
    <3>3. Extends(q, u) /\ IsNew(Len(q) + 1, q, u, "pong")
      BY <1>1, <2>1, <3>1, <3>2, PageSays
    <3>4. Expected(client', q, back2)
      <4>1. Skips(back, back2, "pong")
        BY <1>3, <2>6
      <4> HIDE DEF q, back, back2
      <4> QED BY <2>2, <3>1, <4>1, ExpectedSkipped
    <3>5. server[s].open /\ server[s].by = tab.id => Expected(server[s], back2, u)
      <4> HIDE DEF q, u, back2
      <4>1. back[1].type = "ping"
        BY <1>3, <2>6
      <4> HIDE DEF back, m
      <4> QED BY <1>3, <2>2, <3>3, <4>1, ExpectedAnswered
    <3> QED BY <2>1, <2>2, <2>4, <3>1, <3>2, <3>4, <3>5
  <2> QED BY <2>3, <2>5, <2>6
<1> QED BY <1>6, <1>7

-----------------------------------------------------------------------------
LEMMA PageNumbers ==
  ASSUME Channels!PingAssumption, ChannelsTypes
  PROVE  tab.id \in Nat /\ \A s \in Pages : s \in Nat /\ s >= 1
<1>1. tab.id \in 0 .. MaxPages
  BY DEF ChannelsTypes
<1> QED BY <1>1, PagesNumbers

\* The Connector's end s says msgs.
LEMMA SlotSays ==
  ASSUME Channels!PingAssumption, ChannelsTypes, PingersInv, NEW s \in Pages,
         NEW msgs \in Seq(FromServer), NEW types, Posts(msgs, types),
         toClient' = Channels!Post(toClient, s, msgs)
  PROVE  /\ \A r \in Pages : Extends(toClient[r], toClient'[r]) /\ Aging(toClient'[r])
         /\ \A r \in Pages : r # s => toClient'[r] = toClient[r]
         /\ \A r \in Pages : \A type : type \notin types /\ None(toClient[r], type)
                                     => None(toClient'[r], type)
         /\ 1 \in DOMAIN msgs =>
              IsNew(Len(toClient[s]) + 1, toClient[s], toClient'[s], msgs[1].type)
<1>1. /\ toClient[s] \in Seq(FromServer) /\ \A r \in Pages : Aging(toClient[r])
      /\ toClient \in [Pages -> Seq(FromServer)]
  BY DEF ChannelsTypes, PingersInv, QueuesAging
<1>2. toClient'[s] = toClient[s] \o msgs /\ \A r \in Pages : r # s => toClient'[r] = toClient[r]
  BY <1>1, PostBackAt
<1> DEFINE q == toClient[s]  u == toClient'[s]
<1>3. u = q \o msgs /\ q \in Seq(FromServer) /\ Aging(q)
  BY <1>1, <1>2
<1> HIDE DEF u, q
<1>4. /\ Extends(q, u) /\ Aging(u)
      /\ \A type : None(q, type) /\ type \notin types => None(u, type)
      /\ 1 \in DOMAIN msgs => IsNew(Len(q) + 1, q, u, msgs[1].type)
  BY <1>3, Appended
<1>5. \A r \in Pages : Extends(toClient[r], toClient[r])
  BY DEF Extends
<1> QED BY <1>1, <1>2, <1>4, <1>5 DEF u, q

LEMMA ServerPingsExpects ==
  ASSUME Channels!PingAssumption, ChannelsTypes, ChannelsTypes', PingersInv, NEW s \in Pages,
         Channels!ServerPings(s)
  PROVE  PingersInv'
<1> DEFINE msgs == <<Channels!PingerMessage(Channels!ServerId)>>
<1>1. /\ server[s].open /\ server[s].wait >= Interval
      /\ server' = [server EXCEPT ![s].wait = 0] /\ toClient' = Channels!Post(toClient, s, msgs)
      /\ UNCHANGED <<transport, tab, client, toServer>>
  BY DEF Channels!ServerPings
<1>2. server[s] \in End /\ server[s].wait = Interval /\ server \in [Pages -> End]
  <2>1. server[s] \in End /\ server \in [Pages -> End]
    BY DEF ChannelsTypes
  <2>2. server[s].wait <= Interval
    BY <1>1 DEF PingersInv, QueuesAging
  <2>3. server[s].wait \in Nat
    BY <2>1 DEF End
  <2> QED BY <1>1, <2>1, <2>2, <2>3, PagesNumbers
<1>3. /\ server'[s] = [server[s] EXCEPT !.wait = 0]
      /\ \A r \in Pages : r # s => server'[r] = server[r]
  BY <1>1, <1>2
<1>4. /\ server'[s].wait = 0 /\ server'[s].open = server[s].open /\ server'[s].by = server[s].by
      /\ server'[s].prev = server[s].prev
  BY <1>2, <1>3 DEF End
<1>5. /\ msgs \in Seq(FromServer) /\ Posts(msgs, {"ping"})
      /\ 1 \in DOMAIN msgs /\ msgs[1].type = "ping"
  BY MessagesTyped, MessagesNew
<1> HIDE DEF msgs
<1>6. /\ \A r \in Pages : Extends(toClient[r], toClient'[r]) /\ Aging(toClient'[r])
      /\ \A r \in Pages : r # s => toClient'[r] = toClient[r]
      /\ \A r \in Pages : None(toClient[r], "disconnect") => None(toClient'[r], "disconnect")
      /\ IsNew(Len(toClient[s]) + 1, toClient[s], toClient'[s], "ping")
  <2>1. "disconnect" \notin {"ping"}
    OBVIOUS
  <2> QED BY <1>1, <1>5, <2>1, SlotSays
<1>7. QueuesAging'
  <2>1. ASSUME NEW r \in Pages, server'[r].open PROVE server'[r].wait <= Interval
    <3>1. CASE r = s
      BY <1>4, <3>1, PagesNumbers
    <3>2. CASE r # s
      BY <1>3, <2>1, <3>2 DEF PingersInv, QueuesAging
    <3> QED BY <3>1, <3>2
  <2> QED BY <1>1, <1>6, <2>1 DEF PingersInv, QueuesAging
<1>8. PortsOwn'
  <2> SUFFICES ASSUME transport = "port" PROVE PortsOwn'
    BY <1>1 DEF PortsOwn
  <2>1. /\ \A r \in Pages : server'[r].open = server[r].open /\ server'[r].by = server[r].by
                            /\ server'[r].prev = server[r].prev
        /\ tab.up => tab.id \in Pages
    BY <1>3, <1>4 DEF ChannelsTypes
  <2>2. s <= tab.id /\ tab.id \in Nat /\ s \in Nat
    <3>1. s <= tab.id
      BY <1>1 DEF PingersInv, PortsOwn
    <3> QED BY <3>1, PageNumbers
  <2>3. \A r \in Pages : r > tab.id => toClient'[r] = toClient[r]
    <3>1. \A r \in Pages : r > tab.id => r # s
      BY <2>2, PagesNumbers
    <3> QED BY <1>6, <3>1
  <2> QED BY <1>1, <1>6, <2>1, <2>3 DEF PingersInv, PortsOwn
<1>9. SinglesShare'
  <2> SUFFICES ASSUME transport # "port" PROVE SinglesShare'
    BY <1>1 DEF SinglesShare
  <2>1. \A r \in Pages : server'[r].open = server[r].open /\ server'[r].by = server[r].by
    BY <1>3, <1>4
  <2>2. s = 1
    BY <1>1 DEF PingersInv, SinglesShare
  <2> QED BY <1>1, <1>6, <2>1, <2>2 DEF PingersInv, SinglesShare
<1>10. PingersExpect'
  <2> SUFFICES ASSUME tab.up PROVE PingersExpect'
    BY <1>1 DEF PingersInv, PingersExpect
  <2>1. tab.id \in Pages /\ Slot \in Pages /\ Slot' = Slot
    BY <1>1, SlotOfPage DEF Slot
  <2> DEFINE S == Slot  q == toServer[tab.id]  c == toClient[S]  c2 == toClient'[S]
  <2>2. Expected(client, q, c) /\ (server[S].open /\ server[S].by = tab.id => Expected(server[S], c, q))
    BY DEF PingersInv, PingersExpect
  <2>3. Extends(c, c2) /\ Extends(q, q)
    BY <1>6, <2>1 DEF Extends
  <2>4. Expected(client, q, c2)
    <3> HIDE DEF q, c, c2
    <3> QED BY <2>2, <2>3, ExpectedExtended
  <2>5. server'[S].open /\ server'[S].by = tab.id => Expected(server'[S], c2, q)
    <3>1. CASE S = s
      <4> DEFINE e == server[s]
      <4>1. /\ server'[S] = [e EXCEPT !.wait = 0] /\ IsNew(Len(c) + 1, c, c2, "ping")
            /\ e \in End /\ e.wait = Interval
            /\ server'[S].open /\ server'[S].by = tab.id => Expected(e, c, q)
        BY <1>2, <1>3, <1>4, <1>6, <2>2, <3>1
      <4> HIDE DEF q, c, c2, e
      <4> QED BY <2>3, <4>1, ExpectedPinged
    <3>2. CASE S # s
      BY <1>3, <1>6, <2>1, <2>2, <3>2
    <3> QED BY <3>1, <3>2
  <2> HIDE DEF S
  <2> QED BY <1>1, <2>1, <2>4, <2>5 DEF PingersInv, PingersExpect, S
<1> QED BY <1>7, <1>8, <1>9, <1>10 DEF PingersInv

LEMMA ServerTimeoutExpects ==
  ASSUME Channels!PingAssumption, ChannelsTypes, ChannelsTypes', PingersInv, NEW s \in Pages,
         Channels!ServerTimeout(s)
  PROVE  PingersInv'
<1> DEFINE msgs == Channels!Goodbye(Channels!ServerId)
<1>1. /\ server[s].open /\ server[s].idle >= Timeout
      /\ server' = [server EXCEPT ![s] = Channels!Closed]
      /\ toClient' = Channels!Post(toClient, s, msgs)
      /\ UNCHANGED <<transport, tab, client, toServer>>
  BY DEF Channels!ServerTimeout
<1>2. server[s] \in End /\ server \in [Pages -> End] /\ toClient[s] \in Seq(FromServer)
  BY DEF ChannelsTypes
<1>3. ~(tab.up /\ tab.id = server[s].by)
  <2>1. Channels!LiveEndsKept
    BY PingersInTime
  <2>2. tab.up /\ tab.id = server[s].by => server[s].idle < Timeout
    BY <1>1, <2>1 DEF Channels!LiveEndsKept, Channels!Connected, Pages
  <2> QED BY <1>1, <1>2, <2>2, PagesNumbers DEF End
<1>4. /\ ~server'[s].open /\ \A r \in Pages : r # s => server'[r] = server[r]
  BY <1>1, <1>2, EndsTyped
<1>5. /\ msgs \in Seq(FromServer) /\ Posts(msgs, {"disconnect"})
      /\ transport # "port" => msgs = <<>>
  BY MessagesTyped, MessagesNew
<1> HIDE DEF msgs
<1>6. /\ \A r \in Pages : Aging(toClient'[r])
      /\ \A r \in Pages : r # s => toClient'[r] = toClient[r]
      /\ transport # "port" => \A r \in Pages : toClient'[r] = toClient[r]
  <2>1. \A r \in Pages : Aging(toClient'[r])
    BY <1>1, <1>5, SlotSays
  <2>2. /\ toClient'[s] = toClient[s] \o msgs
        /\ \A r \in Pages : r # s => toClient'[r] = toClient[r]
    BY <1>1, <1>5, PostBackAt DEF ChannelsTypes
  <2>3. toClient[s] \o <<>> = toClient[s]
    BY <1>2
  <2> QED BY <1>5, <2>1, <2>2, <2>3
<1>7. QueuesAging'
  BY <1>1, <1>4, <1>6 DEF PingersInv, QueuesAging
<1>8. PortsOwn'
  <2> SUFFICES ASSUME transport = "port" PROVE PortsOwn'
    BY <1>1 DEF PortsOwn
  <2>1. /\ tab.up => tab.id # s /\ tab.id \in Pages
        /\ \A r \in Pages : r > tab.id => r # s
    <3>1. server[s].by = s /\ s <= tab.id
      BY <1>1 DEF PingersInv, PortsOwn
    <3>2. tab.up => tab.id \in Pages
      BY DEF ChannelsTypes
    <3>3. \A r \in Pages : r > tab.id => r # s
      BY <3>1, PageNumbers
    <3> QED BY <1>3, <3>1, <3>2, <3>3
  <2>2. \A r \in Pages : server'[r].open => r # s /\ server'[r] = server[r]
    BY <1>4
  <2> QED BY <1>1, <1>4, <1>6, <2>1, <2>2 DEF PingersInv, PortsOwn
<1>9. SinglesShare'
  BY <1>1, <1>4, <1>6 DEF PingersInv, SinglesShare
<1>10. PingersExpect'
  <2> SUFFICES ASSUME tab.up PROVE PingersExpect'
    BY <1>1 DEF PingersInv, PingersExpect
  <2>1. tab.id \in Pages /\ Slot \in Pages /\ Slot' = Slot
    BY <1>1, SlotOfPage DEF Slot
  <2>2. transport = "port" => Slot # s
    BY <1>1, <1>3, <2>1 DEF PingersInv, PortsOwn, Slot
  <2>3. /\ toClient'[Slot] = toClient[Slot]
        /\ server'[Slot].open => server'[Slot] = server[Slot]
    BY <1>4, <1>6, <2>1, <2>2
  <2> QED BY <1>1, <2>1, <2>3 DEF PingersInv, PingersExpect
<1> QED BY <1>7, <1>8, <1>9, <1>10 DEF PingersInv

\* A pinger that hears in time never gives up.
LEMMA ClientTimeoutExpects ==
  ASSUME Channels!PingAssumption, ChannelsTypes, PingersInv, Channels!ClientTimeout
  PROVE  PingersInv'
<1>1. client.open /\ client.idle >= Timeout
  BY DEF Channels!ClientTimeout
<1>2. client.idle < Timeout
  BY <1>1, PingersInTime DEF Channels!LiveEndsKept
<1>3. client.idle \in Nat
  BY DEF ChannelsTypes, End
<1> QED BY <1>1, <1>2, <1>3, PagesNumbers

-----------------------------------------------------------------------------
(* The Connector hears a page                                               *)

LEMMA HandledPing ==
  ASSUME NEW end, NEW m, m.type = "ping"
  PROVE  /\ Channels!Handled(end, m).end = end
         /\ Channels!Handled(end, m).sent = Channels!PongBack(Channels!ServerId)
BY DEF Channels!Handled, Channels!ForPinger, Channels!ForPingResponder

LEMMA HandledPong ==
  ASSUME Channels!PingAssumption, NEW end \in End, end.open, NEW p \in Pages,
         NEW m \in FromPage(p), m.type = "pong", NEW h, h = Channels!Handled(end, m)
  PROVE  /\ end.prev \in {Channels!NoId, p} =>
              /\ h.end.open /\ h.end.prev = p /\ h.end.wait = end.wait /\ h.end.by = end.by
              /\ h.end.idle = IF end.prev = Channels!NoId THEN end.idle ELSE 0
              /\ h.sent = <<>>
         /\ end.prev \notin {Channels!NoId, p} => ~h.end.open
<1>1. h.end = Channels!Pong(end, p) /\ (h.end.open => h.sent = <<>>)
  BY DEF Channels!Handled, Channels!ForPinger, Channels!ForPingResponder, FromPage
<1>2. p # Channels!NoId /\ ~Channels!Closed.open
  BY PagesNumbers, EndsTyped
<1>3. CASE end.prev = Channels!NoId
  <2>1. h.end = [end EXCEPT !.prev = p]
    BY <1>1, <1>2, <1>3 DEF Channels!Pong
  <2> QED BY <1>1, <1>2, <1>3, <2>1 DEF End
<1>4. CASE end.prev = p
  <2>1. h.end = [end EXCEPT !.idle = 0]
    BY <1>1, <1>2, <1>4 DEF Channels!Pong
  <2> QED BY <1>1, <1>2, <1>4, <2>1 DEF End
<1>5. CASE end.prev \notin {Channels!NoId, p}
  <2>1. h.end = Channels!Closed
    BY <1>1, <1>5 DEF Channels!Pong
  <2> QED BY <1>2, <1>5, <2>1
<1> QED BY <1>3, <1>4, <1>5

LEMMA OpenedEnd ==
  ASSUME NEW p
  PROVE  /\ Channels!Opened(p).open = TRUE /\ Channels!Opened(p).prev = Channels!NoId
         /\ Channels!Opened(p).idle = 0 /\ Channels!Opened(p).wait = Interval
         /\ Channels!Opened(p).by = p
BY DEF Channels!Opened, Channels!Closed

\* The Connector takes the first message of page p.
LEMMA PageHeard ==
  ASSUME Channels!PingAssumption, ChannelsTypes, PingersInv, NEW p \in Pages,
         toServer[p] # <<>>, toServer' = [toServer EXCEPT ![p] = Tail(@)]
  PROVE  /\ toServer'[p] = Tail(toServer[p]) /\ toServer[p] \in Seq(FromPage(p))
         /\ \A r \in Pages : r # p => toServer'[r] = toServer[r]
         /\ \A r \in Pages : Aging(toServer'[r])
         /\ \A r \in Pages : \A type : None(toServer[r], type) => None(toServer'[r], type)
         /\ Connecting(toServer[p]) => None(toServer'[p], "connect")
         /\ Head(toServer[p]) = toServer[p][1] /\ 1 \in DOMAIN toServer[p]
         /\ Head(toServer[p]) \in FromPage(p)
         /\ \A i \in DOMAIN toServer[p] :
              i >= 1 /\ (i # 1 => i - 1 \in DOMAIN toServer'[p] /\ toServer'[p][i - 1] = toServer[p][i])
         /\ \A type : toServer[p][1].type # type => Skips(toServer[p], toServer'[p], type)
         /\ p <= tab.id
<1>1. Links(toServer) /\ \A r \in Pages : Aging(toServer[r])
  BY DEF ChannelsTypes, PingersInv, QueuesAging
<1>2. toServer[p] \in Seq(FromPage(p)) /\ toServer = [r \in Pages |-> toServer[r]]
  BY <1>1 DEF Links
<1>3. toServer'[p] = Tail(toServer[p]) /\ \A r \in Pages : r # p => toServer'[r] = toServer[r]
  BY <1>2
<1> DEFINE q == toServer[p]  u == toServer'[p]
<1>4. u = Tail(q) /\ q \in Seq(FromPage(p)) /\ q # <<>> /\ Aging(q)
  BY <1>1, <1>2, <1>3
<1> HIDE DEF q, u
<1>5. /\ Head(q) = q[1] /\ 1 \in DOMAIN q
      /\ \A i \in DOMAIN q : i >= 1 /\ (i # 1 => i - 1 \in DOMAIN u /\ u[i - 1] = q[i])
      /\ Aging(u)
      /\ \A type : None(q, type) => None(u, type)
      /\ Connecting(q) => None(u, "connect")
      /\ \A type : q[1].type # type => Skips(q, u, type)
  BY <1>4, Taken
<1>6. Head(q) \in FromPage(p)
  BY <1>4
<1>7. p <= tab.id
  <2>1. ~(p > tab.id)
    BY <1>4 DEF PingersInv, PortsOwn, SinglesShare, q
  <2> QED BY <2>1, PageNumbers
<1>8. /\ \A r \in Pages : Aging(toServer'[r])
      /\ \A r \in Pages : \A type : None(toServer[r], type) => None(toServer'[r], type)
  BY <1>1, <1>3, <1>5 DEF q, u
<1> QED BY <1>2, <1>3, <1>5, <1>6, <1>7, <1>8 DEF q, u

\* What a message of type `type` may make of the Connector's end: a channel that has
\* just been opened or reset, the same, or one that knows whom it is with.
Heard(end, type, end2) ==
  \/ end2.idle = 0 /\ (end2.prev # Channels!NoId \/ end2.wait = Interval)
  \/ end.open /\ end2 = end /\ type = "ping"
  \/ /\ end.open /\ end.prev = Channels!NoId /\ end2.prev # Channels!NoId /\ type = "pong"
     /\ end2.idle = end.idle /\ end2.wait = end.wait /\ end2.by = end.by

LEMMA HeardExpects ==
  ASSUME Channels!PingAssumption, ChannelsTypes, ChannelsTypes', PingersInv, tab.up,
         NEW p \in Pages, toServer[p] # <<>>, toServer' = [toServer EXCEPT ![p] = Tail(@)],
         NEW msgs \in Seq(FromServer), Posts(msgs, {"ping", "pong"}),
         toClient' = Channels!Post(toClient, Slot, msgs),
         p = tab.id /\ toServer[p][1].type = "ping" => 1 \in DOMAIN msgs /\ msgs[1].type = "pong",
         Heard(server[Slot], toServer[p][1].type, server'[Slot]),
         UNCHANGED <<transport, tab, client>>
  PROVE  PingersExpect'
<1>1. tab.id \in Pages /\ Slot \in Pages /\ Slot' = Slot
  BY SlotOfPage DEF Slot
<1>2. server[Slot] \in End /\ server'[Slot] \in End /\ client \in End
  BY <1>1 DEF ChannelsTypes
<1>3. Aging(toServer[tab.id]) /\ Aging(toClient[Slot])
  BY <1>1 DEF PingersInv, QueuesAging
<1> DEFINE q == toServer[tab.id]  u == toServer'[tab.id]  back == toClient[Slot]
           back2 == toClient'[Slot]  end == server[Slot]  end2 == server'[Slot]
           type == toServer[p][1].type
<1>4. Extends(back, back2) /\ (1 \in DOMAIN msgs => IsNew(Len(back) + 1, back, back2, msgs[1].type))
  BY <1>1, SlotSays
<1>5. CASE p # tab.id
  <2>1. u = q
    BY <1>1, <1>5, PageHeard
  <2>2. /\ Expected(client, q, back)
        /\ end.open /\ end.by = tab.id => Expected(end, back, q)
    BY DEF PingersInv, PingersExpect
  <2>3. Extends(q, q)
    BY DEF Extends
  <2>4. Expected(client, u, back2)
    <3> HIDE DEF q, u, back, back2
    <3> QED BY <1>4, <2>1, <2>2, <2>3, ExpectedExtended
  <2>5. ASSUME end2.open, end2.by = tab.id PROVE Expected(end2, back2, u)
    <3>1. end.open /\ end.by = tab.id => Expected(end, back2, q)
      <4> HIDE DEF q, u, back, back2, end
      <4> QED BY <1>4, <2>2, <2>3, ExpectedExtended
    <3> HIDE DEF q, u, back
    <3>2. end2 \in End /\ end \in End /\ Heard(end, type, end2)
      BY <1>2
    <3> HIDE DEF back2, end, end2, type
    <3>3. CASE end2.idle = 0 /\ (end2.prev # Channels!NoId \/ end2.wait = Interval)
      BY <3>2, <3>3, ExpectedFresh
    <3>4. CASE end.open /\ end2 = end
      BY <2>1, <2>5, <3>1, <3>4
    <3>5. CASE /\ end.open /\ end.prev = Channels!NoId /\ end2.prev # Channels!NoId
               /\ end2.idle = end.idle /\ end2.wait = end.wait /\ end2.by = end.by
      <4>1. Expected(end, back2, q) /\ Aging(q)
        BY <1>3, <2>5, <3>1, <3>5 DEF q
      <4> QED BY <2>1, <3>2, <3>5, <4>1, ExpectedMet
    <3> QED BY <3>2, <3>3, <3>4, <3>5 DEF Heard
  <2> QED BY <1>1, <2>4, <2>5 DEF PingersInv, PingersExpect
<1>6. CASE p = tab.id
  <2>1. /\ u = Tail(q) /\ 1 \in DOMAIN q /\ type = q[1].type
        /\ \A i \in DOMAIN q : i >= 1 /\ (i # 1 => i - 1 \in DOMAIN u /\ u[i - 1] = q[i])
        /\ \A t : type # t => Skips(q, u, t)
    BY <1>6, PageHeard
  <2>2. /\ Expected(client, q, back)
        /\ end.open /\ end.by = tab.id => Expected(end, back, q)
    BY DEF PingersInv, PingersExpect
  <2>3. Extends(u, u) /\ Extends(q, q)
    BY DEF Extends
  <2>4. Aging(q) /\ Aging(back)
    BY <1>3
  <2>5. type = "ping" => 1 \in DOMAIN msgs /\ msgs[1].type = "pong"
    BY <1>6
  <2>6. end2 \in End /\ end \in End /\ Heard(end, type, end2)
    BY <1>2
  <2>7. Expected(client, u, back2)
    <3> HIDE DEF q, u, back, back2, type
    <3>1. CASE type = "ping"
      <4>1. IsNew(Len(back) + 1, back, back2, "pong")
        BY <1>4, <2>5, <3>1
      <4>2. /\ 1 \in DOMAIN q /\ q[1].type = "ping" /\ \A i \in DOMAIN q : i >= 1
            /\ \A i \in DOMAIN q : i # 1 => i - 1 \in DOMAIN u /\ u[i - 1] = q[i]
        BY <2>1, <3>1
      <4>3. Extends(back, back2)
        BY <1>4
      <4> QED BY <1>2, <2>2, <2>4, <4>1, <4>2, <4>3, ExpectedAnswered
    <3>2. CASE type # "ping"
      <4>1. Expected(client, u, back)
        BY <2>1, <2>2, <2>4, <3>2, ExpectedSkipped
      <4> QED BY <1>4, <2>3, <4>1, ExpectedExtended
    <3> QED BY <3>1, <3>2
  <2>8. ASSUME end2.open, end2.by = tab.id PROVE Expected(end2, back2, u)
    <3> HIDE DEF q, u, back, back2, end, end2, type
    <3>1. CASE end2.idle = 0 /\ (end2.prev # Channels!NoId \/ end2.wait = Interval)
      BY <2>6, <3>1, ExpectedFresh
    <3>2. CASE end.open /\ end2 = end /\ type = "ping"
      <4>1. Expected(end, back, u)
        BY <2>1, <2>2, <2>4, <2>8, <3>2, ExpectedSkipped
      <4> QED BY <1>4, <2>3, <3>2, <4>1, ExpectedExtended
    <3>3. CASE /\ end.open /\ end.prev = Channels!NoId /\ end2.prev # Channels!NoId
               /\ end2.idle = end.idle /\ end2.wait = end.wait /\ end2.by = end.by
      <4>1. Expected(end, back2, q)
        BY <1>4, <2>2, <2>3, <2>8, <3>3, ExpectedExtended
      <4>2. /\ \A i \in DOMAIN q : i > 1 => i - 1 \in DOMAIN u /\ u[i - 1] = q[i]
            /\ \A i \in DOMAIN q : i >= 1
        <5> SUFFICES ASSUME NEW i \in DOMAIN q
                     PROVE  i >= 1 /\ (i > 1 => i - 1 \in DOMAIN u /\ u[i - 1] = q[i])
          OBVIOUS
        <5>1. i > 1 => i # 1
          OBVIOUS
        <5> QED BY <2>1, <5>1
      <4> QED BY <2>4, <2>6, <3>3, <4>1, <4>2, ExpectedMet
    <3> QED BY <2>6, <3>1, <3>2, <3>3 DEF Heard
  <2> QED BY <1>1, <2>7, <2>8 DEF PingersInv, PingersExpect
<1> QED BY <1>5, <1>6

\* The queues as they are after a message has been taken and msgs answered at slot s.
LEMMA HeardAging ==
  ASSUME Channels!PingAssumption, ChannelsTypes, PingersInv, NEW p \in Pages, NEW s \in Pages,
         toServer[p] # <<>>, toServer' = [toServer EXCEPT ![p] = Tail(@)],
         NEW msgs \in Seq(FromServer), NEW types, Posts(msgs, types),
         toClient' = Channels!Post(toClient, s, msgs),
         server' = [server EXCEPT ![s] = server'[s]], server'[s].open => server'[s].wait <= Interval,
         UNCHANGED <<transport, tab, client>>
  PROVE  QueuesAging' /\ \A r \in Pages : r # s => server'[r] = server[r]
<1>1. server \in [Pages -> End]
  BY DEF ChannelsTypes
<1>2. \A r \in Pages : r # s => server'[r] = server[r]
  BY <1>1
<1>3. \A r \in Pages : Aging(toServer'[r]) /\ Aging(toClient'[r])
  BY PageHeard, SlotSays
<1> QED BY <1>2, <1>3 DEF PingersInv, QueuesAging

\* What a port's message makes of its end.
LEMMA PortHeard ==
  ASSUME Channels!PingAssumption, ChannelsTypes, PingersInv, NEW p \in Pages,
         Channels!PortReceives(p)
  PROVE  \E msgs \in Seq(FromServer) : \E types :
           /\ Posts(msgs, types) /\ "connect" \notin types
           /\ toClient' = Channels!Post(toClient, p, msgs)
           /\ server'[p].open => /\ server'[p].by = p /\ server'[p].wait <= Interval
                                 /\ server'[p].prev \in {Channels!NoId, p}
           /\ LET type == toServer[p][1].type
              IN /\ type = "connect" =>
                      server'[p] = Channels!Opened(p) /\ types = {"ping", "pong"}
                 /\ server[p].open /\ type \in {"ping", "pong"} =>
                      /\ server'[p].open /\ types = {"ping", "pong"}
                      /\ Heard(server[p], type, server'[p])
                      /\ type = "ping" => 1 \in DOMAIN msgs /\ msgs[1].type = "pong"
<1> DEFINE q == toServer[p]  m == Head(q)  end == server[p]  end2 == server'[p]
           h == Channels!Handled(end, m)
           r == IF m.type = "connect" THEN [end |-> Channels!Opened(p), sent |-> <<>>]
                ELSE IF end.open THEN h ELSE [end |-> Channels!Closed, sent |-> <<>>]
<1>1. /\ transport = "port" /\ q # <<>>
      /\ server' = [server EXCEPT ![p] = r.end] /\ toClient' = Channels!Post(toClient, p, r.sent)
      /\ toServer' = [toServer EXCEPT ![p] = Tail(@)]
  BY DEF Channels!PortReceives
<1>2. m = q[1] /\ m \in FromPage(p) /\ m.type \in {"connect", "ping", "pong", "disconnect"}
  <2>1. m = q[1] /\ m \in FromPage(p)
    BY <1>1, PageHeard
  <2> QED BY <2>1 DEF FromPage
<1>3. end2 = r.end /\ end \in End
  BY <1>1 DEF ChannelsTypes
<1>4. end.open => end.by = p /\ end.prev \in {Channels!NoId, p} /\ end.wait <= Interval
  BY <1>1 DEF PingersInv, PortsOwn, QueuesAging
<1>5. p # Channels!NoId /\ ~Channels!Closed.open
  BY PagesNumbers, EndsTyped
<1>6. /\ <<>> \in Seq(FromServer) /\ Posts(<<>>, {"ping", "pong"})
      /\ \A id : Posts(Channels!PongBack(id), {"ping", "pong"})
      /\ \A id : 1 \in DOMAIN Channels!PongBack(id) /\ Channels!PongBack(id)[1].type = "pong"
      /\ Channels!PongBack(Channels!ServerId) \in Seq(FromServer)
      /\ "connect" \notin {"ping", "pong"}
  BY MessagesTyped, MessagesNew DEF Posts
<1>7. CASE m.type = "connect"
  <2>1. end2 = Channels!Opened(p) /\ r.sent = <<>>
    BY <1>3, <1>7
  <2>2. end2.by = p /\ end2.wait <= Interval /\ end2.prev = Channels!NoId
    <3> DEFINE o == Channels!Opened(p)
    <3>1. o.by = p /\ o.wait = Interval /\ o.prev = Channels!NoId
      BY OpenedEnd
    <3>3. Interval <= Interval
      BY PagesNumbers
    <3> HIDE DEF o, end2
    <3>2. end2 = o
      BY <2>1 DEF o
    <3> QED BY <3>1, <3>2, <3>3
  <2> HIDE DEF end2, q, m, r
  <2>3. toClient' = Channels!Post(toClient, p, <<>>) /\ q[1].type = "connect"
    BY <1>1, <1>2, <1>7, <2>1
  <2> QED BY <1>6, <2>1, <2>2, <2>3 DEF end2, q
<1>8. CASE m.type # "connect" /\ ~end.open
  <2>1. end2 = Channels!Closed /\ r.sent = <<>>
    BY <1>3, <1>8
  <2> HIDE DEF end2, q, m, r, end
  <2>2. toClient' = Channels!Post(toClient, p, <<>>) /\ q[1].type # "connect" /\ ~end2.open
    BY <1>1, <1>2, <1>5, <1>8, <2>1
  <2> QED BY <1>6, <1>8, <2>2 DEF end2, q, end
<1>9. CASE end.open /\ m.type = "ping"
  <2>1. end2 = end /\ r.sent = Channels!PongBack(Channels!ServerId)
    <3>1. h.end = end /\ h.sent = Channels!PongBack(Channels!ServerId)
      BY <1>9, HandledPing
    <3>2. r = h
      BY <1>9
    <3> QED BY <1>3, <3>1, <3>2
  <2> HIDE DEF end2, q, m, r, end
  <2>2. /\ toClient' = Channels!Post(toClient, p, Channels!PongBack(Channels!ServerId))
        /\ q[1].type = "ping" /\ Heard(end, "ping", end2)
    BY <1>1, <1>2, <1>9, <2>1 DEF Heard
  <2> QED BY <1>4, <1>6, <1>9, <2>1, <2>2 DEF end2, q, end
<1>10. CASE end.open /\ m.type = "pong"
  <2>1. r = h
    BY <1>10
  <2> HIDE DEF h
  <2>2. /\ h.end.open /\ h.end.prev = p /\ h.end.wait = end.wait /\ h.end.by = end.by
        /\ h.end.idle = IF end.prev = Channels!NoId THEN end.idle ELSE 0
        /\ h.sent = <<>>
    <3> HIDE DEF m, end, r
    <3> QED BY <1>2, <1>3, <1>4, <1>10, HandledPong DEF h
  <2> HIDE DEF end2, q, m, r, end
  <2>3. toClient' = Channels!Post(toClient, p, <<>>) /\ q[1].type = "pong" /\ end2 = h.end
    BY <1>1, <1>2, <1>3, <1>10, <2>1, <2>2
  <2>4. Heard(end, "pong", end2)
    BY <1>5, <1>10, <2>2, <2>3 DEF Heard
  <2>5. end2.open /\ end2.by = p /\ end2.wait <= Interval /\ end2.prev = p
    BY <1>4, <1>10, <2>2, <2>3
  <2> QED BY <1>6, <1>10, <2>3, <2>4, <2>5 DEF end2, q, end
<1>11. CASE end.open /\ m.type = "disconnect"
  <2>1. h.end = Channels!Closed /\ h.sent = <<>> /\ r = h
    BY <1>11 DEF Channels!Handled, Channels!ForPinger, Channels!ForPingResponder
  <2> HIDE DEF h, end2, q, m, r, end
  <2>2. toClient' = Channels!Post(toClient, p, <<>>) /\ q[1].type = "disconnect" /\ ~end2.open
    BY <1>1, <1>2, <1>3, <1>5, <1>11, <2>1
  <2> QED BY <1>6, <2>2 DEF end2, q
<1> QED BY <1>2, <1>7, <1>8, <1>9, <1>10, <1>11

LEMMA PortReceivesExpects ==
  ASSUME Channels!PingAssumption, ChannelsTypes, ChannelsTypes', PingersInv, NEW p \in Pages,
         Channels!PortReceives(p)
  PROVE  PingersInv'
<1> DEFINE type == toServer[p][1].type
<1>1. /\ transport = "port" /\ toServer[p] # <<>>
      /\ server' = [server EXCEPT ![p] = server'[p]]
      /\ toServer' = [toServer EXCEPT ![p] = Tail(@)]
      /\ UNCHANGED <<transport, tab, client>>
  <2>1. server \in [Pages -> End]
    BY DEF ChannelsTypes
  <2>2. \E e : server' = [server EXCEPT ![p] = e]
    BY DEF Channels!PortReceives
  <2>3. server' = [server EXCEPT ![p] = server'[p]]
    BY <2>1, <2>2
  <2> QED BY <2>3 DEF Channels!PortReceives
<1>2. PICK msgs, types :
           /\ msgs \in Seq(FromServer) /\ Posts(msgs, types) /\ "connect" \notin types
           /\ toClient' = Channels!Post(toClient, p, msgs)
           /\ server'[p].open => /\ server'[p].by = p /\ server'[p].wait <= Interval
                                 /\ server'[p].prev \in {Channels!NoId, p}
           /\ /\ type = "connect" =>
                   server'[p] = Channels!Opened(p) /\ types = {"ping", "pong"}
              /\ server[p].open /\ type \in {"ping", "pong"} =>
                   /\ server'[p].open /\ types = {"ping", "pong"}
                   /\ Heard(server[p], type, server'[p])
                   /\ type = "ping" => 1 \in DOMAIN msgs /\ msgs[1].type = "pong"
  BY PortHeard
<1>3. /\ p <= tab.id /\ 1 \in DOMAIN toServer[p]
      /\ type \in {"connect", "ping", "pong", "disconnect"}
      /\ \A s \in Pages : s # p => toServer'[s] = toServer[s]
      /\ \A s \in Pages : \A t : None(toServer[s], t) => None(toServer'[s], t)
      /\ Connecting(toServer[p]) => None(toServer'[p], "connect")
  <2>1. toServer[p][1] \in FromPage(p)
    BY <1>1, PageHeard
  <2> QED BY <1>1, <2>1, PageHeard DEF FromPage
<1>4. QueuesAging' /\ \A s \in Pages : s # p => server'[s] = server[s]
  BY <1>1, <1>2, HeardAging
<1>5. /\ \A s \in Pages : s # p => toClient'[s] = toClient[s]
      /\ \A s \in Pages : \A t : t \notin types /\ None(toClient[s], t) => None(toClient'[s], t)
  BY <1>2, SlotSays
<1>6. tab.up => tab.id \in Pages /\ Slot = tab.id /\ Slot' = Slot
  BY <1>1, SlotOfPage DEF Slot
<1>7. \* The current page's port is open, or its connection is what comes first.
      ASSUME tab.up, p = tab.id
      PROVE  /\ types = {"ping", "pong"} /\ server'[p].open
             /\ Heard(server[p], type, server'[p])
             /\ None(toServer'[p], "connect")
             /\ type = "ping" => 1 \in DOMAIN msgs /\ msgs[1].type = "pong"
  <2>1. type # "disconnect"
    BY <1>1, <1>3, <1>7 DEF PingersInv, PortsOwn, None
  <2>2. CASE server[p].open /\ None(toServer[p], "connect")
    <3>1. type \in {"ping", "pong"}
      BY <1>3, <2>1, <2>2 DEF None
    <3> QED BY <1>2, <1>3, <2>2, <3>1
  <2>3. CASE ~server[p].open /\ Connecting(toServer[p])
    <3>1. type = "connect"
      BY <2>3 DEF Connecting
    <3>2. server'[p] = Channels!Opened(p) /\ types = {"ping", "pong"}
      BY <1>2, <3>1
    <3> HIDE DEF type
    <3>3. server'[p].open /\ server'[p].idle = 0 /\ server'[p].wait = Interval
      BY <3>2, OpenedEnd
    <3> QED BY <1>3, <2>3, <3>1, <3>2, <3>3 DEF Heard
  <2> QED BY <1>1, <1>7, <2>2, <2>3 DEF PingersInv, PortsOwn
<1> HIDE DEF type
<1>8. PortsOwn'
  <2>1. \A s \in Pages : s > tab.id => s # p
    BY <1>3, PageNumbers
  <2>2. \A s \in Pages :
          server'[s].open => server'[s].by = s /\ server'[s].prev \in {Channels!NoId, s} /\ s <= tab.id
    BY <1>1, <1>2, <1>3, <1>4 DEF PingersInv, PortsOwn
  <2>3. \A s \in Pages : s > tab.id => toServer'[s] = <<>> /\ toClient'[s] = <<>>
    BY <1>1, <1>3, <1>5, <2>1 DEF PingersInv, PortsOwn
  <2>4. ASSUME tab.up
        PROVE  /\ None(toServer'[tab.id], "disconnect") /\ None(toClient'[tab.id], "disconnect")
               /\ \/ server'[tab.id].open /\ None(toServer'[tab.id], "connect")
                  \/ ~server'[tab.id].open /\ Connecting(toServer'[tab.id])
    <3>1. CASE p = tab.id
      <4>1. "disconnect" \notin types
        BY <1>7, <2>4, <3>1
      <4>2. None(toServer[p], "disconnect") /\ None(toClient[p], "disconnect")
        BY <1>1, <2>4, <3>1 DEF PingersInv, PortsOwn
      <4> QED BY <1>3, <1>5, <1>7, <2>4, <3>1, <4>1, <4>2
    <3>2. CASE p # tab.id
      BY <1>1, <1>3, <1>4, <1>5, <1>6, <2>4, <3>2 DEF PingersInv, PortsOwn
    <3> QED BY <3>1, <3>2
  <2> QED BY <1>1, <2>2, <2>3, <2>4 DEF PortsOwn
<1>9. SinglesShare'
  BY <1>1 DEF SinglesShare
<1>10. PingersExpect'
  <2>1. CASE tab.up /\ p = tab.id
    <3>1. /\ msgs \in Seq(FromServer) /\ Posts(msgs, {"ping", "pong"})
          /\ toClient' = Channels!Post(toClient, Slot, msgs)
          /\ p = tab.id /\ toServer[p][1].type = "ping" => 1 \in DOMAIN msgs /\ msgs[1].type = "pong"
          /\ Heard(server[Slot], toServer[p][1].type, server'[Slot])
      BY <1>2, <1>6, <1>7, <2>1 DEF type
    <3> QED BY <1>1, <2>1, <3>1, HeardExpects
  <2>2. CASE ~tab.up
    BY <1>1, <2>2 DEF PingersInv, PingersExpect
  <2>3. CASE tab.up /\ p # tab.id
    <3>1. tab.id \in Pages /\ Slot = tab.id /\ Slot' = Slot /\ tab' = tab /\ client' = client
      BY <1>1, <1>6, <2>3
    <3>2. /\ toServer'[tab.id] = toServer[tab.id] /\ server'[Slot] = server[Slot]
          /\ toClient'[Slot] = toClient[Slot]
      BY <1>3, <1>4, <1>5, <2>3, <3>1
    <3>3. PingersExpect
      BY <1>1 DEF PingersInv
    <3> QED BY <3>1, <3>2, <3>3 DEF PingersExpect
  <2> QED BY <2>1, <2>2, <2>3
<1> QED BY <1>4, <1>8, <1>9, <1>10 DEF PingersInv

\* What a single message makes of the extension's channel.
LEMMA SingleHeard ==
  ASSUME Channels!PingAssumption, ChannelsTypes, PingersInv, NEW p \in Pages,
         Channels!SingleReceives(p)
  PROVE  \E msgs \in Seq(FromServer) :
           /\ Posts(msgs, {"ping", "pong"}) /\ toClient' = Channels!Post(toClient, 1, msgs)
           /\ server'[1].open /\ server'[1].by \in 1 .. tab.id /\ server'[1].wait <= Interval
           /\ Heard(server[1], toServer[p][1].type, server'[1])
           /\ toServer[p][1].type = "ping" => 1 \in DOMAIN msgs /\ msgs[1].type = "pong"
<1> DEFINE q == toServer[p]  m == Head(q)  end == Channels!ChannelOf(p)
           h == Channels!Handled(end, m)  g == Channels!Handled(Channels!Opened(p), m)
           r == IF h.end.open THEN h ELSE g
           old == server[1]  end2 == server'[1]
<1>1. /\ transport = "single" /\ q # <<>>
      /\ server' = [server EXCEPT ![1] = r.end] /\ toClient' = Channels!Post(toClient, 1, r.sent)
      /\ toServer' = [toServer EXCEPT ![p] = Tail(@)]
  BY DEF Channels!SingleReceives, Channels!NewSingleChannel
<1>2. 1 \in Pages /\ p >= 1
  BY PagesNumbers
<1>3. m = q[1] /\ m \in FromPage(p) /\ m.type \in {"ping", "pong"} /\ p \in 1 .. tab.id
  <2>1. m = q[1] /\ m \in FromPage(p) /\ 1 \in DOMAIN q /\ p <= tab.id
    BY <1>1, PageHeard
  <2>2. None(q, "connect") /\ None(q, "disconnect")
    BY <1>1 DEF PingersInv, SinglesShare
  <2>3. p \in 1 .. tab.id
    BY <2>1, PageNumbers
  <2> QED BY <2>1, <2>2, <2>3 DEF FromPage, None
<1>4. end2 = r.end /\ old \in End
  BY <1>1, <1>2 DEF ChannelsTypes
<1>5. /\ end = IF old.open THEN old ELSE Channels!Opened(p)
      /\ old.open => old.by \in 1 .. tab.id /\ old.wait <= Interval
  BY <1>1, <1>2 DEF PingersInv, SinglesShare, QueuesAging, Channels!ChannelOf,
                    Channels!NewSingleChannel
<1> DEFINE o == Channels!Opened(p)
<1>6. /\ o \in End /\ o.open = TRUE /\ o.prev = Channels!NoId /\ o.idle = 0 /\ o.wait = Interval
      /\ o.by = p /\ Interval <= Interval /\ p # Channels!NoId
  <2>1. p \in 0 .. MaxPages /\ p # Channels!NoId /\ Interval <= Interval
    BY <1>2, PagesNumbers
  <2>2. o \in End
    BY <2>1, EndsTyped
  <2>3. o.open = TRUE /\ o.prev = Channels!NoId /\ o.idle = 0 /\ o.wait = Interval /\ o.by = p
    BY OpenedEnd, Zenon
  <2> QED BY <2>1, <2>2, <2>3
<1>7. /\ end \in End /\ end.open = TRUE /\ end.by \in 1 .. tab.id /\ end.wait <= Interval
      /\ old.open \/ (end.idle = 0 /\ end.wait = Interval)
      /\ old.open => end = old
  <2> HIDE DEF o, end, old
  <2>1. end = IF old.open THEN old ELSE o
    BY <1>5 DEF o
  <2> QED BY <1>3, <1>4, <1>5, <1>6, <2>1
<1>8. /\ <<>> \in Seq(FromServer) /\ Posts(<<>>, {"ping", "pong"})
      /\ Posts(Channels!PongBack(Channels!ServerId), {"ping", "pong"})
      /\ LET back == Channels!PongBack(Channels!ServerId)
         IN back \in Seq(FromServer) /\ 1 \in DOMAIN back /\ back[1].type = "pong"
  BY MessagesTyped, MessagesNew DEF Posts
<1>9. CASE m.type = "ping"
  <2>1. h.end = end /\ h.sent = Channels!PongBack(Channels!ServerId)
    BY <1>9, HandledPing
  <2> HIDE DEF h, g, end
  <2>2. r.end = end /\ r.sent = Channels!PongBack(Channels!ServerId)
    BY <1>7, <2>1
  <2> HIDE DEF r, end2, old, q, m
  <2>3. end2 = end /\ toClient' = Channels!Post(toClient, 1, Channels!PongBack(Channels!ServerId))
        /\ q[1].type = "ping"
    BY <1>1, <1>3, <1>4, <1>9, <2>2
  <2>4. Heard(old, "ping", end2)
    BY <1>7, <2>3 DEF Heard
  <2> QED BY <1>7, <1>8, <2>3, <2>4 DEF q, end2, old
<1>10. CASE m.type = "pong"
  <2>1. /\ end.prev \in {Channels!NoId, p} =>
             /\ h.end.open /\ h.end.prev = p /\ h.end.wait = end.wait /\ h.end.by = end.by
             /\ h.end.idle = IF end.prev = Channels!NoId THEN end.idle ELSE 0
             /\ h.sent = <<>>
        /\ end.prev \notin {Channels!NoId, p} => ~h.end.open
    <3> HIDE DEF end, m
    <3> QED BY <1>3, <1>7, <1>10, HandledPong DEF h
  <2>2. /\ g.end.open /\ g.end.prev = p /\ g.end.wait = Interval /\ g.end.by = p
        /\ g.end.idle = 0 /\ g.sent = <<>>
    <3> HIDE DEF m
    <3>1. g = Channels!Handled(o, m)
      OBVIOUS
    <3> HIDE DEF o, g
    <3> QED BY <1>3, <1>6, <1>10, <3>1, HandledPong
  <2> HIDE DEF h, g, end
  <2>3. \/ end.prev \in {Channels!NoId, p} /\ r = h
        \/ end.prev \notin {Channels!NoId, p} /\ r = g
    BY <2>1
  <2> HIDE DEF r, end2, old, q, m, o
  <2>4. toClient' = Channels!Post(toClient, 1, <<>>) /\ q[1].type = "pong" /\ end2 = r.end
    BY <1>1, <1>3, <1>4, <1>10, <2>1, <2>2, <2>3
  <2>5. /\ end2.open /\ end2.by \in 1 .. tab.id /\ end2.wait <= Interval /\ end2.prev = p
        /\ \/ end2.idle = 0
           \/ /\ end.prev = Channels!NoId
              /\ end2.idle = end.idle /\ end2.wait = end.wait /\ end2.by = end.by
    BY <1>3, <1>6, <1>7, <2>1, <2>2, <2>3, <2>4
  <2>6. Heard(old, "pong", end2)
    BY <1>6, <1>7, <2>5 DEF Heard
  <2> QED BY <1>8, <2>4, <2>5, <2>6 DEF q, end2, old
<1> QED BY <1>3, <1>9, <1>10

LEMMA SingleReceivesExpects ==
  ASSUME Channels!PingAssumption, ChannelsTypes, ChannelsTypes', PingersInv, NEW p \in Pages,
         Channels!SingleReceives(p)
  PROVE  PingersInv'
<1>1. /\ transport = "single" /\ toServer[p] # <<>> /\ 1 \in Pages
      /\ server' = [server EXCEPT ![1] = server'[1]]
      /\ toServer' = [toServer EXCEPT ![p] = Tail(@)]
      /\ UNCHANGED <<transport, tab, client>>
  <2>1. server \in [Pages -> End] /\ 1 \in Pages
    BY PagesNumbers DEF ChannelsTypes
  <2>2. \E e : server' = [server EXCEPT ![1] = e]
    BY DEF Channels!SingleReceives
  <2>3. server' = [server EXCEPT ![1] = server'[1]]
    BY <2>1, <2>2
  <2> QED BY <2>1, <2>3 DEF Channels!SingleReceives
<1>2. PICK msgs \in Seq(FromServer) :
           /\ Posts(msgs, {"ping", "pong"}) /\ toClient' = Channels!Post(toClient, 1, msgs)
           /\ server'[1].open /\ server'[1].by \in 1 .. tab.id /\ server'[1].wait <= Interval
           /\ Heard(server[1], toServer[p][1].type, server'[1])
           /\ toServer[p][1].type = "ping" => 1 \in DOMAIN msgs /\ msgs[1].type = "pong"
  BY SingleHeard
<1>3. /\ p <= tab.id
      /\ \A s \in Pages : s # p => toServer'[s] = toServer[s]
      /\ \A s \in Pages : \A t : None(toServer[s], t) => None(toServer'[s], t)
  BY <1>1, PageHeard
<1>4. QueuesAging' /\ \A s \in Pages : s # 1 => server'[s] = server[s]
  BY <1>1, <1>2, HeardAging
<1>5. /\ \A s \in Pages : s # 1 => toClient'[s] = toClient[s]
      /\ \A s \in Pages : None(toClient[s], "disconnect") => None(toClient'[s], "disconnect")
  <2>1. "disconnect" \notin {"ping", "pong"}
    OBVIOUS
  <2> QED BY <1>1, <1>2, <2>1, SlotSays
<1>6. PortsOwn'
  BY <1>1 DEF PortsOwn
<1>7. SinglesShare'
  <2>1. \A s \in Pages : s > tab.id => s # p
    BY <1>3, PageNumbers
  <2>2. \A s \in Pages : server'[s].open => server'[s].by \in 1 .. tab.id
    BY <1>1, <1>2, <1>4 DEF PingersInv, SinglesShare
  <2>3. \A s \in Pages : s # 1 => ~server'[s].open /\ toClient'[s] = <<>>
    BY <1>1, <1>4, <1>5 DEF PingersInv, SinglesShare
  <2> QED BY <1>1, <1>3, <1>5, <2>1, <2>2, <2>3 DEF PingersInv, SinglesShare
<1>8. PingersExpect'
  <2>1. CASE tab.up
    <3>1. Slot = 1
      BY <1>1 DEF Slot
    <3> QED BY <1>1, <1>2, <2>1, <3>1, HeardExpects
  <2>2. CASE ~tab.up
    BY <1>1, <2>2 DEF PingersInv, PingersExpect
  <2> QED BY <2>1, <2>2
<1> QED BY <1>4, <1>6, <1>7, <1>8 DEF PingersInv

-----------------------------------------------------------------------------
(* Time goes on                                                             *)

\* The messages of S may grow older; u is q after a tick.
MayAge(S) ==
  \A m \in S : /\ [m EXCEPT !.age = @ + 1] \in S
               /\ [m EXCEPT !.age = @ + 1].type = m.type
               /\ [m EXCEPT !.age = @ + 1].age = m.age + 1 /\ m.age \in Nat

Grown(q, u) ==
  /\ \A i \in DOMAIN q : i \in DOMAIN u /\ u[i].type = q[i].type /\ u[i].age = q[i].age + 1
  /\ Aging(u) /\ (q = <<>> => u = <<>>)
  /\ \A type : None(q, type) => None(u, type)
  /\ Connecting(q) => Connecting(u)

LEMMA QueueAged ==
  ASSUME Channels!PingAssumption, NEW S, MayAge(S), NEW q \in Seq(S),
         Aging(q), ~Channels!Late(q), NEW u, u = Channels!Aged(q)
  PROVE  Grown(q, u)
<1>1. \A m \in S : /\ [m EXCEPT !.age = @ + 1] \in S
                   /\ [m EXCEPT !.age = @ + 1].type = m.type
                   /\ [m EXCEPT !.age = @ + 1].age = m.age + 1 /\ m.age \in Nat
  BY DEF MayAge
<1>2. /\ u \in Seq(S) /\ Len(u) = Len(q)
      /\ \A i \in 1 .. Len(q) : u[i] = [q[i] EXCEPT !.age = @ + 1]
  BY <1>1, AgedTyped
<1>3. /\ DOMAIN q = 1 .. Len(q) /\ DOMAIN u = DOMAIN q /\ Len(q) \in Nat
      /\ \A i \in DOMAIN q : q[i] \in S
  BY <1>2
<1>4. \A i \in DOMAIN q : u[i].type = q[i].type /\ u[i].age = q[i].age + 1 /\ q[i].age \in Nat
  BY <1>1, <1>2, <1>3
<1>5. ASSUME NEW i \in DOMAIN q PROVE q[i].age < Delay
  <2>1. 1 \in DOMAIN q /\ q # <<>> /\ i >= 1 /\ Head(q) = q[1] /\ i \in Nat
    BY <1>3, <1>5
  <2>2. ~(q[1].age >= Delay)
    BY <2>1 DEF Channels!Late
  <2>3. q[i].age <= q[1].age
    <3>1. CASE i = 1
      BY <1>4, <2>1, <3>1
    <3>2. CASE i # 1
      <4>1. 1 < i
        BY <2>1, <3>2
      <4> QED BY <2>1, <4>1 DEF Aging
    <3> QED BY <3>1, <3>2
  <2> QED BY <1>4, <2>1, <2>2, <2>3, PagesNumbers
<1>6. Aging(u)
  <2>1. ASSUME NEW i \in DOMAIN u
        PROVE  i \in Nat /\ u[i].age \in Nat /\ u[i].age <= Delay
    <3>1. i \in DOMAIN q /\ i \in Nat
      BY <1>3
    <3>2. u[i].age = q[i].age + 1 /\ q[i].age \in Nat /\ q[i].age < Delay
      BY <1>4, <1>5, <3>1
    <3>3. \A a \in Nat : a < Delay => a + 1 \in Nat /\ a + 1 <= Delay
      BY PagesNumbers
    <3> QED BY <3>1, <3>2, <3>3
  <2>2. ASSUME NEW i \in DOMAIN u, NEW j \in DOMAIN u, i < j PROVE u[j].age <= u[i].age
    <3>1. q[j].age <= q[i].age
      BY <1>3, <2>2 DEF Aging
    <3> QED BY <1>3, <1>4, <3>1
  <2> QED BY <2>1, <2>2 DEF Aging
<1>7. q = <<>> => u = <<>>
  BY <1>2
<1>8. \A type : None(q, type) => None(u, type)
  BY <1>3, <1>4 DEF None
<1>9. Connecting(q) => Connecting(u)
  BY <1>3, <1>4 DEF Connecting
<1> QED BY <1>3, <1>4, <1>6, <1>7, <1>8, <1>9 DEF Grown

LEMMA EndAged ==
  ASSUME Channels!PingAssumption, NEW end \in End, ~Channels!Due(end), NEW e, e = Channels!Older(end)
  PROVE  /\ e.open = end.open /\ e.prev = end.prev /\ e.by = end.by
         /\ end.open => /\ e.idle = end.idle + 1 /\ e.wait = end.wait + 1
                        /\ end.wait < Interval /\ e.wait <= Interval
<1>1. CASE end.open
  <2>1. e = [end EXCEPT !.idle = end.idle + 1, !.wait = end.wait + 1]
    BY <1>1 DEF Channels!Older
  <2>2. ~(end.wait >= Interval) /\ end.wait \in Nat
    BY <1>1 DEF Channels!Due, End
  <2> QED BY <2>1, <2>2, PagesNumbers DEF End
<1>2. CASE ~end.open
  BY <1>2 DEF Channels!Older
<1> QED BY <1>1, <1>2

LEMMA TickExpects ==
  ASSUME Channels!PingAssumption, ChannelsTypes, ChannelsTypes', PingersInv, Channels!Tick
  PROVE  PingersInv'
<1>1. /\ client' = Channels!Older(client) /\ ~Channels!Due(client)
      /\ \A s \in Pages : server'[s] = Channels!Older(server[s]) /\ ~Channels!Due(server[s])
      /\ \A p \in Pages : /\ toServer'[p] = Channels!Aged(toServer[p]) /\ ~Channels!Late(toServer[p])
                          /\ toClient'[p] = Channels!Aged(toClient[p]) /\ ~Channels!Late(toClient[p])
      /\ UNCHANGED <<transport, tab, pool>>
  BY DEF Channels!Tick, Pages
<1>2. /\ client \in End /\ \A s \in Pages : server[s] \in End
      /\ \A s \in Pages : /\ toServer[s] \in Seq(FromPage(s)) /\ Aging(toServer[s])
                          /\ toClient[s] \in Seq(FromServer) /\ Aging(toClient[s])
  BY DEF ChannelsTypes, Links, PingersInv, QueuesAging
<1>3. /\ client'.open = client.open /\ client'.prev = client.prev
      /\ client.open => /\ client'.idle = client.idle + 1 /\ client'.wait = client.wait + 1
                        /\ client.wait < Interval /\ client'.wait <= Interval
  BY <1>1, <1>2, EndAged
<1>4. ASSUME NEW s \in Pages
      PROVE  /\ server'[s].open = server[s].open /\ server'[s].prev = server[s].prev
             /\ server'[s].by = server[s].by
             /\ server[s].open => /\ server'[s].idle = server[s].idle + 1
                                  /\ server'[s].wait = server[s].wait + 1
                                  /\ server[s].wait < Interval /\ server'[s].wait <= Interval
  <2> DEFINE end == server[s]  e == server'[s]
  <2>1. end \in End /\ ~Channels!Due(end) /\ e = Channels!Older(end)
    BY <1>1, <1>2
  <2> HIDE DEF end, e
  <2>2. /\ e.open = end.open /\ e.prev = end.prev /\ e.by = end.by
        /\ end.open => /\ e.idle = end.idle + 1 /\ e.wait = end.wait + 1
                       /\ end.wait < Interval /\ e.wait <= Interval
    BY <2>1, EndAged
  <2> QED BY <2>2 DEF end, e
<1>5. ASSUME NEW s \in Pages PROVE Grown(toServer[s], toServer'[s]) /\ Grown(toClient[s], toClient'[s])
  <2>1. MayAge(FromPage(s)) /\ MayAge(FromServer)
    BY DEF MayAge, FromPage, FromServer
  <2>2. Grown(toServer[s], toServer'[s])
    BY <1>1, <1>2, <2>1, QueueAged
  <2>3. Grown(toClient[s], toClient'[s])
    BY <1>1, <1>2, <2>1, QueueAged
  <2> QED BY <2>2, <2>3
<1>6. \A s \in Pages :
        /\ \A type : /\ None(toServer[s], type) => None(toServer'[s], type)
                     /\ None(toClient[s], type) => None(toClient'[s], type)
        /\ Connecting(toServer[s]) => Connecting(toServer'[s])
        /\ toServer[s] = <<>> => toServer'[s] = <<>>
        /\ toClient[s] = <<>> => toClient'[s] = <<>>
        /\ Aging(toServer'[s]) /\ Aging(toClient'[s])
  BY <1>5 DEF Grown
<1>7. QueuesAging'
  BY <1>3, <1>4, <1>6 DEF QueuesAging
<1>8. tab.up => tab.id \in Pages /\ Slot \in Pages /\ Slot' = Slot
  BY <1>1, SlotOfPage DEF Slot
<1>9. PortsOwn'
  BY <1>1, <1>4, <1>6, <1>8 DEF PingersInv, PortsOwn
<1>10. SinglesShare'
  BY <1>1, <1>4, <1>6 DEF PingersInv, SinglesShare
<1>11. PingersExpect'
  <2> SUFFICES ASSUME tab.up PROVE PingersExpect'
    BY <1>1, <1>3 DEF PingersInv, PingersExpect
  <2> DEFINE q == toServer[tab.id]  u == toServer'[tab.id]
             back == toClient[Slot]  back2 == toClient'[Slot]
             end == server[Slot]  end2 == server'[Slot]
  <2>1. Grown(q, u) /\ Grown(back, back2) /\ Aging(q) /\ Aging(back) /\ end \in End
    BY <1>2, <1>5, <1>8
  <2>2. /\ Expected(client, q, back) /\ client.open
        /\ end.open /\ end.by = tab.id => Expected(end, back, q)
    BY DEF PingersInv, PingersExpect
  <2>3. /\ end2.open = end.open /\ end2.prev = end.prev /\ end2.by = end.by
        /\ end.open => end2.idle = end.idle + 1 /\ end2.wait = end.wait + 1 /\ end.wait < Interval
    BY <1>4, <1>8
  <2>4. /\ \A i \in DOMAIN q : i \in DOMAIN u /\ u[i].type = q[i].type /\ u[i].age = q[i].age + 1
        /\ \A i \in DOMAIN back : /\ i \in DOMAIN back2 /\ back2[i].type = back[i].type
                                  /\ back2[i].age = back[i].age + 1
    BY <2>1 DEF Grown
  <2> HIDE DEF q, u, back, back2, end, end2
  <2>5. Expected(client', u, back2)
    BY <1>2, <1>3, <2>1, <2>2, <2>4, ExpectedAged
  <2>6. end2.open /\ end2.by = tab.id => Expected(end2, back2, u)
    BY <2>1, <2>2, <2>3, <2>4, ExpectedAged
  <2> QED BY <1>1, <1>3, <1>8, <2>5, <2>6 DEF PingersInv, PingersExpect, q, u, back, back2, end, end2
<1> QED BY <1>7, <1>9, <1>10, <1>11 DEF PingersInv

-----------------------------------------------------------------------------
LEMMA PingersInitially ==
  ASSUME Channels!PingAssumption PROVE Channels!Init => PingersInv
<1> SUFFICES ASSUME Channels!Init PROVE PingersInv
  OBVIOUS
<1>1. /\ tab.id = 0 /\ tab.up = FALSE /\ client = Channels!Closed
      /\ \A s \in Pages : /\ server[s] = Channels!Closed
                          /\ toServer[s] = <<>> /\ toClient[s] = <<>>
  BY DEF Channels!Init, Pages
<1>2. Channels!Closed.open = FALSE /\ Channels!Closed.prev = Channels!NoId
  BY DEF Channels!Closed
<1>3. Aging(<<>>) /\ \A type : None(<<>>, type)
  BY DEF Aging, None
<1>4. QueuesAging
  BY <1>1, <1>2, <1>3 DEF QueuesAging
<1>5. PortsOwn
  BY <1>1, <1>2, <1>3 DEF PortsOwn
<1>6. SinglesShare
  BY <1>1, <1>2, <1>3 DEF SinglesShare
<1>7. PingersExpect
  BY <1>1, <1>2 DEF PingersExpect
<1> QED BY <1>4, <1>5, <1>6, <1>7 DEF PingersInv

LEMMA PingersKept ==
  ASSUME Channels!PingAssumption, ChannelsTypes, PingersInv, Channels!Next
  PROVE  PingersInv'
<1>0. ChannelsTypes'
  BY ChannelsKept
<1>1. CASE Channels!LoadPage
  BY <1>0, <1>1, LoadPageExpects
<1>2. CASE Channels!ClosePage
  BY <1>0, <1>2, ClosePageExpects
<1>3. CASE Channels!ClientPings
  BY <1>0, <1>3, ClientPingsExpects
<1>4. CASE Channels!ClientTimeout
  BY <1>4, ClientTimeoutExpects
<1>5. CASE \E s \in Pages : Channels!ClientReceives(s)
  BY <1>0, <1>5, ClientReceivesExpects
<1>6. CASE \E s \in Pages : Channels!ServerPings(s)
  BY <1>0, <1>6, ServerPingsExpects
<1>7. CASE \E s \in Pages : Channels!ServerTimeout(s)
  BY <1>0, <1>7, ServerTimeoutExpects
<1>8. CASE \E p \in Pages : Channels!PortReceives(p)
  BY <1>0, <1>8, PortReceivesExpects
<1>9. CASE \E p \in Pages : Channels!SingleReceives(p)
  BY <1>0, <1>9, SingleReceivesExpects
<1>10. CASE Channels!Tick
  BY <1>0, <1>10, TickExpects
<1> QED BY <1>1, <1>2, <1>3, <1>4, <1>5, <1>6, <1>7, <1>8, <1>9, <1>10 DEF Channels!Next, Pages

\* A pinger never gives up on a page that is there and answers (Pinger in
\* message-channel-pinging.js): not the client's on the Connector, and not the
\* Connector's on the page that had its channel opened, as long as the interval and a
\* round trip fit into the timeout.
THEOREM PingersNeverGiveUp == PartSpec => []LiveEndsKept
<1> USE ChannelsAssumption
<1>1. PartInit => ChannelsTypes /\ PingersInv
  BY ChannelsInitially, PingersInitially DEF PartInit
<1>2. ChannelsTypes /\ PingersInv /\ [PartNext]_partVars => ChannelsTypes' /\ PingersInv'
  <2> SUFFICES ASSUME ChannelsTypes, PingersInv, [PartNext]_partVars
               PROVE  ChannelsTypes' /\ PingersInv'
    OBVIOUS
  <2>1. CASE Channels!Next
    BY <2>1, ChannelsKept, PingersKept
  <2>2. CASE UNCHANGED channelsVars
    <3>1. ChannelsTypes'
      BY <2>2 DEF channelsVars, ChannelsTypes, Links
    <3>2. PingersInv'
      BY <2>2 DEF channelsVars, PingersInv, QueuesAging, PortsOwn, SinglesShare, PingersExpect, Slot
    <3> QED BY <3>1, <3>2
  <2> QED BY <2>1, <2>2 DEF PartNext, partVars
<1>3. ChannelsTypes /\ PingersInv => LiveEndsKept
  BY PingersInTime DEF LiveEndsKept
<1> QED BY <1>1, <1>2, <1>3, PTL DEF PartSpec
=============================================================================
