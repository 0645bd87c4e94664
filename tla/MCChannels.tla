------------------------------ MODULE MCChannels ------------------------------
(***************************************************************************)
(* What lies between a client and the executable module, for TLC.  The     *)
(* components share no state, so a behaviour is one of one component: only *)
(* its part moves, and the others stay where they start.  The deferred     *)
(* jobs' module is extended, the others are instantiated.                  *)
(***************************************************************************)
EXTENDS DeferredProcessor

CONSTANTS
  Timeout, Interval, Delay, MaxPages,           \* ClientChannels
  Calls, Bye, Junk, Create, Delete              \* ClientRequests

VARIABLES
  part,
  transport, tab, client, server, toServer, toClient, pool,
  promise, clientOpen, toPage, fromPage, page, module, working, fromModule, executed

Channels == INSTANCE ClientChannels WITH page <- tab
Calling == INSTANCE ClientRequests WITH toClient <- fromPage

ASSUME ChannelsAssumption == Channels!PingAssumption
ASSUME CallingAssumption == Calling!CallsAssumption

channelsVars == <<transport, tab, client, server, toServer, toClient, pool>>
callsVars == <<promise, clientOpen, toPage, fromPage, page, module, working,
               fromModule, executed>>
partVars == <<part, channelsVars, callsVars, vars>>

PartInit ==
  /\ part \in {"channels", "calls", "jobs"}
  /\ Calling!Init /\ Init
  /\ Channels!Init /\ (part # "channels" => transport = "port")

PartNext ==
  /\ UNCHANGED part
  /\ \/ part = "channels" /\ Channels!Next
     \/ part # "channels" /\ UNCHANGED channelsVars
  /\ \/ part = "calls" /\ Calling!Next
     \/ part # "calls" /\ UNCHANGED callsVars
  /\ \/ part = "jobs" /\ Next
     \/ part # "jobs" /\ UNCHANGED vars

\* The components' own fairness, for the part that moves.
ChannelsFairness ==
  /\ WF_channelsVars(part = "channels" /\ Channels!Tick)
  /\ WF_channelsVars(part = "channels" /\ (Channels!ClientPings \/ Channels!ClientTimeout))
  /\ WF_channelsVars(part = "channels" /\ \E s \in 1 .. MaxPages : Channels!ServerPings(s) \/ Channels!ServerTimeout(s))
  /\ WF_channelsVars(part = "channels" /\ \E s \in 1 .. MaxPages : Channels!ClientReceives(s))
  /\ WF_channelsVars(part = "channels" /\ \E p \in 1 .. MaxPages : Channels!PortReceives(p) \/ Channels!SingleReceives(p))

CallsFairness ==
  /\ WF_callsVars(part = "calls" /\ Calling!ClientReceives)
  /\ WF_callsVars(part = "calls" /\ \E payload \in Calling!Payloads : Calling!PageReceives(payload))
  /\ WF_callsVars(part = "calls" /\ Calling!PageHears)
  /\ WF_callsVars(part = "calls" /\ (Calling!ServerSettles \/ Calling!ModuleLoads \/ Calling!ModuleTakes))
  /\ WF_callsVars(part = "calls" /\ \E ok \in BOOLEAN : Calling!PermissionSettles(ok))
  /\ WF_callsVars(part = "calls" /\ \E a \in page.answers : Calling!Respond(a))
  /\ WF_callsVars(part = "calls" /\ \E c \in working, ok \in BOOLEAN : Calling!ModuleAnswers(c, ok))

PartSpec ==
  /\ PartInit /\ [][PartNext]_partVars
  /\ ChannelsFairness /\ CallsFairness

LiveEndsKept == Channels!LiveEndsKept
PongEstablishes == Channels!PongEstablishes
DepartedNoticed == part = "channels" => Channels!DepartedNoticed
CallsImplemented == Calling!CallsImplemented
CallsSettle == part = "calls" => Calling!CallsSettle
=============================================================================
