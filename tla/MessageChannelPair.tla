-------------------------- MODULE MessageChannelPair --------------------------
(***************************************************************************)
(* MessageChannelPair: two message channels of one page, each of which     *)
(* delivers what is sent through the other.  The Connector's reader        *)
(* tracker talks to its own client handler through such a pair             *)
(* (background.js), and either of them may dispose of its end at any time, *)
(* while it is being delivered a message for example.                      *)
(***************************************************************************)
EXTENDS Naturals, Sequences

CONSTANT MaxSent        \* how many messages are sent through each item

PairAssumption == MaxSent \in Nat

Items == {0, 1}
Other(i) == 1 - i

VARIABLES
  pair,         \* the pair: its items, and whether it is disposed of
  disposed,     \* the items that are disposed of
  ticks,        \* the callbacks goog.async.nextTick will call, in turn
  sent,         \* history: how many messages each item has sent
  delivered     \* history: the messages each item has delivered

vars == <<pair, disposed, ticks, sent, delivered>>

\* The constructor.
Init ==
  /\ pair = [items |-> <<0, 1>>, disposed |-> FALSE]
  /\ disposed = {}
  /\ ticks = <<>>
  /\ sent = [i \in Items |-> 0] /\ delivered = [i \in Items |-> <<>>]

\* disposeInternal of the pair: all its items are disposed of.
DisposePair ==
  /\ pair' = [items |-> <<>>, disposed |-> TRUE]
  /\ disposed' = disposed \cup {pair.items[n] : n \in DOMAIN pair.items}

\* disposeInternal of an item: the pair is disposed of, and so the other item.
DisposeItem(i) == i \notin disposed /\ DisposePair

-----------------------------------------------------------------------------
\* sendFrom_, for send of an item that is not disposed of.
SendFrom(i) == ticks' = Append(ticks, [from |-> i, message |-> sent[i] + 1])

Send(i) ==
  /\ i \notin disposed /\ sent[i] < MaxSent
  /\ SendFrom(i)
  /\ sent' = [sent EXCEPT ![i] = @ + 1]
  /\ UNCHANGED <<pair, disposed, delivered>>

Dispose(i) ==
  /\ DisposeItem(i)
  /\ UNCHANGED <<ticks, sent, delivered>>

\* deliver_: the registered service gets the message.
Deliver(i, message) == delivered' = [delivered EXCEPT ![i] = Append(@, message)]

\* The next callback; what it calls may dispose of the item it is called for.
NextTick(disposes) ==
  /\ ticks # <<>>
  /\ ticks' = Tail(ticks)
  /\ IF pair.disposed
     THEN ~disposes /\ UNCHANGED <<pair, disposed, delivered>>
     ELSE LET target == pair.items[Other(Head(ticks).from) + 1]
          IN /\ Deliver(target, Head(ticks).message)
             /\ IF disposes THEN DisposeItem(target) ELSE UNCHANGED <<pair, disposed>>
  /\ UNCHANGED sent

Next ==
  \/ \E i \in Items : Send(i) \/ Dispose(i)
  \/ \E disposes \in BOOLEAN : NextTick(disposes)

Spec == Init /\ [][Next]_vars

-----------------------------------------------------------------------------
\* Each end gets what was sent through the other, in the order it was sent and
\* nothing left out; nobody is left with one end of a pair whose other end is
\* disposed of; and of a pair that is not, whatever is sent arrives.
PairInOrder ==
  /\ \A i \in Items, n \in 1 .. MaxSent :
       n \in DOMAIN delivered[i] => delivered[i][n] = n
  /\ disposed \in {{}, Items}
  /\ ticks = <<>> /\ disposed = {} =>
       \A i \in Items : Len(delivered[i]) = sent[Other(i)]
=============================================================================
