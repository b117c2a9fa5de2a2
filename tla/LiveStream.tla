----------------------------- MODULE LiveStream -----------------------------
(***************************************************************************)
(* The live stream of server-sent events (backend/src/routes/              *)
(* live-stream.js) and its consumers in browsers (frontend/src/lib/        *)
(* streamConsumer.ts).  The server numbers events, keeps the newest for    *)
(* replay and writes each to every connection; a consumer whose connection *)
(* broke makes a new one that names the last event it received.            *)
(*                                                                         *)
(* An event is its id and the run of the server it is from: a server that  *)
(* starts again numbers from 1, and consumers know nothing of runs.  What  *)
(* was written to a connection arrives in order or, when the connection    *)
(* breaks, is lost.  The server learns later that a connection is closed.  *)
(* Heartbeats, and what an event says, are not in the state.               *)
(*                                                                         *)
(* An operator named Faulty... is the one that follows it with a mistake;  *)
(* its comment names the property that finds the mistake.                  *)
(***************************************************************************)
EXTENDS Integers, Sequences, SequencesExt

CONSTANTS
  Clients,    \* the consumers
  BufferSize, \* replayBufferSize, 100 by default
  MaxId,      \* bound: no more events are published in a run than this
  MaxRun,     \* bound: the server is started no more often than this
  MaxStale    \* bound: how many connections the server does not know to be closed

ASSUME SizesAssumption ==
  BufferSize \in Nat \ {0} /\ MaxId \in Nat /\ MaxRun \in Nat \ {0} /\ MaxStale \in Nat \ {0}

VARIABLES
  run,        \* history: how often the server was started
  nextId,     \* nextId
  publishing, \* the id that is given out and waits for the statistics, or NoId
  buffer,     \* the ids in the replay buffer
  polling,    \* whether pollTimer is set
  joined,     \* the clients whose connection is in connections
  stale,      \* how many closed connections are in it as well
  listening,  \* whether a consumer has listeners
  source,     \* its EventSource: "none", "connecting", "open"; "waiting" to reconnect
  last,       \* lastEventId, and the run it is from
  channel     \* what was written to its connection and has not arrived

server == <<run, nextId, publishing, buffer, polling, joined, stale>>
clients == <<listening, source, last, channel>>
vars == <<server, clients>>

NoId    == 0
Nothing == [run |-> 0, id |-> NoId]

\* What is written: an event, or the comment replay-gap.
Frame == [run : 1..MaxRun, id : 0..MaxId]
IsEvent(frame) == frame.id # NoId

-----------------------------------------------------------------------------
Init ==
  /\ run = 1 /\ nextId = 1 /\ publishing = NoId /\ buffer = <<>>
  /\ polling = FALSE /\ joined = {} /\ stale = 0
  /\ listening = [c \in Clients |-> FALSE]
  /\ source = [c \in Clients |-> "none"]
  /\ last = [c \in Clients |-> Nothing]
  /\ channel = [c \in Clients |-> <<>>]

-----------------------------------------------------------------------------
(* The server                                                               *)

\* publish: one event at a time; its id is given out before it is made.
Publish ==
  IF publishing = NoId /\ nextId <= MaxId
  THEN publishing' = nextId /\ nextId' = nextId + 1
  ELSE UNCHANGED <<publishing, nextId>>

Tick ==
  /\ polling
  /\ publishing = NoId /\ nextId <= MaxId
  /\ Publish
  /\ UNCHANGED <<run, buffer, polling, joined, stale, clients>>

\* TypeOK: the buffer is not cut.
FaultyKept(ids) == ids

Kept(ids) == IF Len(ids) > BufferSize THEN Tail(ids) ELSE ids

\* The statistics are there, or are left out: the event goes into the buffer and
\* to everybody who is connected now.
Published ==
  /\ publishing # NoId
  /\ publishing' = NoId
  /\ buffer' = Kept(Append(buffer, publishing))
  /\ channel' = [c \in Clients |->
       IF c \in joined THEN Append(channel[c], [run |-> run, id |-> publishing])
       ELSE channel[c]]
  /\ UNCHANGED <<run, nextId, polling, joined, stale, listening, source, last>>

\* buffer.filter: the ids above lastId, in their order.  A recursive function and not
\* SelectSeq, so that LiveStreamProofs can reason about it.
Above(ids, lastId) ==
  LET above[i \in 0..Len(ids)] ==
        IF i = 0 THEN <<>>
        ELSE IF ids[i] > lastId THEN Append(above[i - 1], ids[i]) ELSE above[i - 1]
  IN  above[Len(ids)]

\* ReplayExact: the event the client names is replayed as well.
FaultyMissed(lastId) == Above(buffer, lastId - 1)

\* NothingMissed: one event too few is replayed.
ShortMissed(lastId) == Above(buffer, lastId + 1)

Missed(lastId) == Above(buffer, lastId)

Replay(lastId) ==
  LET gap == buffer # <<>> /\ lastId < Head(buffer) - 1
      ids == (IF gap THEN <<NoId>> ELSE <<>>) \o Missed(lastId)
  IN  [i \in DOMAIN ids |-> [run |-> run, id |-> ids[i]]]

\* The request of a client arrives: what it missed is written to it, or, when it
\* names no event or one that has not been, an event is published.
Join(c) ==
  LET fresh == last[c].id = NoId \/ last[c].id >= nextId
  IN  /\ source[c] = "connecting"
      /\ source' = [source EXCEPT ![c] = "open"]
      /\ channel' = [channel EXCEPT ![c] = IF fresh THEN <<>> ELSE Replay(last[c].id)]
      /\ joined' = joined \cup {c}
      /\ polling' = TRUE
      /\ IF fresh THEN Publish ELSE UNCHANGED <<publishing, nextId>>
      /\ UNCHANGED <<run, buffer, stale, listening, last>>

\* PollsWhileConnected: whoever leaves stops the timer.
FaultyStopPollingIfIdle == polling' = FALSE

StopPollingIfIdle == polling' = (polling /\ (joined # {} \/ stale' # 0))

\* The server learns that a connection is closed.
CloseSeen ==
  /\ stale > 0
  /\ stale' = stale - 1
  /\ StopPollingIfIdle
  /\ UNCHANGED <<run, nextId, publishing, buffer, joined, clients>>

\* The server goes down and starts again; clients notice later.
Restart ==
  /\ run < MaxRun
  /\ run' = run + 1
  /\ nextId' = 1 /\ publishing' = NoId /\ buffer' = <<>>
  /\ polling' = FALSE /\ joined' = {} /\ stale' = 0
  /\ UNCHANGED clients

-----------------------------------------------------------------------------
(* A client                                                                 *)

\* Its EventSource is gone.  If the server still has the connection, it does not
\* know yet.
Leave(c) ==
  /\ channel' = [channel EXCEPT ![c] = <<>>]
  /\ joined' = joined \ {c}
  /\ IF c \in joined THEN stale < MaxStale /\ stale' = stale + 1 ELSE UNCHANGED stale

\* The first listener subscribes.
Subscribe(c) ==
  /\ ~listening[c]
  /\ listening' = [listening EXCEPT ![c] = TRUE]
  /\ source' = [source EXCEPT ![c] = "connecting"]
  /\ UNCHANGED <<server, last, channel>>

\* The last one unsubscribes: disconnect, also of the timer.
Unsubscribe(c) ==
  /\ listening[c]
  /\ listening' = [listening EXCEPT ![c] = FALSE]
  /\ source' = [source EXCEPT ![c] = "none"]
  /\ Leave(c)
  /\ UNCHANGED <<run, nextId, publishing, buffer, polling, last>>

\* An event arrives; comments before it are passed over.
Receive(c) ==
  /\ source[c] = "open" /\ channel[c] # <<>>
  /\ LET n == IF IsEvent(Head(channel[c])) THEN 1 ELSE 2
     IN  /\ last' = [last EXCEPT ![c] = channel[c][n]]
         /\ channel' = [channel EXCEPT ![c] = SubSeq(@, n + 1, Len(@))]
  /\ UNCHANGED <<server, listening, source>>

\* SubscriberReconnects: no timer is set.
FaultyOnError(c) ==
  /\ source[c] \in {"connecting", "open"}
  /\ source' = [source EXCEPT ![c] = "none"]
  /\ Leave(c)
  /\ UNCHANGED <<run, nextId, publishing, buffer, polling, listening, last>>

\* onerror: the connection broke or was not made.
OnError(c) ==
  /\ source[c] \in {"connecting", "open"}
  /\ source' = [source EXCEPT ![c] = "waiting"]
  /\ Leave(c)
  /\ UNCHANGED <<run, nextId, publishing, buffer, polling, listening, last>>

Reconnect(c) ==
  /\ source[c] = "waiting"
  /\ source' = [source EXCEPT ![c] = "connecting"]
  /\ UNCHANGED <<server, listening, last, channel>>

\* A connection to a server that is no longer there.
NoticeRestart(c) == source[c] = "open" /\ c \notin joined /\ OnError(c)

Next ==
  \/ Tick \/ Published \/ CloseSeen \/ Restart
  \/ \E c \in Clients :
        \/ Join(c) \/ Receive(c)
        \/ Subscribe(c) \/ Unsubscribe(c) \/ OnError(c) \/ Reconnect(c)

\* Timers go off and what is written arrives; the statistics are read or given up;
\* a consumer that tries again and again reaches the server once.
Spec ==
  /\ Init /\ [][Next]_vars
  /\ WF_vars(Tick) /\ WF_vars(Published) /\ WF_vars(CloseSeen)
  /\ \A c \in Clients :
       /\ WF_vars(Reconnect(c)) /\ WF_vars(Receive(c)) /\ WF_vars(NoticeRestart(c))
       /\ SF_vars(Join(c))

-----------------------------------------------------------------------------
(* Properties *)

TypeOK ==
  /\ run \in 1..MaxRun
  /\ nextId \in 1..MaxId + 1
  /\ publishing \in 0..MaxId
  /\ buffer \in Seq(1..MaxId) /\ Len(buffer) <= BufferSize
  /\ polling \in BOOLEAN
  /\ joined \subseteq Clients
  /\ stale \in 0..MaxStale
  /\ listening \in [Clients -> BOOLEAN]
  /\ source \in [Clients -> {"none", "waiting", "connecting", "open"}]
  /\ last \in [Clients -> Frame \cup {Nothing}]
  /\ channel \in [Clients -> Seq(Frame)]

\* What a client has received last, and what is on its way to it.
Stream(c) == <<last[c]>> \o channel[c]

\* A client receives the events of a run in order, none twice and, unless the server
\* wrote replay-gap and there is one, none left out: however often its connection
\* breaks and whatever is published while it is away or while it is replayed to.
ReplayExact ==
  \A c \in Clients :
    \A i \in 2..Len(Stream(c)) :
      LET this   == Stream(c)[i]
          gap    == ~IsEvent(Stream(c)[i - 1]) /\ i > 2
          before == IF gap THEN Stream(c)[i - 2] ELSE Stream(c)[i - 1]
      IN  IsEvent(this) /\ this.run = before.run
            => IF gap THEN this.id > before.id + 1 ELSE this.id = before.id + 1

\* A client that is connected and has an event of this run, or one on its way, has
\* the newest one: it has missed none between the replay and the broadcasts.
NothingMissed ==
  \A c \in joined :
    Last(Stream(c)).run = run => Last(Stream(c)).id = Last(buffer)

\* The poller runs exactly while the server has a connection, one of the clients or
\* one it does not know to be closed.
PollsWhileConnected == polling <=> joined # {} \/ stale > 0

\* A client that stays connected gets one event after the other, up to the last one
\* there is, also when it named an event of an earlier run that this run has reached.
EventsArrive ==
  \A c \in Clients :
    c \in joined /\ nextId <= MaxId ~> c \notin joined \/ last[c] = [run |-> run, id |-> MaxId]

\* Whoever subscribed is connected in the end, or has unsubscribed.
SubscriberReconnects ==
  \A c \in Clients : listening[c] ~> c \in joined \/ ~listening[c]

=============================================================================
