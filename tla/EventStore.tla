----------------------------- MODULE EventStore -----------------------------
(***************************************************************************)
(* FileEventStore (backend/src/store.js), to which GET /api/events         *)
(* (backend/src/routes/events.js) appends the schedules it finds: a list   *)
(* of events in memory, without duplicates and bounded, and its copy in a  *)
(* file that is replaced as a whole.  Requests overlap: what one does      *)
(* between two awaits that take time is one action.  append awaits events  *)
(* that are loaded in no time, and no two requests get to it in one tick:  *)
(* each comes from an answer of the network of its own.  The server may    *)
(* crash at any time and start again with the file as it is.               *)
(*                                                                         *)
(* An event is its key.  load and list are appends of nothing.  A file     *)
(* that does not exist reads like an empty one; that the directory is made *)
(* first, and the temporary file, are part of the write they belong to.    *)
(*                                                                         *)
(* An operator named Faulty... is the one that follows it with a mistake;  *)
(* its comment names the property that finds the mistake.                  *)
(***************************************************************************)
EXTENDS Integers, Sequences, SequencesExt

CONSTANTS
  Requests,  \* the requests that are handled at a time
  Keys,      \* what tells events apart: type, id and target ledger
  Batches,   \* the lists of events that requests append
  MaxEvents, \* maxEvents, 10000 by default
  Null       \* this.events before the file is loaded; no write going on

ASSUME BatchesAssumption   == Batches \subseteq Seq(Keys)
ASSUME MaxEventsAssumption == MaxEvents \in Nat \ {0}
ASSUME NullAssumption      == Null \notin Seq(Keys)

VARIABLES
  events,         \* this.events
  file,           \* the events in the file
  queue,          \* this.writeQueue: the requests whose writes are not over, in order
  writing,        \* what the first of them writes, or Null before it does
  lastWriteError, \* whether there is one
  request,        \* what each request waits for
  reloaded        \* history: since the last start a load replaced other events

vars == <<events, file, queue, writing, lastWriteError, request, reloaded>>

Idle == [at |-> "idle", batch |-> <<>>, found |-> <<>>]

Waits(r, at) == request[r].at = at

-----------------------------------------------------------------------------
Init ==
  /\ events = Null
  /\ file = <<>>
  /\ queue = <<>>
  /\ writing = Null
  /\ lastWriteError = FALSE
  /\ request = [r \in Requests |-> Idle]
  /\ reloaded = FALSE

\* NoDuplicates: the events of a batch are not compared with each other.
FaultyAdditions(batch, current) ==
  SelectSeq(batch, LAMBDA key : ~Contains(current, key))

\* The events of a batch that are not known, each once.
Additions(batch, current) ==
  LET added[i \in 0..Len(batch)] ==
        IF i = 0 THEN <<>>
        ELSE IF Contains(current \o added[i - 1], batch[i]) THEN added[i - 1]
        ELSE Append(added[i - 1], batch[i])
  IN  added[Len(batch)]

\* TypeOK: one event too many is kept.
FaultyBounded(list) ==
  IF Len(list) > MaxEvents THEN SubSeq(list, Len(list) - MaxEvents, Len(list)) ELSE list

\* The newest events, as many as there is room for.
Bounded(list) ==
  IF Len(list) > MaxEvents THEN SubSeq(list, Len(list) - MaxEvents + 1, Len(list)) ELSE list

\* append goes on when the events are loaded: it adds what is new and puts a write
\* in the queue, or answers at once when nothing is.
Add(r, batch, current) ==
  LET added == Additions(batch, current)
  IN  /\ events' = IF added = <<>> THEN current ELSE Bounded(current \o added)
      /\ IF added = <<>>
         THEN /\ request' = [request EXCEPT ![r] = Idle]
              /\ UNCHANGED queue
         ELSE /\ request' = [request EXCEPT ![r] = [Idle EXCEPT !.at = "write"]]
              /\ queue' = Append(queue, r)

\* A request comes; the file is opened if the events are not loaded.
Arrive(r, batch) ==
  /\ Waits(r, "idle")
  /\ IF events # Null THEN Add(r, batch, events) ELSE
       /\ request' = [request EXCEPT ![r] = [Idle EXCEPT !.at = "open", !.batch = batch]]
       /\ UNCHANGED <<events, queue>>
  /\ UNCHANGED <<file, writing, lastWriteError, reloaded>>

\* What a read returns is the file that was there when it was opened.
Open(r) ==
  /\ Waits(r, "open")
  /\ request' = [request EXCEPT ![r].at = "read", ![r].found = file]
  /\ UNCHANGED <<events, file, queue, writing, lastWriteError, reloaded>>

\* Whoever began to read sets this.events, also when it was set meanwhile.
Load(r) ==
  /\ Waits(r, "read")
  /\ Add(r, request[r].batch, request[r].found)
  /\ reloaded' = (reloaded \/ events \notin {Null, request[r].found})
  /\ UNCHANGED <<file, writing, lastWriteError>>

\* SavedStays: whatever keeps the file from being read, it is taken for missing.
FaultyLoadFails(r) ==
  /\ Waits(r, "read")
  /\ Add(r, request[r].batch, <<>>)
  /\ UNCHANGED <<file, writing, lastWriteError, reloaded>>

\* The request is answered with the error, and the next one reads again.
LoadFails(r) ==
  /\ Waits(r, "read")
  /\ request' = [request EXCEPT ![r] = Idle]
  /\ UNCHANGED <<events, file, queue, writing, lastWriteError, reloaded>>

\* The first write of the queue writes the events as they are now.
BeginWrite ==
  /\ queue # <<>> /\ writing = Null
  /\ writing' = events
  /\ UNCHANGED <<events, file, queue, lastWriteError, request, reloaded>>

\* The request of the write is answered, and the queue goes on.
EndWrite ==
  /\ queue' = Tail(queue)
  /\ writing' = Null
  /\ request' = [request EXCEPT ![Head(queue)] = Idle]

\* rename puts the new file in the place of the old one.
WriteDone ==
  /\ writing # Null
  /\ file' = writing
  /\ lastWriteError' = FALSE
  /\ EndWrite
  /\ UNCHANGED <<events, reloaded>>

\* KnownIsSaved: the error is not kept.
FaultyWriteFails ==
  /\ queue # <<>>
  /\ EndWrite
  /\ UNCHANGED <<events, file, lastWriteError, reloaded>>

\* AppendIsAnswered: a write that failed is made again.
RetryingWriteFails ==
  /\ queue # <<>>
  /\ writing' = Null
  /\ lastWriteError' = TRUE
  /\ UNCHANGED <<events, file, queue, request, reloaded>>

\* A step of the write failed; the events in memory stay as they are.
WriteFails ==
  /\ queue # <<>>
  /\ lastWriteError' = TRUE
  /\ EndWrite
  /\ UNCHANGED <<events, file, reloaded>>

\* The server crashes and starts again.
Crash ==
  /\ events' = Null
  /\ queue' = <<>>
  /\ writing' = Null
  /\ lastWriteError' = FALSE
  /\ request' = [r \in Requests |-> Idle]
  /\ reloaded' = FALSE
  /\ UNCHANGED file

ReadStep(r) == Open(r) \/ Load(r) \/ LoadFails(r)
WriteStep == BeginWrite \/ WriteDone \/ WriteFails

Next ==
  \/ \E r \in Requests : ReadStep(r) \/ \E batch \in Batches : Arrive(r, batch)
  \/ WriteStep
  \/ Crash

\* An operation on the file ends, one way or the other.
Spec ==
  /\ Init /\ [][Next]_vars
  /\ \A r \in Requests : WF_vars(ReadStep(r))
  /\ WF_vars(WriteStep)

-----------------------------------------------------------------------------
(* Properties *)

EventLists == UNION {[1..n -> Keys] : n \in 0..MaxEvents}

TypeOK ==
  /\ events \in EventLists \cup {Null}
  /\ file \in EventLists
  /\ queue \in Seq(Requests) /\ IsInjective(queue)
  /\ writing \in EventLists \cup {Null}
  /\ lastWriteError \in BOOLEAN
  /\ request \in [Requests -> [at : {"idle", "open", "read", "write"},
                              batch : Batches \cup {<<>>}, found : EventLists]]
  /\ reloaded \in BOOLEAN

\* However appends overlap, fail and are repeated, the same event is never listed
\* twice, in memory or in the file, and those that wait for a write are exactly the
\* ones in the queue.
NoDuplicates ==
  /\ IsInjective(file)
  /\ events # Null => IsInjective(events)
  /\ ToSet(queue) = {r \in Requests : Waits(r, "write")}

\* When getWriteStatus says healthy and no write is on its way, what would be taken
\* for known, and so not be written again, is what the file has: unless two requests
\* loaded the file at the same time, and the later one put back what the other had
\* loaded and added to.
KnownIsSaved ==
  events # Null /\ queue = <<>> /\ ~lastWriteError /\ ~reloaded => events = file

\* What is in the file leaves it to make room for newer events and for no other
\* reason, crashes and failures included, with the same exception.
SavedStays ==
  [][ToSet(file) \subseteq ToSet(file') \/ Len(file') = MaxEvents \/ reloaded]_vars

\* Every request is answered, or the server crashes: no failure stops the queue.
AppendIsAnswered ==
  \A r \in Requests : ~Waits(r, "idle") ~> Waits(r, "idle")

=============================================================================
