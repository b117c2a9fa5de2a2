-------------------------- MODULE EventStoreProofs --------------------------
(***************************************************************************)
(* Theorems about EventStore, for every set of requests, keys and batches  *)
(* and every limit.                                                        *)
(*                                                                         *)
(* Neither KnownIsSaved nor SavedStays can be seen from one step: what a   *)
(* write puts into the file was taken from memory before others added to   *)
(* it, and what a load puts into memory was read from the file before      *)
(* others wrote to it.  Chain says how the three copies stand to each      *)
(* other in between: memory, what is being written, the file.              *)
(***************************************************************************)
EXTENDS EventStore, BookkeepingTheorems

-----------------------------------------------------------------------------
(* The inductive invariant *)

\* Nothing left x between the two lists but what had to make room.
Covers(x, y) == ToSet(x) \subseteq ToSet(y) \/ Len(y) = MaxEvents

\* No list on its way has an event twice.
ListsDistinct ==
  /\ NoDuplicates
  /\ writing # Null => IsInjective(writing)
  /\ \A r \in Requests : IsInjective(request[r].found)

\* What is written was in memory, and what was read before the events were loaded
\* is still what the file has.
Chain ==
  /\ writing # Null => queue # <<>>
  /\ events = Null => queue = <<>> /\ \A r \in Requests : Waits(r, "read") => request[r].found = file
  /\ events # Null /\ Len(queue) = 1 /\ writing # Null /\ ~reloaded => writing = events
  /\ events # Null /\ ~reloaded => Covers(file, events)
  /\ writing # Null /\ ~reloaded => Covers(file, writing) /\ Covers(writing, events)

IInv == TypeOK /\ ListsDistinct /\ Chain /\ KnownIsSaved

-----------------------------------------------------------------------------
(* Lists without duplicates *)

\* The bounded lists of events.
LEMMA ListsOfEvents ==
  ASSUME NEW x
  PROVE  x \in EventLists <=> x \in Seq(Keys) /\ Len(x) <= MaxEvents
<1>1. ASSUME x \in EventLists PROVE x \in Seq(Keys) /\ Len(x) <= MaxEvents
  <2>1. PICK n \in 0..MaxEvents : x \in [1..n -> Keys]
    BY <1>1 DEF EventLists
  <2> QED
    BY <2>1
<1>2. ASSUME x \in Seq(Keys), Len(x) <= MaxEvents PROVE x \in EventLists
  <2>1. PICK n : n = Len(x)
    OBVIOUS
  <2>2. n \in 0..MaxEvents /\ x \in [1..n -> Keys]
    BY <1>2, <2>1
  <2> QED
    BY <2>2 DEF EventLists
<1> QED
  BY <1>1, <1>2

\* Injectivity by positions.
LEMMA DistinctPositions ==
  ASSUME NEW I, NEW s \in Seq(I)
  PROVE  IsInjective(s) <=> \A i, j \in 1..Len(s) : s[i] = s[j] => i = j
BY DEF IsInjective

\* What is not in a list without duplicates can be put at its end, and is then its
\* only new element.
LEMMA AppendDistinct ==
  ASSUME NEW I, NEW s \in Seq(I), NEW x \in I, IsInjective(s), ~Contains(s, x)
  PROVE  /\ Append(s, x) \in Seq(I)
         /\ IsInjective(Append(s, x))
         /\ ToSet(Append(s, x)) = ToSet(s) \cup {x}
<1>1. PICK t : t = Append(s, x)
  OBVIOUS
<1>2. /\ t \in Seq(I) /\ Len(t) = Len(s) + 1 /\ Len(s) \in Nat
      /\ \A i \in 1..Len(s) : t[i] = s[i]
      /\ t[Len(s) + 1] = x
      /\ DOMAIN t = 1..Len(t) /\ DOMAIN s = 1..Len(s)
  BY <1>1
<1>3. \A i \in 1..Len(s) : s[i] # x
  BY DEF Contains
<1>4. IsInjective(t)
  BY <1>2, <1>3 DEF IsInjective
<1>5. ToSet(t) = ToSet(s) \cup {x}
  <2>1. ASSUME NEW y \in ToSet(t) PROVE y \in ToSet(s) \cup {x}
    BY <1>2, <2>1 DEF ToSet
  <2>2. ASSUME NEW y \in ToSet(s) PROVE y \in ToSet(t)
    <3>1. PICK i \in 1..Len(s) : y = s[i]
      BY <1>2 DEF ToSet
    <3>2. i \in DOMAIN t /\ t[i] = y
      BY <1>2, <3>1
    <3> QED
      BY <3>2 DEF ToSet
  <2>3. x \in ToSet(t)
    <3>1. Len(s) + 1 \in DOMAIN t
      BY <1>2
    <3> QED
      BY <1>2, <3>1 DEF ToSet
  <2> QED
    BY <2>1, <2>2, <2>3
<1> QED
  BY <1>1, <1>2, <1>4, <1>5

\* The tail of a list without duplicates has everything but its head.
LEMMA TailDistinct ==
  ASSUME NEW I, NEW s \in Seq(I), s # <<>>, IsInjective(s)
  PROVE  /\ Head(s) \in I /\ Tail(s) \in Seq(I)
         /\ IsInjective(Tail(s))
         /\ ToSet(Tail(s)) = ToSet(s) \ {Head(s)}
<1>1. PICK t : t = Tail(s)
  OBVIOUS
<1>2. /\ t \in Seq(I) /\ Len(t) = Len(s) - 1 /\ Len(s) \in Nat /\ Len(s) >= 1
      /\ \A i \in 1..Len(t) : t[i] = s[i + 1]
      /\ DOMAIN t = 1..Len(t) /\ DOMAIN s = 1..Len(s)
      /\ Head(s) = s[1]
  BY <1>1
<1>3. IsInjective(t)
  BY <1>2, SMTT(30) DEF IsInjective
<1>4. ASSUME NEW y \in ToSet(t) PROVE y \in ToSet(s) /\ y # s[1]
  <2>1. PICK i \in 1..Len(t) : y = t[i]
    BY <1>2 DEF ToSet
  <2>2. i + 1 \in DOMAIN s /\ y = s[i + 1] /\ 1 \in DOMAIN s /\ i + 1 # 1
    BY <1>2, <2>1
  <2> QED
    BY <2>2 DEF ToSet, IsInjective
<1>5. ASSUME NEW y \in ToSet(s), y # s[1] PROVE y \in ToSet(t)
  <2>1. PICK i \in 1..Len(s) : y = s[i]
    BY <1>2 DEF ToSet
  <2>2. i # 1
    BY <1>5, <2>1
  <2>3. i - 1 \in DOMAIN t /\ t[i - 1] = y
    BY <1>2, <2>1, <2>2
  <2> QED
    BY <2>3 DEF ToSet
<1>6. ToSet(t) = ToSet(s) \ {s[1]}
  BY <1>4, <1>5
<1>7. Head(s) \in I
  OBVIOUS
<1> QED
  BY <1>1, <1>2, <1>3, <1>6, <1>7

\* An element is in the set of a list if the list contains it.
LEMMA ContainsToSet ==
  ASSUME NEW I, NEW s \in Seq(I), NEW x
  PROVE  Contains(s, x) <=> x \in ToSet(s)
BY DEF Contains, ToSet

-----------------------------------------------------------------------------
(* What append puts in *)

\* The events that are added after the first n of a batch, for every n up to m.
IsAdded(d, batch, current, m) ==
  d = [i \in 0..m |->
         IF i = 0 THEN <<>>
         ELSE IF Contains(current \o d[i - 1], batch[i]) THEN d[i - 1]
         ELSE Append(d[i - 1], batch[i])]

\* They exist, however long the batch.
LEMMA AddedExists ==
  ASSUME NEW m \in Nat, NEW batch, \A i \in 1..m : batch[i] \in Keys, NEW current
  PROVE  \E d \in [0..m -> Seq(Keys)] : IsAdded(d, batch, current, m)
<1> DEFINE S == {n \in 0..m : \E d \in [0..n -> Seq(Keys)] : IsAdded(d, batch, current, n)}
<1>1. 0 \in S
  <2> DEFINE d == [i \in 0..0 |-> <<>>]
  <2>1. d \in [0..0 -> Seq(Keys)] /\ IsAdded(d, batch, current, 0)
    BY DEF IsAdded
  <2> QED
    BY <2>1
<1>2. ASSUME NEW n \in 0..m-1, n \in S
      PROVE  n + 1 \in S
  <2>1. PICK d \in [0..n -> Seq(Keys)] : IsAdded(d, batch, current, n)
    BY <1>2
  <2>2. PICK last : last = IF Contains(current \o d[n], batch[n + 1]) THEN d[n]
                           ELSE Append(d[n], batch[n + 1])
    OBVIOUS
  <2>3. last \in Seq(Keys)
    <3>1. batch[n + 1] \in Keys /\ d[n] \in Seq(Keys)
      OBVIOUS
    <3> QED
      BY <2>2, <3>1
  <2> DEFINE t == [i \in 0..n+1 |-> IF i = n + 1 THEN last ELSE d[i]]
  <2>4. t \in [0..n+1 -> Seq(Keys)]
    BY <2>3
  <2>5. ASSUME NEW i \in 0..n+1
        PROVE  t[i] = IF i = 0 THEN <<>>
                      ELSE IF Contains(current \o t[i - 1], batch[i]) THEN t[i - 1]
                      ELSE Append(t[i - 1], batch[i])
    <3>1. CASE i = n + 1
      BY <2>2, <3>1
    <3>2. CASE i # n + 1
      <4>1. i \in 0..n
        BY <3>2
      <4>2. d[i] = IF i = 0 THEN <<>>
                   ELSE IF Contains(current \o d[i - 1], batch[i]) THEN d[i - 1]
                   ELSE Append(d[i - 1], batch[i])
        BY <4>1, <2>1 DEF IsAdded
      <4> QED
        BY <4>1, <4>2, <3>2, SMTT(30)
    <3> QED
      BY <3>1, <3>2
  <2>6. IsAdded(t, batch, current, n + 1)
    BY <2>4, <2>5 DEF IsAdded
  <2> HIDE DEF t
  <2>7. \E k \in [0..n+1 -> Seq(Keys)] : IsAdded(k, batch, current, n + 1)
    BY <2>4, <2>6
  <2> QED
    BY <2>7
<1> HIDE DEF S
<1>3. \A n \in 0..m : n \in S
  BY <1>1, <1>2, SetInduction
<1>4. m \in S
  BY <1>3
<1> QED
  BY <1>4 DEF S

\* Additions is the last of them.
LEMMA AdditionsAdded ==
  ASSUME NEW batch \in Seq(Keys), NEW current
  PROVE  \E d : IsAdded(d, batch, current, Len(batch)) /\ Additions(batch, current) = d[Len(batch)]
<1> DEFINE d == CHOOSE k : IsAdded(k, batch, current, Len(batch))
<1>1. \E k : IsAdded(k, batch, current, Len(batch))
  <2>1. PICK n : n = Len(batch)
    OBVIOUS
  <2>2. n \in Nat /\ \A i \in 1..n : batch[i] \in Keys
    BY <2>1
  <2> QED
    BY <2>1, <2>2, AddedExists
<1>2. IsAdded(d, batch, current, Len(batch))
  BY <1>1
<1>3. Additions(batch, current) = d[Len(batch)]
  BY DEF Additions, IsAdded
<1> QED
  BY <1>2, <1>3

\* For every batch, repetitions and known events included: put at the end of a list
\* without duplicates, the additions leave it without duplicates.
THEOREM AdditionsAreNew ==
  ASSUME NEW batch \in Seq(Keys), NEW current \in Seq(Keys), IsInjective(current)
  PROVE  /\ Additions(batch, current) \in Seq(Keys)
         /\ IsInjective(current \o Additions(batch, current))
<1>1. PICK d : /\ IsAdded(d, batch, current, Len(batch))
               /\ Additions(batch, current) = d[Len(batch)]
  BY AdditionsAdded
<1>2. PICK m : m = Len(batch)
  OBVIOUS
<1>3. m \in Nat /\ \A i \in 1..m : batch[i] \in Keys
  BY <1>2
<1> DEFINE S == {n \in 0..m : d[n] \in Seq(Keys) /\ IsInjective(current \o d[n])}
<1>4. 0 \in S
  <2>1. d[0] = <<>>
    BY <1>1, <1>2, <1>3 DEF IsAdded
  <2>2. current \o <<>> = current
    OBVIOUS
  <2>3. d[0] \in Seq(Keys) /\ current \o d[0] = current
    BY <2>1, <2>2
  <2>4. IsInjective(current \o d[0])
    BY <2>3, Zenon
  <2>5. 0 \in 0..m
    BY <1>3
  <2> QED
    BY <2>3, <2>4, <2>5
<1>5. ASSUME NEW n \in 0..m-1, n \in S
      PROVE  n + 1 \in S
  <2>1. n + 1 \in 0..m /\ n + 1 \in 1..m /\ (n + 1) - 1 = n /\ n + 1 # 0
    BY <1>3
  <2>2. d[n + 1] = IF Contains(current \o d[n], batch[n + 1]) THEN d[n]
                   ELSE Append(d[n], batch[n + 1])
    BY <1>1, <1>2, <2>1 DEF IsAdded
  <2>3. CASE Contains(current \o d[n], batch[n + 1])
    BY <1>5, <2>1, <2>2, <2>3
  <2>4. CASE ~Contains(current \o d[n], batch[n + 1])
    <3>1. PICK e, x : e = d[n] /\ x = batch[n + 1]
      OBVIOUS
    <3>2. e \in Seq(Keys) /\ x \in Keys /\ IsInjective(current \o e) /\ current \o e \in Seq(Keys)
      BY <1>3, <1>5, <2>1, <3>1
    <3>3. IsInjective(Append(current \o e, x))
      BY <2>4, <3>1, <3>2, AppendDistinct
    <3>4. current \o Append(e, x) = Append(current \o e, x)
      BY <3>2
    <3>5. Append(e, x) \in Seq(Keys)
      BY <3>2
    <3> QED
      BY <2>1, <2>2, <2>4, <3>1, <3>3, <3>4, <3>5
  <2> QED
    BY <2>3, <2>4
<1> HIDE DEF S
<1>6. m \in S
  <2>1. m \in Nat
    BY <1>3
  <2>2. \A n \in 0..m : n \in S
    BY <1>4, <1>5, <2>1, SetInduction
  <2> QED
    BY <2>1, <2>2
<1> QED
  BY <1>1, <1>2, <1>6 DEF S

USE BatchesAssumption, MaxEventsAssumption, NullAssumption

\* Bounded keeps a list that fits, and of a longer one as many as there is room for.
LEMMA BoundedFits ==
  ASSUME NEW s \in Seq(Keys), IsInjective(s)
  PROVE  /\ Bounded(s) \in EventLists
         /\ IsInjective(Bounded(s))
         /\ IF Len(s) > MaxEvents THEN Len(Bounded(s)) = MaxEvents ELSE Bounded(s) = s
<1>1. CASE Len(s) > MaxEvents
  <2>1. PICK k : k = Len(s) - MaxEvents
    OBVIOUS
  <2>2. PICK t : t = SubSeq(s, k + 1, Len(s))
    OBVIOUS
  <2>3. Bounded(s) = t
    BY <1>1, <2>1, <2>2 DEF Bounded
  <2>4. k \in Nat /\ Len(s) \in Nat /\ Len(s) = k + MaxEvents
    BY <1>1, <2>1
  <2>5. /\ t \in Seq(Keys) /\ Len(t) = MaxEvents
        /\ \A i \in 1..MaxEvents : t[i] = s[k + i]
    <3>1. k + 1 \in 1..Len(s)+1 /\ Len(s) \in k..Len(s)
      BY <2>4
    <3>2. /\ t \in Seq(Keys)
          /\ Len(t) = Len(s) - (k + 1) + 1
          /\ \A i \in 1..Len(s)-(k + 1)+1 : t[i] = s[(k + 1) + i - 1]
      <4>1. k + 1 <= Len(s) + 1 /\ k + 1 >= 1
        BY <2>4
      <4> QED
        BY <2>2, <2>4, <4>1, SubSeqProperties
    <3> QED
      BY <2>4, <3>2
  <2>6. IsInjective(t)
    <3>1. ASSUME NEW i \in 1..MaxEvents, NEW j \in 1..MaxEvents, t[i] = t[j]
          PROVE  i = j
      <4>1. k + i \in 1..Len(s) /\ k + j \in 1..Len(s) /\ s[k + i] = s[k + j]
        BY <2>4, <2>5, <3>1
      <4>2. k + i = k + j
        BY <4>1, DistinctPositions
      <4> QED
        BY <2>4, <4>2
    <3> QED
      BY <2>5, <3>1, DistinctPositions
  <2> QED
    BY <1>1, <2>3, <2>5, <2>6, ListsOfEvents
<1>2. CASE ~(Len(s) > MaxEvents)
  BY <1>2, ListsOfEvents DEF Bounded
<1> QED
  BY <1>1, <1>2

\* After additions a bounded list without duplicates is one still, and covers what it
\* covered.
LEMMA AddedEvents ==
  ASSUME NEW batch \in Seq(Keys), NEW current \in EventLists, IsInjective(current),
         NEW new,
         new = IF Additions(batch, current) = <<>> THEN current
               ELSE Bounded(current \o Additions(batch, current))
  PROVE  /\ new \in EventLists
         /\ IsInjective(new)
         /\ \A x : Covers(x, current) => Covers(x, new)
<1>1. current \in Seq(Keys) /\ Len(current) <= MaxEvents
  BY ListsOfEvents
<1>2. CASE Additions(batch, current) = <<>>
  BY <1>2
<1>3. CASE Additions(batch, current) # <<>>
  <2>1. PICK d : d = Additions(batch, current)
    OBVIOUS
  <2>2. PICK s : s = current \o d
    OBVIOUS
  <2>3. d \in Seq(Keys) /\ d # <<>> /\ s \in Seq(Keys) /\ IsInjective(s) /\ new = Bounded(s)
    BY <1>1, <1>3, <2>1, <2>2, AdditionsAreNew
  <2>4. /\ Len(s) = Len(current) + Len(d) /\ Len(d) > 0
        /\ Len(current) \in Nat /\ Len(d) \in Nat
        /\ \A i \in 1..Len(current) : s[i] = current[i]
    BY <1>1, <2>2, <2>3
  <2>5. new \in EventLists /\ IsInjective(new)
    BY <2>3, BoundedFits
  <2>6. ASSUME NEW x, Covers(x, current) PROVE Covers(x, new)
    <3>1. CASE Len(s) > MaxEvents
      BY <2>3, <3>1, BoundedFits DEF Covers
    <3>2. CASE ~(Len(s) > MaxEvents)
      <4>1. new = s /\ Len(current) # MaxEvents
        BY <1>1, <2>3, <2>4, <3>2, BoundedFits
      <4>2. ToSet(current) \subseteq ToSet(s)
        <5>1. DOMAIN current = 1..Len(current) /\ DOMAIN s = 1..Len(s)
          BY <1>1, <2>3
        <5>2. ASSUME NEW y \in ToSet(current) PROVE y \in ToSet(s)
          <6>1. PICK i \in 1..Len(current) : y = current[i]
            BY <5>1 DEF ToSet
          <6>2. i \in DOMAIN s /\ s[i] = y
            BY <2>4, <5>1, <6>1
          <6> QED
            BY <6>2 DEF ToSet
        <5> QED
          BY <5>2
      <4> QED
        BY <2>6, <4>1, <4>2 DEF Covers
    <3> QED
      BY <3>1, <3>2
  <2> QED
    BY <2>5, <2>6
<1> QED
  BY <1>2, <1>3

-----------------------------------------------------------------------------
(* What the actions do *)

\* What a request can wait for.
RequestStates ==
  [at : {"idle", "open", "read", "write"}, batch : Batches \cup {<<>>}, found : EventLists]

LEMMA TypeFacts ==
  /\ TypeOK => request \in [Requests -> RequestStates]
  /\ Null \notin EventLists
  /\ <<>> \in EventLists /\ IsInjective(<<>>) /\ Idle \in RequestStates
  /\ \A batch \in Batches \cup {<<>>} : batch \in Seq(Keys)
<1>1. <<>> \in EventLists
  <2>1. <<>> \in Seq(Keys) /\ Len(<<>>) <= MaxEvents
    OBVIOUS
  <2> QED
    BY <2>1, ListsOfEvents
<1>2. IsInjective(<<>>)
  BY DEF IsInjective
<1>3. Null \notin EventLists
  BY ListsOfEvents
<1>4. TypeOK => request \in [Requests -> RequestStates]
  BY DEF TypeOK, RequestStates
<1>5. Idle \in RequestStates
  BY <1>1 DEF RequestStates, Idle
<1>6. \A batch \in Batches \cup {<<>>} : batch \in Seq(Keys)
  <2>1. <<>> \in Seq(Keys)
    OBVIOUS
  <2> QED
    BY <2>1, BatchesAssumption, Zenon DEF BatchesAssumption
<1> QED
  BY <1>1, <1>2, <1>3, <1>4, <1>5, <1>6

\* Add makes the events in memory one list without duplicates that has what the list
\* it starts from had; if nothing is new, that list and the queue stay, and if not,
\* the request joins those that wait for a write.
LEMMA AddEffect ==
  ASSUME TypeOK, NoDuplicates,
         NEW r \in Requests, ~Waits(r, "write"),
         NEW batch \in Batches \cup {<<>>},
         NEW current \in EventLists, IsInjective(current),
         Add(r, batch, current)
  PROVE  /\ events' \in EventLists /\ IsInjective(events')
         /\ \A x : Covers(x, current) => Covers(x, events')
         /\ queue' \in Seq(Requests) /\ IsInjective(queue')
         /\ \/ queue' = queue /\ events' = current
            \/ Len(queue') = Len(queue) + 1
         /\ request' \in [Requests -> RequestStates]
         /\ request'[r].found = <<>> /\ request'[r].at # "read"
         /\ \A q \in Requests \ {r} : request'[q] = request[q]
         /\ ToSet(queue') = {q \in Requests : request'[q].at = "write"}
<1>1. batch \in Seq(Keys)
  BY TypeFacts
<1>2. /\ events' \in EventLists /\ IsInjective(events')
      /\ \A x : Covers(x, current) => Covers(x, events')
  <2>1. events' = IF Additions(batch, current) = <<>> THEN current
                  ELSE Bounded(current \o Additions(batch, current))
    BY DEF Add
  <2> QED
    BY <1>1, <2>1, AddedEvents
<1>3. /\ queue \in Seq(Requests) /\ IsInjective(queue)
      /\ ToSet(queue) = {q \in Requests : request[q].at = "write"}
      /\ request \in [Requests -> RequestStates]
  BY TypeFacts DEF TypeOK, NoDuplicates, Waits
<1>4. CASE Additions(batch, current) = <<>>
  <2>1. queue' = queue /\ events' = current /\ request' = [request EXCEPT ![r] = Idle]
    BY <1>4 DEF Add
  <2>2. /\ request' \in [Requests -> RequestStates]
        /\ request'[r] = Idle
        /\ \A q \in Requests \ {r} : request'[q] = request[q]
    BY <1>3, <2>1, TypeFacts
  <2>3. ToSet(queue') = {q \in Requests : request'[q].at = "write"}
    BY <1>3, <2>1, <2>2 DEF Waits, Idle
  <2> QED
    BY <1>2, <1>3, <2>1, <2>2, <2>3 DEF Idle
<1>5. CASE Additions(batch, current) # <<>>
  <2>1. /\ queue' = Append(queue, r)
        /\ request' = [request EXCEPT ![r] = [Idle EXCEPT !.at = "write"]]
    BY <1>5 DEF Add
  <2>2. ~Contains(queue, r)
    <3>1. r \notin ToSet(queue)
      BY <1>3 DEF Waits
    <3> QED
      BY <1>3, <3>1, ContainsToSet
  <2>3. /\ queue' \in Seq(Requests) /\ IsInjective(queue')
        /\ ToSet(queue') = ToSet(queue) \cup {r}
    BY <1>3, <2>1, <2>2, AppendDistinct
  <2>4. Len(queue') = Len(queue) + 1
    BY <1>3, <2>1
  <2>5. /\ request' \in [Requests -> RequestStates]
        /\ request'[r].at = "write" /\ request'[r].found = <<>>
        /\ \A q \in Requests \ {r} : request'[q] = request[q]
    <3>1. PICK w : w = [Idle EXCEPT !.at = "write"]
      OBVIOUS
    <3>2. w.at = "write" /\ w.found = <<>> /\ w \in RequestStates
      BY <3>1, TypeFacts DEF RequestStates, Idle
    <3> QED
      BY <1>3, <2>1, <3>1, <3>2
  <2>6. ToSet(queue') = {q \in Requests : request'[q].at = "write"}
    BY <1>3, <2>3, <2>5
  <2> QED
    BY <1>2, <2>3, <2>4, <2>5, <2>6
<1> QED
  BY <1>4, <1>5

\* Add keeps the invariant, when it starts from memory or from what was read.
LEMMA AddKeeps ==
  ASSUME IInv,
         NEW r \in Requests, ~Waits(r, "write"),
         NEW batch \in Batches \cup {<<>>},
         NEW current \in EventLists, IsInjective(current),
         Add(r, batch, current),
         events = Null => current = file,
         reloaded' = (reloaded \/ events \notin {Null, current}),
         UNCHANGED <<file, writing, lastWriteError>>
  PROVE  IInv'
<1>1. /\ events' \in EventLists /\ IsInjective(events')
      /\ \A x : Covers(x, current) => Covers(x, events')
      /\ queue' \in Seq(Requests) /\ IsInjective(queue')
      /\ \/ queue' = queue /\ events' = current
         \/ Len(queue') = Len(queue) + 1
      /\ request' \in [Requests -> RequestStates]
      /\ request'[r].found = <<>> /\ request'[r].at # "read"
      /\ \A q \in Requests \ {r} : request'[q] = request[q]
      /\ ToSet(queue') = {q \in Requests : request'[q].at = "write"}
  BY AddEffect DEF IInv, ListsDistinct
<1>2. events' # Null /\ queue \in Seq(Requests)
  BY <1>1, TypeFacts DEF IInv, TypeOK
<1>3. ~reloaded' => ~reloaded /\ events \in {Null, current}
  OBVIOUS
<1>4. TypeOK'
  BY <1>1 DEF IInv, TypeOK, RequestStates
<1>5. ListsDistinct'
  <2>1. NoDuplicates'
    BY <1>1 DEF IInv, ListsDistinct, NoDuplicates, Waits
  <2>2. \A q \in Requests : IsInjective(request'[q].found)
    BY <1>1, TypeFacts DEF IInv, ListsDistinct
  <2> QED
    BY <2>1, <2>2 DEF IInv, ListsDistinct
<1>6. Chain'
  <2>1. writing' # Null => queue' # <<>>
    BY <1>1, <1>2 DEF IInv, Chain
  <2>2. ASSUME Len(queue') = 1, writing' # Null, ~reloaded' PROVE writing' = events'
    <3>1. queue # <<>> /\ events # Null
      BY <2>2 DEF IInv, Chain
    <3>2. queue' = queue /\ events' = current /\ events = current
      BY <1>1, <1>2, <1>3, <2>2, <3>1
    <3> QED
      BY <1>3, <2>2, <3>1, <3>2 DEF IInv, Chain
  <2>3. ASSUME ~reloaded' PROVE Covers(file', events')
    <3>1. Covers(file, current)
      BY <1>3, <2>3 DEF IInv, Chain, Covers
    <3> QED
      BY <1>1, <3>1
  <2>4. ASSUME writing' # Null, ~reloaded'
        PROVE  Covers(file', writing') /\ Covers(writing', events')
    <3>1. events # Null
      BY <2>4 DEF IInv, Chain
    <3>2. Covers(file, writing) /\ Covers(writing, current)
      BY <1>3, <2>4, <3>1 DEF IInv, Chain
    <3> QED
      BY <1>1, <3>2
  <2> QED
    BY <1>2, <2>1, <2>2, <2>3, <2>4 DEF Chain
<1>7. KnownIsSaved'
  <2> SUFFICES ASSUME queue' = <<>>, ~lastWriteError', ~reloaded' PROVE events' = file'
    BY DEF KnownIsSaved
  <2>1. queue' = queue /\ events' = current
    BY <1>1, <1>2
  <2> QED
    BY <1>3, <2>1 DEF IInv, KnownIsSaved
<1> QED
  BY <1>4, <1>5, <1>6, <1>7 DEF IInv

-----------------------------------------------------------------------------
(* The invariant *)

LEMMA InitInvariant == Init => IInv
<1> SUFFICES ASSUME Init PROVE IInv
  OBVIOUS
<1>1. TypeOK
  <2>1. queue \in Seq(Requests) /\ IsInjective(queue)
    BY TypeFacts DEF Init
  <2>2. request \in [Requests -> RequestStates]
    BY TypeFacts DEF Init
  <2> QED
    BY <2>1, <2>2, TypeFacts DEF Init, TypeOK, RequestStates
<1>2. ListsDistinct
  <2>1. ToSet(queue) = {r \in Requests : Waits(r, "write")}
    BY DEF Init, Waits, Idle, ToSet
  <2> QED
    BY <2>1, TypeFacts DEF Init, ListsDistinct, NoDuplicates, Idle
<1>3. Chain /\ KnownIsSaved
  BY DEF Init, Chain, KnownIsSaved, Waits, Idle
<1> QED
  BY <1>1, <1>2, <1>3 DEF IInv

\* A request comes to a store that is loaded, or goes on to open the file.
LEMMA ArriveKeeps ==
  ASSUME IInv, NEW r \in Requests, NEW batch \in Batches, Arrive(r, batch)
  PROVE  IInv'
<1>1. CASE events # Null
  <2>1. events \in EventLists /\ IsInjective(events)
    BY <1>1 DEF IInv, TypeOK, ListsDistinct, NoDuplicates
  <2>2. Add(r, batch, events) /\ ~Waits(r, "write")
    BY <1>1 DEF Arrive, Waits
  <2>3. UNCHANGED <<file, writing, lastWriteError>> /\ reloaded' = (reloaded \/ events \notin {Null, events})
    BY DEF Arrive, IInv, TypeOK
  <2> QED
    BY <1>1, <2>1, <2>2, <2>3, AddKeeps
<1>2. CASE events = Null
  <2>1. /\ request' = [request EXCEPT ![r] = [Idle EXCEPT !.at = "open", !.batch = batch]]
        /\ UNCHANGED <<events, queue, file, writing, lastWriteError, reloaded>>
        /\ request[r].at = "idle"
    BY <1>2 DEF Arrive, Waits
  <2>2. /\ request' \in [Requests -> RequestStates]
        /\ request'[r].at = "open" /\ request'[r].found = <<>>
        /\ \A q \in Requests \ {r} : request'[q] = request[q]
    <3>1. PICK w : w = [Idle EXCEPT !.at = "open", !.batch = batch]
      OBVIOUS
    <3>2. w.at = "open" /\ w.found = <<>> /\ w \in RequestStates
      BY <3>1, TypeFacts DEF RequestStates, Idle
    <3> QED
      BY <2>1, <3>1, <3>2, TypeFacts DEF IInv
  <2>3. TypeOK'
    BY <2>1, <2>2 DEF IInv, TypeOK, RequestStates
  <2>4. ListsDistinct'
    <3>1. {q \in Requests : request'[q].at = "write"} = {q \in Requests : request[q].at = "write"}
      BY <2>1, <2>2
    <3> QED
      BY <2>1, <2>2, <3>1, TypeFacts DEF IInv, ListsDistinct, NoDuplicates, Waits
  <2>5. Chain' /\ KnownIsSaved'
    BY <1>2, <2>1, <2>2 DEF IInv, Chain, KnownIsSaved, Waits
  <2> QED
    BY <2>3, <2>4, <2>5 DEF IInv
<1> QED
  BY <1>1, <1>2

\* The file is opened: what is found is what it has.
LEMMA OpenKeeps ==
  ASSUME IInv, NEW r \in Requests, Open(r)
  PROVE  IInv'
<1>1. /\ request' = [request EXCEPT ![r].at = "read", ![r].found = file]
      /\ UNCHANGED <<events, queue, file, writing, lastWriteError, reloaded>>
      /\ request[r].at = "open"
  BY DEF Open, Waits
<1>2. request \in [Requests -> RequestStates] /\ file \in EventLists /\ IsInjective(file)
  BY TypeFacts DEF IInv, TypeOK, ListsDistinct, NoDuplicates
<1>3. /\ request' \in [Requests -> RequestStates]
      /\ request'[r].at = "read" /\ request'[r].found = file
      /\ \A q \in Requests \ {r} : request'[q] = request[q]
  BY <1>1, <1>2 DEF RequestStates
<1>4. TypeOK'
  BY <1>1, <1>3 DEF IInv, TypeOK, RequestStates
<1>5. ListsDistinct'
  <2>1. {q \in Requests : request'[q].at = "write"} = {q \in Requests : request[q].at = "write"}
    BY <1>1, <1>3
  <2> QED
    BY <1>1, <1>2, <1>3, <2>1 DEF IInv, ListsDistinct, NoDuplicates, Waits
<1>6. Chain' /\ KnownIsSaved'
  BY <1>1, <1>3 DEF IInv, Chain, KnownIsSaved, Waits
<1> QED
  BY <1>4, <1>5, <1>6 DEF IInv

\* A request whose read ended sets the events, also if they are loaded.
LEMMA LoadKeeps ==
  ASSUME IInv, NEW r \in Requests, Load(r)
  PROVE  IInv'
<1> DEFINE found == request[r].found
<1>1. /\ found \in EventLists /\ IsInjective(found)
      /\ request[r].batch \in Batches \cup {<<>>}
  BY TypeFacts DEF IInv, RequestStates, ListsDistinct
<1>2. ~Waits(r, "write") /\ Add(r, request[r].batch, found)
  BY DEF Load, Waits
<1>3. events = Null => found = file
  BY DEF IInv, Chain, Load
<1>4. UNCHANGED <<file, writing, lastWriteError>> /\ reloaded' = (reloaded \/ events \notin {Null, found})
  BY DEF Load
<1> HIDE DEF found
<1> QED
  BY <1>1, <1>2, <1>3, <1>4, AddKeeps

\* A request whose read failed is answered.
LEMMA LoadFailsKeeps ==
  ASSUME IInv, NEW r \in Requests, LoadFails(r)
  PROVE  IInv'
<1>1. /\ request' = [request EXCEPT ![r] = Idle]
      /\ UNCHANGED <<events, queue, file, writing, lastWriteError, reloaded>>
      /\ request[r].at = "read"
  BY DEF LoadFails, Waits
<1>2. /\ request' \in [Requests -> RequestStates]
      /\ request'[r].at = "idle" /\ request'[r].found = <<>>
      /\ \A q \in Requests \ {r} : request'[q] = request[q]
  BY <1>1, TypeFacts DEF IInv, Idle
<1>3. TypeOK'
  BY <1>1, <1>2 DEF IInv, TypeOK, RequestStates
<1>4. ListsDistinct'
  <2>1. {q \in Requests : request'[q].at = "write"} = {q \in Requests : request[q].at = "write"}
    BY <1>1, <1>2
  <2> QED
    BY <1>1, <1>2, <2>1, TypeFacts DEF IInv, ListsDistinct, NoDuplicates, Waits
<1>5. Chain' /\ KnownIsSaved'
  BY <1>1, <1>2 DEF IInv, Chain, KnownIsSaved, Waits
<1> QED
  BY <1>3, <1>4, <1>5 DEF IInv

\* The events that are written are the ones in memory.
LEMMA BeginWriteKeeps ==
  ASSUME IInv, BeginWrite
  PROVE  IInv'
<1>1. /\ writing' = events /\ queue # <<>>
      /\ UNCHANGED <<events, file, queue, lastWriteError, request, reloaded>>
  BY DEF BeginWrite
<1>2. events # Null
  BY <1>1 DEF IInv, Chain
<1>3. TypeOK'
  BY <1>1 DEF IInv, TypeOK
<1>4. ListsDistinct'
  BY <1>1, <1>2 DEF IInv, ListsDistinct, NoDuplicates, Waits
<1>5. Chain' /\ KnownIsSaved'
  BY <1>1, <1>2 DEF IInv, Chain, KnownIsSaved, Waits, Covers
<1> QED
  BY <1>3, <1>4, <1>5 DEF IInv

\* When a write is over, the request at the head of the queue is answered.
LEMMA EndWriteEffect ==
  ASSUME IInv, queue # <<>>, EndWrite
  PROVE  /\ queue' \in Seq(Requests) /\ IsInjective(queue')
         /\ Len(queue') = Len(queue) - 1 /\ Len(queue) \in Nat
         /\ request' \in [Requests -> RequestStates]
         /\ \A q \in Requests : request'[q] \in {request[q], Idle}
         /\ ToSet(queue') = {q \in Requests : request'[q].at = "write"}
<1>1. /\ queue \in Seq(Requests) /\ IsInjective(queue)
      /\ ToSet(queue) = {q \in Requests : request[q].at = "write"}
      /\ request \in [Requests -> RequestStates]
  BY TypeFacts DEF IInv, TypeOK, ListsDistinct, NoDuplicates, Waits
<1>2. queue' = Tail(queue) /\ request' = [request EXCEPT ![Head(queue)] = Idle]
  BY DEF EndWrite
<1>3. /\ Head(queue) \in Requests /\ queue' \in Seq(Requests) /\ IsInjective(queue')
      /\ ToSet(queue') = ToSet(queue) \ {Head(queue)}
  BY <1>1, <1>2, TailDistinct
<1>4. Len(queue') = Len(queue) - 1 /\ Len(queue) \in Nat
  BY <1>1, <1>2
<1>5. /\ request' \in [Requests -> RequestStates]
      /\ request'[Head(queue)] = Idle
      /\ \A q \in Requests \ {Head(queue)} : request'[q] = request[q]
  BY <1>1, <1>2, <1>3, TypeFacts
<1>6. ToSet(queue') = {q \in Requests : request'[q].at = "write"}
  BY <1>1, <1>3, <1>5 DEF Idle
<1> QED
  BY <1>3, <1>4, <1>5, <1>6

\* The file becomes what was written.
LEMMA WriteDoneKeeps ==
  ASSUME IInv, WriteDone
  PROVE  IInv'
<1>1. /\ writing # Null /\ file' = writing /\ lastWriteError' = FALSE
      /\ EndWrite /\ writing' = Null /\ UNCHANGED <<events, reloaded>>
  BY DEF WriteDone, EndWrite
<1>2. queue # <<>> /\ events # Null
  BY <1>1 DEF IInv, Chain
<1>3. /\ queue' \in Seq(Requests) /\ IsInjective(queue')
      /\ Len(queue') = Len(queue) - 1 /\ Len(queue) \in Nat
      /\ request' \in [Requests -> RequestStates]
      /\ \A q \in Requests : request'[q] \in {request[q], Idle}
      /\ ToSet(queue') = {q \in Requests : request'[q].at = "write"}
  BY <1>1, <1>2, EndWriteEffect
<1>4. TypeOK'
  BY <1>1, <1>3 DEF IInv, TypeOK, RequestStates
<1>5. ListsDistinct'
  <2>1. \A q \in Requests : IsInjective(request'[q].found)
    BY <1>3, TypeFacts DEF IInv, ListsDistinct, Idle
  <2> QED
    BY <1>1, <1>3, <2>1 DEF IInv, ListsDistinct, NoDuplicates, Waits
<1>6. Chain'
  BY <1>1, <1>2 DEF IInv, Chain
<1>7. KnownIsSaved'
  <2> SUFFICES ASSUME queue' = <<>>, ~reloaded' PROVE events' = file'
    BY DEF KnownIsSaved
  <2>1. Len(queue) = 1
    BY <1>3
  <2> QED
    BY <1>1, <1>2, <2>1 DEF IInv, Chain
<1> QED
  BY <1>4, <1>5, <1>6, <1>7 DEF IInv

\* A write that failed changes neither memory nor the file.
LEMMA WriteFailsKeeps ==
  ASSUME IInv, WriteFails
  PROVE  IInv'
<1>1. /\ queue # <<>> /\ lastWriteError' = TRUE /\ EndWrite /\ writing' = Null
      /\ UNCHANGED <<events, file, reloaded>>
  BY DEF WriteFails, EndWrite
<1>2. events # Null
  BY <1>1 DEF IInv, Chain
<1>3. /\ queue' \in Seq(Requests) /\ IsInjective(queue')
      /\ request' \in [Requests -> RequestStates]
      /\ \A q \in Requests : request'[q] \in {request[q], Idle}
      /\ ToSet(queue') = {q \in Requests : request'[q].at = "write"}
  BY <1>1, EndWriteEffect
<1>4. TypeOK'
  BY <1>1, <1>3 DEF IInv, TypeOK, RequestStates
<1>5. ListsDistinct'
  <2>1. \A q \in Requests : IsInjective(request'[q].found)
    BY <1>3, TypeFacts DEF IInv, ListsDistinct, Idle
  <2> QED
    BY <1>1, <1>3, <2>1 DEF IInv, ListsDistinct, NoDuplicates, Waits
<1>6. Chain' /\ KnownIsSaved'
  BY <1>1, <1>2 DEF IInv, Chain, KnownIsSaved
<1> QED
  BY <1>4, <1>5, <1>6 DEF IInv

\* A crash leaves the file, and nothing that is read or on its way to it.
LEMMA CrashKeeps ==
  ASSUME IInv, Crash
  PROVE  IInv'
<1>1. /\ events' = Null /\ queue' = <<>> /\ writing' = Null /\ lastWriteError' = FALSE
      /\ request' = [r \in Requests |-> Idle] /\ reloaded' = FALSE /\ file' = file
  BY DEF Crash
<1>2. TypeOK'
  <2>1. queue' \in Seq(Requests) /\ IsInjective(queue')
    BY <1>1, TypeFacts
  <2>2. request' \in [Requests -> RequestStates]
    BY <1>1, TypeFacts
  <2> QED
    BY <1>1, <2>1, <2>2 DEF IInv, TypeOK, RequestStates
<1>3. ListsDistinct'
  <2>1. ToSet(queue') = {r \in Requests : Waits(r, "write")'}
    BY <1>1 DEF Waits, Idle, ToSet
  <2> QED
    BY <1>1, <2>1, TypeFacts DEF IInv, ListsDistinct, NoDuplicates, Idle
<1>4. Chain' /\ KnownIsSaved'
  BY <1>1 DEF Chain, KnownIsSaved, Waits, Idle
<1> QED
  BY <1>2, <1>3, <1>4 DEF IInv

LEMMA StepKeeps == IInv /\ [Next]_vars => IInv'
<1> SUFFICES ASSUME IInv, [Next]_vars PROVE IInv'
  OBVIOUS
<1>1. CASE UNCHANGED vars
  BY <1>1 DEF vars, IInv, TypeOK, ListsDistinct, NoDuplicates, Chain, KnownIsSaved, Waits
<1>2. ASSUME NEW r \in Requests, ReadStep(r) PROVE IInv'
  BY <1>2, OpenKeeps, LoadKeeps, LoadFailsKeeps DEF ReadStep
<1>3. ASSUME NEW r \in Requests, NEW batch \in Batches, Arrive(r, batch) PROVE IInv'
  BY <1>3, ArriveKeeps
<1>4. CASE WriteStep
  BY <1>4, BeginWriteKeeps, WriteDoneKeeps, WriteFailsKeeps DEF WriteStep
<1>5. CASE Crash
  BY <1>5, CrashKeeps
<1> QED
  BY <1>1, <1>2, <1>3, <1>4, <1>5 DEF Next

\* Every reachable state satisfies the invariant.
THEOREM Invariant == Spec => []IInv
<1>1. Init => IInv
  BY InitInvariant
<1>2. IInv /\ [Next]_vars => IInv'
  BY StepKeeps
<1> QED
  BY <1>1, <1>2, PTL DEF Spec

-----------------------------------------------------------------------------
(* What the runs check *)

\* The lists in memory, in the file and on their way have at most MaxEvents events.
THEOREM TypeCorrect == Spec => []TypeOK
<1>1. IInv => TypeOK
  BY DEF IInv
<1> QED
  BY <1>1, Invariant, PTL

\* The same event is never listed twice, and the queue has those that wait for it.
THEOREM NeverTwice == Spec => []NoDuplicates
<1>1. IInv => NoDuplicates
  BY DEF IInv, ListsDistinct
<1> QED
  BY <1>1, Invariant, PTL

\* When the store says healthy and has nothing to write, the file has what memory has.
THEOREM HealthyIsSaved == Spec => []KnownIsSaved
<1>1. IInv => KnownIsSaved
  BY DEF IInv
<1> QED
  BY <1>1, Invariant, PTL

\* The file loses events only to newer ones, whatever overlaps, fails or crashes.
THEOREM NothingSavedIsLost == Spec => SavedStays
<1>1. IInv /\ [Next]_vars =>
        [ToSet(file) \subseteq ToSet(file') \/ Len(file') = MaxEvents \/ reloaded]_vars
  <2> SUFFICES ASSUME IInv, Next
               PROVE  ToSet(file) \subseteq ToSet(file') \/ Len(file') = MaxEvents \/ reloaded
    OBVIOUS
  <2>1. CASE WriteDone
    BY <2>1 DEF WriteDone, IInv, Chain, Covers
  <2>2. CASE file' = file
    BY <2>2
  <2>3. WriteDone \/ file' = file
    BY DEF Next, ReadStep, Open, Load, LoadFails, Arrive, WriteStep, BeginWrite, WriteFails, Crash
  <2> QED
    BY <2>1, <2>2, <2>3
<1> QED
  BY <1>1, Invariant, PTL DEF Spec, SavedStays

=============================================================================
