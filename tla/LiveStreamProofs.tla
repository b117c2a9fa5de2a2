-------------------------- MODULE LiveStreamProofs ---------------------------
(***************************************************************************)
(* Theorems about LiveStream, for every set of consumers, every size of    *)
(* the replay buffer and every bound: what a client receives, and when the *)
(* poller runs.                                                            *)
(*                                                                         *)
(* ReplayExact compares neighbours in what a client received and has on    *)
(* its way; it is not inductive, because it does not say where that ends.  *)
(* Follows says it: the ids on the way are the last ones up to some id,    *)
(* and follow on the one received last; for a client that is connected     *)
(* that id is the newest one there is, which is NothingMissed as well.     *)
(***************************************************************************)
EXTENDS LiveStream, BookkeepingTheorems

USE SizesAssumption

-----------------------------------------------------------------------------
(* The replay buffer *)

\* The newest event that was published: one whose id is given out is not.
Newest == IF publishing = NoId THEN nextId - 1 ELSE nextId - 2

\* The buffer has the newest events, in order.
Recent(ids, newest) ==
  /\ \A i \in 1..Len(ids) : ids[i] = newest - Len(ids) + i
  /\ newest > 0 => Len(ids) > 0

\* How many of the first n ids, which follow on base, are above lastId.
HowMany(base, n, lastId) ==
  IF lastId <= base THEN n ELSE IF lastId >= base + n THEN 0 ELSE base + n - lastId

IsFilter(f, ids, lastId, n) ==
  f = [i \in 0..n |-> IF i = 0 THEN <<>>
                      ELSE IF ids[i] > lastId THEN Append(f[i - 1], ids[i]) ELSE f[i - 1]]

\* The lists the filter makes on its way exist, however long the buffer.
LEMMA FilterExists ==
  ASSUME NEW N \in Nat, NEW ids, \A i \in 1..N : ids[i] \in Nat, NEW lastId \in Int
  PROVE  \E f \in [0..N -> Seq(Nat)] : IsFilter(f, ids, lastId, N)
<1> DEFINE S == {n \in 0..N : \E f \in [0..n -> Seq(Nat)] : IsFilter(f, ids, lastId, n)}
<1>1. 0 \in S
  <2> DEFINE f == [i \in 0..0 |-> <<>>]
  <2>1. f \in [0..0 -> Seq(Nat)] /\ IsFilter(f, ids, lastId, 0)
    BY DEF IsFilter
  <2> QED
    BY <2>1
<1>2. ASSUME NEW n \in 0..N-1, n \in S
      PROVE  n + 1 \in S
  <2>1. PICK f \in [0..n -> Seq(Nat)] : IsFilter(f, ids, lastId, n)
    BY <1>2
  <2>2. PICK last1 : last1 = IF ids[n + 1] > lastId THEN Append(f[n], ids[n + 1]) ELSE f[n]
    OBVIOUS
  <2>3. last1 \in Seq(Nat)
    <3>1. ids[n + 1] \in Nat /\ f[n] \in Seq(Nat)
      OBVIOUS
    <3> QED
      BY <2>2, <3>1
  <2> DEFINE t == [i \in 0..n+1 |-> IF i = n + 1 THEN last1 ELSE f[i]]
  <2>4. t \in [0..n+1 -> Seq(Nat)]
    BY <2>3
  <2>5. ASSUME NEW i \in 0..n+1
        PROVE  t[i] = IF i = 0 THEN <<>>
                      ELSE IF ids[i] > lastId THEN Append(t[i - 1], ids[i]) ELSE t[i - 1]
    <3>1. CASE i = n + 1
      <4>1. t[i] = last1 /\ i # 0 /\ i - 1 = n /\ t[i - 1] = f[n]
        BY <3>1
      <4> QED
        BY <2>2, <3>1, <4>1
    <3>2. CASE i # n + 1
      <4>1. i \in 0..n /\ t[i] = f[i] /\ (i # 0 => t[i - 1] = f[i - 1])
        BY <3>2
      <4>2. f[i] = IF i = 0 THEN <<>>
                   ELSE IF ids[i] > lastId THEN Append(f[i - 1], ids[i]) ELSE f[i - 1]
        BY <4>1, <2>1 DEF IsFilter
      <4> QED
        BY <4>1, <4>2, <3>2
    <3> QED
      BY <3>1, <3>2
  <2>6. IsFilter(t, ids, lastId, n + 1)
    BY <2>4, <2>5 DEF IsFilter
  <2> HIDE DEF t
  <2>7. \E k \in [0..n+1 -> Seq(Nat)] : IsFilter(k, ids, lastId, n + 1)
    BY <2>4, <2>6
  <2> QED
    BY <2>7
<1> HIDE DEF S
<1>3. N \in S
  BY <1>1, <1>2, SetInduction
<1> QED
  BY <1>3 DEF S

\* What the filter has after n ids.
FilterIs(f, base, lastId, n) ==
  LET k == HowMany(base, n, lastId)
  IN  /\ k \in 0..n
      /\ f[n] \in Seq(Nat) /\ Len(f[n]) = k
      /\ \A j \in 1..k : f[n][j] = base + n - k + j

\* Of ids that follow each other the filter keeps the last ones.
LEMMA AboveOfRecent ==
  ASSUME NEW newest \in Nat, NEW ids \in Seq(Nat), Recent(ids, newest), Len(ids) <= newest,
         NEW lastId \in Nat, NEW k, k = HowMany(newest - Len(ids), Len(ids), lastId)
  PROVE  /\ k \in 0..Len(ids)
         /\ Above(ids, lastId) \in Seq(Nat) /\ Len(Above(ids, lastId)) = k
         /\ \A j \in 1..k : Above(ids, lastId)[j] = newest - k + j
<1>1. PICK N, base : N = Len(ids) /\ base = newest - N
  OBVIOUS
<1>2. /\ N \in Nat /\ base \in Nat /\ newest = base + N
      /\ \A i \in 1..N : ids[i] \in Nat /\ ids[i] = base + i
  BY <1>1 DEF Recent
<1> DEFINE f == CHOOSE g : IsFilter(g, ids, lastId, N)
<1>3. IsFilter(f, ids, lastId, N)
  <2>1. lastId \in Int
    OBVIOUS
  <2>2. \E g \in [0..N -> Seq(Nat)] : IsFilter(g, ids, lastId, N)
    BY <1>2, <2>1, FilterExists
  <2> QED
    BY <2>2
<1>4. Above(ids, lastId) = f[N]
  BY <1>1 DEF Above, IsFilter
<1> HIDE DEF f
<1> DEFINE S == {n \in 0..N : FilterIs(f, base, lastId, n)}
<1>5. 0 \in S
  <2>1. f[0] = <<>>
    BY <1>2, <1>3 DEF IsFilter
  <2>2. HowMany(base, 0, lastId) = 0
    BY <1>2 DEF HowMany
  <2>3. FilterIs(f, base, lastId, 0)
    BY <1>2, <2>1, <2>2 DEF FilterIs
  <2> QED
    BY <1>2, <2>3
<1>6. ASSUME NEW n \in 0..N-1, n \in S
      PROVE  n + 1 \in S
  <2>1. PICK g, m : g = f[n] /\ m = HowMany(base, n, lastId)
    OBVIOUS
  <2>2. /\ m \in 0..n /\ g \in Seq(Nat) /\ Len(g) = m
        /\ \A j \in 1..m : g[j] = base + n - m + j
    BY <1>6, <2>1 DEF FilterIs
  <2>3. ids[n + 1] = base + n + 1 /\ n \in Nat /\ m \in Nat
    BY <1>2, <2>2
  <2>4. f[n + 1] = IF ids[n + 1] > lastId THEN Append(g, ids[n + 1]) ELSE g
    <3>1. n + 1 \in 0..N /\ n + 1 # 0 /\ (n + 1) - 1 = n
      BY <1>2
    <3> QED
      BY <1>3, <2>1, <3>1 DEF IsFilter
  <2>5. CASE base + n + 1 > lastId
    <3>1. HowMany(base, n + 1, lastId) = m + 1 /\ m + 1 \in 0..n+1
      BY <1>2, <2>1, <2>2, <2>3, <2>5 DEF HowMany
    <3>2. PICK h, x : h = Append(g, x) /\ x = base + n + 1
      OBVIOUS
    <3>3. x \in Nat
      BY <1>2, <2>3, <3>2
    <3>4. h \in Seq(Nat) /\ Len(h) = m + 1 /\ h[m + 1] = x /\ \A j \in 1..m : h[j] = g[j]
      <4>1. g \in Seq(Nat) /\ Len(g) = m /\ m \in Nat
        BY <2>2, <2>3
      <4> QED
        BY <3>2, <3>3, <4>1
    <3>5. ASSUME NEW j \in 1..m+1
          PROVE  h[j] = base + (n + 1) - (m + 1) + j
      <4>1. CASE j = m + 1
        BY <1>2, <2>3, <3>2, <3>4, <4>1
      <4>2. CASE j # m + 1
        <5>1. j \in 1..m
          BY <2>3, <4>2
        <5>2. h[j] = base + n - m + j
          BY <2>2, <3>4, <5>1
        <5> QED
          BY <1>2, <2>3, <5>2
      <4> QED
        BY <4>1, <4>2
    <3>6. f[n + 1] = h
      BY <2>3, <2>4, <2>5, <3>2
    <3>7. FilterIs(f, base, lastId, n + 1)
      BY <3>1, <3>4, <3>5, <3>6 DEF FilterIs
    <3> QED
      BY <1>2, <3>7
  <2>6. CASE base + n + 1 <= lastId
    <3>1. HowMany(base, n + 1, lastId) = 0 /\ m = 0
      BY <1>2, <2>1, <2>3, <2>6 DEF HowMany
    <3>2. f[n + 1] = g
      BY <1>2, <2>3, <2>4, <2>6
    <3>3. FilterIs(f, base, lastId, n + 1)
      BY <2>2, <2>3, <3>1, <3>2 DEF FilterIs
    <3> QED
      BY <1>2, <3>3
  <2> QED
    BY <1>2, <2>3, <2>5, <2>6
<1> HIDE DEF S
<1>7. N \in S
  <2>1. \A n \in 0..N-1 : n \in S => n + 1 \in S
    BY <1>6
  <2>2. \A n \in 0..N : n \in S
    BY <1>2, <1>5, <2>1, SetInduction
  <2> QED
    BY <1>2, <2>2
<1>8. FilterIs(f, base, lastId, N)
  BY <1>7 DEF S
<1>9. newest = base + N /\ newest - Len(ids) = base
  BY <1>1, <1>2
<1> QED
  BY <1>1, <1>4, <1>8, <1>9 DEF FilterIs
-----------------------------------------------------------------------------
(* What is on its way to a client *)

\* The client received la last; ch is on its way to it, from run r, up to id q.
Follows(ch, la, q, r) ==
  LET n == Len(ch)
  IN  /\ \A i \in 1..n : ch[i].run = r
      /\ \A i \in 2..n : ch[i].id = q - n + i /\ ch[i].id > 0
      /\ n > 0 /\ ch[1].id # NoId => ch[1].id = q - n + 1 /\ (la.run = r => la.id = q - n)
      /\ n > 0 /\ ch[1].id = NoId => n > 1 /\ (la.run = r => la.id + 1 < q - n + 2)
      /\ n = 0 /\ la.run = r => la.id = q

\* The last event is Nothing or an event of a run so far.
Received(la) ==
  \/ la = Nothing
  \/ la \in Frame /\ la.id > 0 /\ la.run <= run /\ (la.run = run => la.id <= Newest)

\* A client that is connected gets the newest event; what is on its way to another
\* is from an earlier run.
ChannelFits(c) ==
  /\ Received(last[c])
  /\ c \in joined => Follows(channel[c], last[c], Newest, run)
  /\ c \notin joined =>
       \/ channel[c] = <<>>
       \/ \E q \in 0..MaxId, r \in 1..run-1 : Follows(channel[c], last[c], q, r)

BufferFits ==
  /\ Recent(buffer, Newest) /\ Len(buffer) <= Newest
  /\ publishing # NoId => publishing = nextId - 1

IInv ==
  /\ TypeOK
  /\ BufferFits
  /\ \A c \in Clients : ChannelFits(c)
  /\ PollsWhileConnected

\* What the invariant says of numbers.
LEMMA Numbers ==
  ASSUME IInv
  PROVE  /\ nextId \in Nat /\ nextId > 0 /\ nextId <= MaxId + 1 /\ run \in Nat
         /\ publishing \in Nat
         /\ Newest \in 0..MaxId /\ Newest < nextId
         /\ buffer \in Seq(1..MaxId) /\ Len(buffer) \in Nat /\ Len(buffer) <= Newest
<1>1. /\ nextId \in Nat /\ nextId > 0 /\ nextId <= MaxId + 1 /\ run \in Nat
      /\ publishing \in 0..MaxId
  BY DEF IInv, TypeOK
<1>2. publishing # NoId => publishing = nextId - 1
  BY DEF IInv, BufferFits
<1>3. Newest \in 0..MaxId /\ Newest < nextId
  BY <1>1, <1>2 DEF Newest, NoId
<1>4. buffer \in Seq(1..MaxId) /\ Len(buffer) <= Newest
  BY DEF IInv, TypeOK, BufferFits
<1> QED
  BY <1>1, <1>3, <1>4

\* An event for each client in j is at the end of what is on its way.
LEMMA FollowsAppend ==
  ASSUME NEW ch \in Seq(Frame), NEW la \in [run : Nat, id : Nat], NEW q \in Nat, NEW r \in Nat,
         Follows(ch, la, q, r), NEW frame \in Frame, frame = [run |-> r, id |-> q + 1]
  PROVE  Append(ch, frame) \in Seq(Frame) /\ Follows(Append(ch, frame), la, q + 1, r)
<1>1. PICK n, new : n = Len(ch) /\ new = Append(ch, frame)
  OBVIOUS
<1>2. n \in Nat /\ new \in Seq(Frame) /\ Len(new) = n + 1 /\ new[n + 1] = frame
  BY <1>1
<1>3. \A i \in 1..n : new[i] = ch[i]
  BY <1>1
<1>4. frame.run = r /\ frame.id = q + 1 /\ frame.id > 0
  OBVIOUS
<1>5. /\ \A i \in 1..n : ch[i].run = r
      /\ \A i \in 2..n : ch[i].id = q - n + i /\ ch[i].id > 0
      /\ n > 0 /\ ch[1].id # NoId => ch[1].id = q - n + 1 /\ (la.run = r => la.id = q - n)
      /\ n > 0 /\ ch[1].id = NoId => n > 1 /\ (la.run = r => la.id + 1 < q - n + 2)
      /\ n = 0 /\ la.run = r => la.id = q
  BY <1>1 DEF Follows
<1>6. \A i \in 1..n+1 : new[i].run = r
  <2>1. ASSUME NEW i \in 1..n+1
        PROVE  new[i].run = r
    <3>1. i \in 1..n \/ i = n + 1
      BY <1>2
    <3> QED
      BY <1>2, <1>3, <1>4, <1>5, <3>1
  <2> QED
    BY <2>1
<1>7. ASSUME NEW i \in 2..n+1
      PROVE  new[i].id = (q + 1) - (n + 1) + i /\ new[i].id > 0
  <2>1. CASE i = n + 1
    BY <1>2, <1>4, <2>1
  <2>2. CASE i # n + 1
    <3>1. i \in 2..n /\ i \in 1..n
      BY <1>2, <2>2
    <3>2. new[i] = ch[i] /\ ch[i].id = q - n + i /\ ch[i].id > 0
      BY <1>3, <1>5, <3>1
    <3> QED
      BY <1>2, <3>2
  <2> QED
    BY <2>1, <2>2
<1>8. CASE n = 0
  <2>1. new[1] = frame /\ new[1].id # NoId
    BY <1>2, <1>4, <1>8 DEF NoId
  <2> QED
    BY <1>1, <1>2, <1>4, <1>5, <1>6, <1>7, <1>8, <2>1 DEF Follows
<1>9. CASE n > 0
  <2>1. new[1] = ch[1]
    BY <1>2, <1>3, <1>9
  <2>2. new[1].id # NoId => new[1].id = (q + 1) - (n + 1) + 1 /\ (la.run = r => la.id = (q + 1) - (n + 1))
    BY <1>2, <1>5, <1>9, <2>1
  <2>3. new[1].id = NoId => n + 1 > 1 /\ (la.run = r => la.id + 1 < (q + 1) - (n + 1) + 2)
    BY <1>2, <1>5, <1>9, <2>1
  <2> QED
    BY <1>1, <1>2, <1>6, <1>7, <1>9, <2>2, <2>3 DEF Follows
<1> QED
  BY <1>2, <1>8, <1>9

\* The client receives the next event, and passes over a comment before it.
LEMMA FollowsReceive ==
  ASSUME NEW ch \in Seq(Frame), NEW la \in [run : Nat, id : Nat], NEW q \in Nat, NEW r \in Nat,
         Follows(ch, la, q, r), ch # <<>>,
         NEW n \in {1, 2}, n = IF IsEvent(Head(ch)) THEN 1 ELSE 2
  PROVE  /\ n <= Len(ch)
         /\ ch[n] \in Frame /\ ch[n].id > 0 /\ ch[n].id <= q /\ ch[n].run = r
         /\ SubSeq(ch, n + 1, Len(ch)) \in Seq(Frame)
         /\ Follows(SubSeq(ch, n + 1, Len(ch)), ch[n], q, r)
<1>1. PICK m, rest : m = Len(ch) /\ rest = SubSeq(ch, n + 1, m)
  OBVIOUS
<1>2. m \in Nat /\ m > 0 /\ \A i \in 1..m : ch[i] \in Frame
  BY <1>1
<1>3. \A i \in 1..m : ch[i].id \in Nat /\ ch[i].run \in Nat
  BY <1>2, SMTT(30) DEF Frame
<1>4. Head(ch) = ch[1] /\ (IsEvent(Head(ch)) <=> ch[1].id # NoId)
  BY <1>1, <1>2 DEF IsEvent
<1>5. /\ \A i \in 1..m : ch[i].run = r
      /\ \A i \in 2..m : ch[i].id = q - m + i /\ ch[i].id > 0
      /\ ch[1].id # NoId => ch[1].id = q - m + 1
      /\ ch[1].id = NoId => m > 1
  BY <1>1, <1>2 DEF Follows
<1>6. n <= m /\ n \in 1..m
  BY <1>2, <1>4, <1>5
<1>7. ch[n].id = q - m + n /\ ch[n].id > 0
  <2>1. CASE n = 1
    <3>1. ch[1].id # NoId
      BY <1>4, <2>1
    <3> QED
      BY <1>2, <1>3, <1>5, <2>1, <3>1 DEF NoId
  <2>2. CASE n = 2
    BY <1>2, <1>5, <1>6, <2>2, SMTT(30)
  <2> QED
    BY <2>1, <2>2
<1>8. rest \in Seq(Frame) /\ Len(rest) = m - n /\ \A i \in 1..m-n : rest[i] = ch[n + i]
  <2>1. PICK from : from = n + 1
    OBVIOUS
  <2>2. from \in 1..Len(ch)+1 /\ m \in from-1..Len(ch)
    BY <1>1, <1>2, <1>6, <2>1
  <2>3. /\ SubSeq(ch, from, m) \in Seq(Frame) /\ Len(SubSeq(ch, from, m)) = m - from + 1
        /\ \A i \in 1..m - from + 1 : SubSeq(ch, from, m)[i] = ch[from + i - 1]
    BY <2>2, SubSeqProperties
  <2>4. m - from + 1 = m - n /\ SubSeq(ch, from, m) = rest
    BY <1>1, <1>2, <1>6, <2>1
  <2>5. ASSUME NEW i \in 1..m-n
        PROVE  rest[i] = ch[n + i]
    <3>1. from + i - 1 = n + i
      BY <1>2, <1>6, <2>1
    <3> QED
      BY <2>3, <2>4, <3>1
  <2> QED
    BY <2>3, <2>4, <2>5
<1>9. ASSUME NEW i \in 1..m-n
      PROVE  rest[i].run = r /\ rest[i].id = q - (m - n) + i /\ rest[i].id > 0
  <2>1. n + i \in 2..m /\ n + i \in 1..m
    BY <1>2, <1>6
  <2>2. ch[n + i].run = r /\ ch[n + i].id = q - m + (n + i) /\ ch[n + i].id > 0
    BY <1>5, <2>1
  <2>3. rest[i] = ch[n + i]
    BY <1>8
  <2>4. q - m + (n + i) = q - (m - n) + i
    BY <1>2, <1>6
  <2> QED
    BY <2>2, <2>3, <2>4
<1>10. Follows(rest, ch[n], q, r)
  <2>1. PICK k : k = m - n
    OBVIOUS
  <2>2. k \in Nat /\ Len(rest) = k /\ ch[n].id = q - k
    BY <1>2, <1>6, <1>7, <1>8, <2>1
  <2>3. \A i \in 1..k : rest[i].run = r /\ rest[i].id = q - k + i /\ rest[i].id > 0
    BY <1>9, <2>1
  <2>4. k > 0 => rest[1].id = q - k + 1 /\ rest[1].id # NoId
    BY <2>2, <2>3 DEF NoId
  <2>5. \A i \in 2..k : i \in 1..k
    BY <2>2
  <2> QED
    BY <2>2, <2>3, <2>4, <2>5 DEF Follows
<1>11. ch[n].id <= q
  BY <1>2, <1>6, <1>7
<1> QED
  BY <1>1, <1>2, <1>5, <1>6, <1>7, <1>8, <1>10, <1>11

\* What Replay writes to a client that received an event of this run, or of another
\* whose id this run has given out.
LEMMA FollowsReplay ==
  ASSUME IInv, NEW la \in Frame, la.id > 0, la.run = run => la.id <= Newest,
         la.id < nextId
  PROVE  Replay(la.id) \in Seq(Frame) /\ Follows(Replay(la.id), la, Newest, run)
<1>1. PICK q, ids, l, n, k, above :
        /\ q = Newest /\ ids = buffer /\ l = la.id /\ n = Len(ids)
        /\ k = HowMany(q - n, n, l) /\ above = Above(ids, l)
  OBVIOUS
<1>2. /\ q \in 0..MaxId /\ ids \in Seq(1..MaxId) /\ n \in Nat /\ n <= q /\ q < nextId /\ nextId \in Nat
      /\ run \in 1..MaxRun /\ l \in Nat /\ l > 0 /\ (la.run = run => l <= q)
  <2>1. run \in 1..MaxRun
    BY DEF IInv, TypeOK
  <2>2. la.id \in Nat
    BY DEF Frame
  <2> QED
    BY <1>1, <2>1, <2>2, Numbers
<1>3. Recent(ids, q)
  BY <1>1 DEF IInv, BufferFits
<1>4. /\ k \in 0..n /\ above \in Seq(Nat) /\ Len(above) = k
      /\ \A j \in 1..k : above[j] = q - k + j
  <2>1. ids \in Seq(Nat) /\ q \in Nat /\ Len(ids) <= q /\ l \in Nat
    BY <1>1, <1>2
  <2>2. k = HowMany(q - Len(ids), Len(ids), l) /\ above = Above(ids, l) /\ n = Len(ids)
    BY <1>1
  <2>3. q \in Nat /\ ids \in Seq(Nat)
    BY <2>1
  <2>4. \A lastId \in Nat : \A m :
          m = HowMany(q - Len(ids), Len(ids), lastId) =>
            /\ m \in 0..Len(ids)
            /\ Above(ids, lastId) \in Seq(Nat) /\ Len(Above(ids, lastId)) = m
            /\ \A j \in 1..m : Above(ids, lastId)[j] = q - m + j
    BY <1>3, <2>1, <2>3, AboveOfRecent, Zenon
  <2>5. /\ k \in 0..Len(ids)
        /\ Above(ids, l) \in Seq(Nat) /\ Len(Above(ids, l)) = k
        /\ \A j \in 1..k : Above(ids, l)[j] = q - k + j
    BY <2>1, <2>2, <2>4, Zenon
  <2> QED
    BY <2>2, <2>5
<1>5. /\ q > 0 => n > 0
      /\ n > 0 => ids # <<>> /\ Head(ids) = q - n + 1
      /\ n = 0 => ids = <<>>
  <2>1. q > 0 => n > 0
    BY <1>1, <1>3 DEF Recent
  <2>2. n > 0 => ids[1] = q - n + 1
    BY <1>1, <1>2, <1>3 DEF Recent
  <2> QED
    BY <1>1, <1>2, <2>1, <2>2
<1>6. \A j \in 1..k : above[j] \in 1..MaxId
  BY <1>2, <1>4
<1>7. CASE n > 0 /\ l < q - n
  <2>1. k = n
    BY <1>1, <1>2, <1>7 DEF HowMany
  <2>2. PICK w, ch : w = <<NoId>> \o above
                     /\ ch = [i \in 1..n+1 |-> [run |-> run, id |-> w[i]]]
    OBVIOUS
  <2>3. Len(w) = n + 1 /\ w[1] = NoId /\ (\A j \in 1..n : w[j + 1] = above[j]) /\ DOMAIN w = 1..n+1
    BY <1>2, <1>4, <2>1, <2>2
  <2>4. Replay(l) = ch
    <3>1. ids # <<>> /\ l < Head(ids) - 1
      BY <1>2, <1>5, <1>7
    <3> QED
      BY <1>1, <2>2, <2>3, <3>1 DEF Replay, Missed
  <2>5. ASSUME NEW i \in 2..n+1
        PROVE  w[i] = q - (n + 1) + i /\ w[i] \in 1..MaxId
    <3>1. i - 1 \in 1..n /\ (i - 1) + 1 = i
      BY <1>2
    <3>2. w[i] = above[i - 1] /\ above[i - 1] = q - n + (i - 1)
      BY <1>4, <2>1, <2>3, <3>1
    <3> QED
      BY <1>2, <1>6, <2>1, <3>1, <3>2
  <2>6. ch \in Seq(Frame) /\ Len(ch) = n + 1
    <3>1. \A i \in 1..n+1 : w[i] \in 0..MaxId
      <4>1. \A i \in 1..n+1 : i = 1 \/ i \in 2..n+1
        BY <1>2
      <4>2. 0 \in 0..MaxId
        BY <1>2
      <4> QED
        BY <1>2, <2>3, <2>5, <4>1, <4>2 DEF NoId
    <3>2. \A i \in 1..n+1 : [run |-> run, id |-> w[i]] \in Frame
      BY <1>2, <3>1 DEF Frame
    <3>3. ch = [i \in 1..n+1 |-> [run |-> run, id |-> w[i]]]
      BY <2>2
    <3>4. ch \in [1..n+1 -> Frame]
      BY <3>2, <3>3
    <3>5. n + 1 \in Nat
      BY <1>2
    <3> QED
      BY <3>4, <3>5
  <2>7. \A i \in 1..n+1 : ch[i].run = run /\ ch[i].id = w[i]
    BY <2>2
  <2>8. ch[1].id = NoId /\ \A i \in 2..n+1 : ch[i].id = q - (n + 1) + i /\ ch[i].id > 0
    <3>1. 1 \in 1..n+1 /\ \A i \in 2..n+1 : i \in 1..n+1
      BY <1>2
    <3>2. ch[1].id = NoId
      BY <2>3, <2>7, <3>1
    <3>3. ASSUME NEW i \in 2..n+1
          PROVE  ch[i].id = q - (n + 1) + i /\ ch[i].id > 0
      <4>1. ch[i].id = w[i]
        BY <2>7, <3>1
      <4>2. w[i] = q - (n + 1) + i /\ w[i] > 0
        BY <1>2, <2>5
      <4> QED
        BY <4>1, <4>2
    <3> QED
      BY <3>2, <3>3
  <2>9. n + 1 > 1 /\ l + 1 < q - (n + 1) + 2 /\ n + 1 > 0
    BY <1>2, <1>7
  <2>10. Follows(ch, la, q, run)
    BY <1>1, <2>6, <2>7, <2>8, <2>9 DEF Follows
  <2> QED
    BY <1>1, <2>4, <2>6, <2>10
<1>8. CASE ~(n > 0 /\ l < q - n)
  <2>1. PICK ch : ch = [i \in 1..k |-> [run |-> run, id |-> above[i]]]
    OBVIOUS
  <2>2. Replay(l) = ch
    <3>1. ~(ids # <<>> /\ l < Head(ids) - 1)
      BY <1>2, <1>5, <1>8
    <3>2. <<>> \o above = above /\ DOMAIN above = 1..k
      BY <1>4
    <3> QED
      BY <1>1, <2>1, <3>1, <3>2 DEF Replay, Missed
  <2>3. ch \in Seq(Frame) /\ Len(ch) = k
    <3>1. \A i \in 1..k : [run |-> run, id |-> above[i]] \in Frame
      BY <1>2, <1>6 DEF Frame
    <3>2. ch \in [1..k -> Frame] /\ k \in Nat
      BY <1>2, <1>4, <2>1, <3>1
    <3> QED
      BY <3>2
  <2>4. \A i \in 1..k : ch[i].run = run /\ ch[i].id = q - k + i /\ ch[i].id > 0
    BY <1>2, <1>4, <1>6, <2>1
  <2>5. la.run = run => l = q - k
    <3>1. CASE la.run = run
      <4>1. l <= q /\ n > 0 /\ l >= q - n
        BY <1>2, <1>5, <1>8, <3>1
      <4>2. k = HowMany(q - n, n, l) /\ q \in Nat
        BY <1>1, <1>2
      <4>3. CASE l = q - n
        BY <1>2, <4>2, <4>3 DEF HowMany
      <4>4. CASE l > q - n /\ l = q
        BY <1>2, <4>1, <4>2, <4>4 DEF HowMany
      <4>5. CASE l > q - n /\ l < q
        BY <1>2, <4>1, <4>2, <4>5 DEF HowMany
      <4> QED
        BY <1>2, <4>1, <4>3, <4>4, <4>5
    <3> QED
      BY <3>1
  <2>6. k > 0 => ch[1].id = q - k + 1 /\ ch[1].id # NoId
    BY <1>4, <1>2, <2>4 DEF NoId
  <2>7. \A i \in 2..k : i \in 1..k
    BY <1>2, <1>4
  <2>8. k = 0 => q - k = q
    BY <1>2, <1>4
  <2>9. Follows(ch, la, q, run)
    BY <1>1, <2>3, <2>4, <2>5, <2>6, <2>7, <2>8 DEF Follows
  <2> QED
    BY <1>1, <2>2, <2>3, <2>9
<1> QED
  BY <1>7, <1>8
-----------------------------------------------------------------------------
(* The steps *)

\* Nothing happens to a client and nothing is published.
LEMMA ClientStays ==
  ASSUME IInv, NEW c \in Clients, run' = run, Newest' = Newest,
         last'[c] = last[c], channel'[c] = channel[c], c \in joined' <=> c \in joined
  PROVE  ChannelFits(c)'
BY DEF IInv, ChannelFits, Received

\* A client has no connection, or an old one through which nothing comes.
LEMMA ClientGone ==
  ASSUME IInv, NEW c \in Clients, run' = run, Newest' = Newest,
         last'[c] = last[c], channel'[c] = <<>>, c \notin joined'
  PROVE  ChannelFits(c)'
BY DEF IInv, ChannelFits, Received

\* The types of what a client has.
LEMMA ClientTypes ==
  ASSUME IInv, NEW c \in Clients
  PROVE  /\ last[c] \in [run : Nat, id : Nat]
         /\ channel[c] \in Seq(Frame)
<1>1. Frame \subseteq [run : Nat, id : Nat]
  BY DEF Frame
<1>2. Nothing \in [run : Nat, id : Nat]
  BY DEF Nothing, NoId
<1>3. last[c] \in Frame \cup {Nothing} /\ channel[c] \in Seq(Frame)
  BY DEF IInv, TypeOK
<1> QED
  BY <1>1, <1>2, <1>3

\* Giving out an id publishes nothing yet.
LEMMA PublishKeeps ==
  ASSUME IInv, Publish
  PROVE  /\ Newest' = Newest
         /\ nextId' \in 1..MaxId + 1 /\ publishing' \in 0..MaxId
         /\ publishing' # NoId => publishing' = nextId' - 1
<1>1. /\ nextId \in 1..MaxId + 1 /\ publishing \in 0..MaxId
      /\ publishing # NoId => publishing = nextId - 1
  BY DEF IInv, TypeOK, BufferFits
<1>2. CASE publishing = NoId /\ nextId <= MaxId
  <2>1. publishing' = nextId /\ nextId' = nextId + 1
    BY <1>2 DEF Publish
  <2> QED
    BY <1>1, <1>2, <2>1 DEF Newest, NoId
<1>3. CASE ~(publishing = NoId /\ nextId <= MaxId)
  <2>1. publishing' = publishing /\ nextId' = nextId
    BY <1>3 DEF Publish
  <2> QED
    BY <1>1, <2>1 DEF Newest
<1> QED
  BY <1>2, <1>3

LEMMA TickInv ==
  ASSUME IInv, Tick
  PROVE  IInv'
<1>1. Publish /\ UNCHANGED <<run, buffer, polling, joined, stale, listening, source, last, channel>>
  BY DEF Tick, clients
<1>2. /\ Newest' = Newest
      /\ nextId' \in 1..MaxId + 1 /\ publishing' \in 0..MaxId
      /\ publishing' # NoId => publishing' = nextId' - 1
  BY <1>1, PublishKeeps
<1>3. TypeOK'
  BY <1>1, <1>2 DEF IInv, TypeOK
<1>4. BufferFits'
  BY <1>1, <1>2 DEF IInv, BufferFits, Recent
<1>5. \A c \in Clients : ChannelFits(c)'
  BY <1>1, <1>2, ClientStays
<1>6. PollsWhileConnected'
  BY <1>1 DEF IInv, PollsWhileConnected
<1> QED
  BY <1>3, <1>4, <1>5, <1>6 DEF IInv

\* A buffer with one more event, cut to its size, has the newest events.
LEMMA KeptRecent ==
  ASSUME NEW ids \in Seq(1..MaxId), NEW newest \in Nat, newest + 1 <= MaxId,
         Recent(ids, newest), Len(ids) <= newest, Len(ids) <= BufferSize,
         NEW id, id = newest + 1
  PROVE  LET new == Kept(Append(ids, id))
         IN  /\ new \in Seq(1..MaxId) /\ Len(new) <= BufferSize
             /\ Recent(new, newest + 1) /\ Len(new) <= newest + 1
<1>1. PICK n, all : n = Len(ids) /\ all = Append(ids, id)
  OBVIOUS
<1>2. n \in Nat /\ id \in 1..MaxId
  BY <1>1
<1>3. all \in Seq(1..MaxId) /\ Len(all) = n + 1 /\ all[n + 1] = id /\ \A i \in 1..n : all[i] = ids[i]
  BY <1>1, <1>2
<1>4. ASSUME NEW i \in 1..n+1
      PROVE  all[i] = newest - n + i
  <2>1. CASE i = n + 1
    BY <1>2, <1>3, <2>1
  <2>2. CASE i # n + 1
    <3>1. i \in 1..n
      BY <1>2, <2>2
    <3> QED
      BY <1>1, <1>3, <3>1 DEF Recent
  <2> QED
    BY <2>1, <2>2
<1>5. CASE n + 1 <= BufferSize
  <2>1. Kept(all) = all
    BY <1>2, <1>3, <1>5 DEF Kept
  <2>2. Recent(all, newest + 1)
    <3>1. \A i \in 1..n+1 : all[i] = (newest + 1) - (n + 1) + i
      BY <1>2, <1>4
    <3> QED
      BY <1>2, <1>3, <3>1 DEF Recent
  <2>3. Len(all) <= newest + 1
    BY <1>1, <1>2, <1>3
  <2> QED
    BY <1>1, <1>3, <1>5, <2>1, <2>2, <2>3
<1>6. CASE n + 1 > BufferSize
  <2>1. PICK rest : rest = Tail(all)
    OBVIOUS
  <2>2. Kept(all) = rest /\ n = BufferSize /\ n > 0
    BY <1>1, <1>2, <1>3, <1>6, <2>1 DEF Kept
  <2>3. rest \in Seq(1..MaxId) /\ Len(rest) = n /\ \A i \in 1..n : rest[i] = all[i + 1]
    BY <1>2, <1>3, <2>1
  <2>4. ASSUME NEW i \in 1..n
        PROVE  rest[i] = (newest + 1) - n + i
    <3>1. i + 1 \in 1..n+1
      BY <1>2
    <3>2. all[i + 1] = newest - n + (i + 1)
      BY <1>4, <3>1
    <3> QED
      BY <1>2, <2>3, <3>2
  <2>5. Recent(rest, newest + 1)
    BY <2>2, <2>3, <2>4 DEF Recent
  <2>6. n <= newest + 1
    BY <1>1, <1>2
  <2> QED
    BY <1>1, <2>2, <2>3, <2>5, <2>6
<1> QED
  BY <1>2, <1>5, <1>6

LEMMA PublishedInv ==
  ASSUME IInv, Published
  PROVE  IInv'
<1>1. /\ publishing # NoId /\ publishing' = NoId /\ nextId' = nextId /\ run' = run
      /\ buffer' = Kept(Append(buffer, publishing))
      /\ channel' = [c \in Clients |->
           IF c \in joined THEN Append(channel[c], [run |-> run, id |-> publishing])
           ELSE channel[c]]
      /\ UNCHANGED <<polling, joined, stale, listening, source, last>>
  BY DEF Published
<1>2. PICK q : q = Newest
  OBVIOUS
<1>3. /\ publishing = q + 1 /\ Newest' = q + 1 /\ q \in Nat /\ q + 1 <= MaxId /\ q + 1 > 0
  <2>1. /\ nextId \in 1..MaxId + 1 /\ publishing = nextId - 1 /\ publishing \in 0..MaxId
    BY <1>1 DEF IInv, TypeOK, BufferFits
  <2> QED
    BY <1>1, <1>2, <2>1 DEF Newest, NoId
<1>4. /\ buffer' \in Seq(1..MaxId) /\ Len(buffer') <= BufferSize
      /\ Recent(buffer', q + 1) /\ Len(buffer') <= q + 1
  <2>1. PICK ids, id : ids = buffer /\ id = publishing
    OBVIOUS
  <2>2. ids \in Seq(1..MaxId) /\ Len(ids) <= BufferSize /\ Recent(ids, q) /\ Len(ids) <= q
    BY <1>2, <2>1 DEF IInv, TypeOK, BufferFits
  <2>3. LET new == Kept(Append(ids, id))
        IN  /\ new \in Seq(1..MaxId) /\ Len(new) <= BufferSize
            /\ Recent(new, q + 1) /\ Len(new) <= q + 1
    BY <1>3, <2>1, <2>2, KeptRecent
  <2> QED
    BY <1>1, <2>1, <2>3
<1>5. PICK frame : frame = [run |-> run, id |-> publishing]
  OBVIOUS
<1>6. frame \in Frame /\ frame = [run |-> run, id |-> q + 1] /\ run \in 1..MaxRun
  <2>1. run \in 1..MaxRun
    BY DEF IInv, TypeOK
  <2> QED
    BY <1>3, <1>5, <2>1 DEF Frame
<1>7. ASSUME NEW c \in Clients
      PROVE  ChannelFits(c)' /\ channel'[c] \in Seq(Frame)
  <2>1. Received(last[c]) /\ last'[c] = last[c]
    BY <1>1 DEF IInv, ChannelFits
  <2>2. Received(last[c])'
    <3>1. CASE last[c] = Nothing
      BY <2>1, <3>1 DEF Received
    <3>2. CASE last[c] # Nothing
      <4>1. last[c].id \in Nat
        BY <2>1, <3>2 DEF Received, Frame
      <4> QED
        BY <1>1, <1>2, <1>3, <2>1, <3>2, <4>1 DEF Received
    <3> QED
      BY <3>1, <3>2
  <2>3. CASE c \in joined
    <3>1. PICK ch, la : ch = channel[c] /\ la = last[c]
      OBVIOUS
    <3>2. ch \in Seq(Frame) /\ la \in [run : Nat, id : Nat] /\ Follows(ch, la, q, run) /\ run \in Nat
      BY <1>2, <1>6, <2>3, <3>1, ClientTypes DEF IInv, ChannelFits
    <3>3. Append(ch, frame) \in Seq(Frame) /\ Follows(Append(ch, frame), la, q + 1, run)
      BY <1>3, <1>6, <3>2, FollowsAppend
    <3>4. channel'[c] = Append(ch, frame)
      BY <1>1, <1>5, <2>3, <3>1
    <3> QED
      BY <1>1, <1>3, <2>1, <2>2, <2>3, <3>1, <3>3, <3>4 DEF ChannelFits
  <2>4. CASE c \notin joined
    <3>1. channel'[c] = channel[c]
      BY <1>1, <2>4
    <3>2. channel[c] \in Seq(Frame)
      BY ClientTypes
    <3> QED
      BY <1>1, <2>1, <2>2, <2>4, <3>1, <3>2 DEF ChannelFits, IInv
  <2> QED
    BY <2>3, <2>4
<1>8. channel' \in [Clients -> Seq(Frame)]
  BY <1>1, <1>7
<1>9. TypeOK'
  BY <1>1, <1>3, <1>4, <1>8 DEF IInv, TypeOK, NoId
<1>10. BufferFits'
  BY <1>1, <1>3, <1>4 DEF BufferFits
<1>11. PollsWhileConnected'
  BY <1>1 DEF IInv, PollsWhileConnected
<1> QED
  BY <1>7, <1>9, <1>10, <1>11 DEF IInv
LEMMA CloseSeenInv ==
  ASSUME IInv, CloseSeen
  PROVE  IInv'
<1>1. /\ stale > 0 /\ stale' = stale - 1 /\ polling' = (polling /\ (joined # {} \/ stale' # 0))
      /\ UNCHANGED <<run, nextId, publishing, buffer, joined, listening, source, last, channel>>
  BY DEF CloseSeen, StopPollingIfIdle, clients
<1>2. stale \in 0..MaxStale /\ stale' \in 0..MaxStale
  BY <1>1 DEF IInv, TypeOK
<1>3. Newest' = Newest
  BY <1>1 DEF Newest
<1>4. polling' \in BOOLEAN
  BY <1>1
<1>5. TypeOK'
  BY <1>1, <1>2, <1>4 DEF IInv, TypeOK
<1>6. BufferFits'
  BY <1>1, <1>3 DEF IInv, BufferFits
<1>7. \A c \in Clients : ChannelFits(c)'
  BY <1>1, <1>3, ClientStays
<1>8. PollsWhileConnected'
  <2>1. polling <=> joined # {} \/ stale > 0
    BY DEF IInv, PollsWhileConnected
  <2>2. stale' # 0 <=> stale' > 0
    BY <1>2
  <2>3. polling
    BY <1>1, <2>1
  <2>4. polling' <=> joined' # {} \/ stale' > 0
    BY <1>1, <2>2, <2>3
  <2> QED
    BY <2>4 DEF PollsWhileConnected
<1> QED
  BY <1>5, <1>6, <1>7, <1>8 DEF IInv

LEMMA RestartInv ==
  ASSUME IInv, Restart
  PROVE  IInv'
<1>1. /\ run < MaxRun /\ run' = run + 1 /\ nextId' = 1 /\ publishing' = NoId /\ buffer' = <<>>
      /\ polling' = FALSE /\ joined' = {} /\ stale' = 0
      /\ UNCHANGED <<listening, source, last, channel>>
  BY DEF Restart, clients
<1>2. run \in 1..MaxRun /\ run' \in 1..MaxRun
  BY <1>1 DEF IInv, TypeOK
<1>3. Newest' = 0 /\ Newest \in 0..MaxId
  BY <1>1, Numbers DEF Newest
<1>4. TypeOK'
  <2>1. nextId' \in 1..MaxId + 1 /\ publishing' \in 0..MaxId /\ stale' \in 0..MaxStale
    BY <1>1 DEF NoId
  <2>2. buffer' \in Seq(1..MaxId) /\ Len(buffer') <= BufferSize /\ polling' \in BOOLEAN
    <3>1. <<>> \in Seq(1..MaxId) /\ Len(<<>>) <= BufferSize
      OBVIOUS
    <3>2. buffer' = <<>> /\ polling' = FALSE
      BY <1>1
    <3> QED
      BY <3>1, <3>2, Zenon
  <2>3. /\ joined' \subseteq Clients
        /\ listening' \in [Clients -> BOOLEAN]
        /\ source' \in [Clients -> {"none", "waiting", "connecting", "open"}]
        /\ last' \in [Clients -> Frame \cup {Nothing}]
        /\ channel' \in [Clients -> Seq(Frame)]
    BY <1>1 DEF IInv, TypeOK
  <2> QED
    BY <1>2, <2>1, <2>2, <2>3 DEF TypeOK
<1>5. BufferFits'
  BY <1>1, <1>3 DEF BufferFits, Recent
<1>6. ASSUME NEW c \in Clients
      PROVE  ChannelFits(c)'
  <2>1. Received(last[c])
    BY DEF IInv, ChannelFits
  <2>2. Received(last[c])'
    <3>1. CASE last[c] = Nothing
      BY <1>1, <3>1 DEF Received
    <3>2. CASE last[c] # Nothing
      <4>1. last[c].run \in Nat /\ last[c] \in Frame /\ last[c].id > 0 /\ last[c].run <= run
        BY <2>1, <3>2 DEF Received, Frame
      <4>2. last[c].run # run' /\ last[c].run <= run'
        BY <1>1, <1>2, <4>1
      <4> QED
        BY <1>1, <4>1, <4>2 DEF Received
    <3> QED
      BY <3>1, <3>2
  <2>3. \/ channel[c] = <<>>
        \/ \E q \in 0..MaxId, r \in 1..run : Follows(channel[c], last[c], q, r)
    <3>1. run \in 1..run /\ 1..run-1 \subseteq 1..run
      BY <1>2
    <3> QED
      BY <1>3, <3>1 DEF IInv, ChannelFits
  <2>4. run = run' - 1
    BY <1>1, <1>2
  <2> QED
    BY <1>1, <2>2, <2>3, <2>4 DEF ChannelFits
<1>7. PollsWhileConnected'
  BY <1>1 DEF PollsWhileConnected
<1> QED
  BY <1>4, <1>5, <1>6, <1>7 DEF IInv

LEMMA JoinInv ==
  ASSUME IInv, NEW c \in Clients, Join(c)
  PROVE  IInv'
<1>1. PICK la : la = last[c]
  OBVIOUS
<1>2. PICK fresh : fresh = (la.id = NoId \/ la.id >= nextId)
  OBVIOUS
<1>3. /\ source' = [source EXCEPT ![c] = "open"]
      /\ channel' = [channel EXCEPT ![c] = IF fresh THEN <<>> ELSE Replay(la.id)]
      /\ joined' = joined \cup {c} /\ polling' = TRUE
      /\ IF fresh THEN Publish ELSE UNCHANGED <<publishing, nextId>>
      /\ UNCHANGED <<run, buffer, stale, listening, last>>
  BY <1>1, <1>2 DEF Join
<1>4. /\ Newest' = Newest
      /\ nextId' \in 1..MaxId + 1 /\ publishing' \in 0..MaxId
      /\ publishing' # NoId => publishing' = nextId' - 1
  <2>1. CASE fresh
    BY <1>3, <2>1, PublishKeeps
  <2>2. CASE ~fresh
    BY <1>3, <2>2 DEF Newest, IInv, TypeOK, BufferFits
  <2> QED
    BY <2>1, <2>2
<1>5. Received(la) /\ la \in [run : Nat, id : Nat] /\ nextId \in Nat /\ run \in 1..MaxRun
      /\ Newest \in 0..MaxId /\ Newest < nextId
  BY <1>1, ClientTypes, Numbers DEF IInv, ChannelFits, TypeOK
<1>6. channel'[c] \in Seq(Frame) /\ Follows(channel'[c], la, Newest, run)
  <2>1. channel'[c] = IF fresh THEN <<>> ELSE Replay(la.id)
    BY <1>3 DEF IInv, TypeOK
  <2>2. CASE fresh
    <3>1. la.run # run
      <4>1. CASE la = Nothing
        BY <1>5, <4>1 DEF Nothing
      <4>2. CASE la # Nothing
        <5>1. la.id > 0 /\ la.id # NoId /\ (la.run = run => la.id <= Newest)
          BY <1>5, <4>2 DEF Received, NoId
        <5>2. la.id >= nextId
          BY <1>2, <2>2, <5>1
        <5> QED
          BY <1>5, <5>1, <5>2
      <4> QED
        BY <4>1, <4>2
    <3>2. channel'[c] = <<>> /\ <<>> \in Seq(Frame)
      BY <2>1, <2>2
    <3> QED
      BY <3>1, <3>2 DEF Follows
  <2>3. CASE ~fresh
    <3>1. la.id # NoId /\ la.id < nextId
      <4>1. la.id # NoId /\ ~(la.id >= nextId)
        BY <1>2, <2>3, Zenon
      <4>2. la.id \in Nat /\ nextId \in Nat
        BY <1>5
      <4> QED
        BY <4>1, <4>2
    <3>2. la # Nothing
      BY <3>1 DEF Nothing
    <3>3. la \in Frame /\ la.id > 0 /\ (la.run = run => la.id <= Newest)
      BY <1>5, <3>2 DEF Received
    <3> QED
      BY <2>1, <2>3, <3>1, <3>3, FollowsReplay
  <2> QED
    BY <2>2, <2>3
<1>7. TypeOK'
  <2>1. channel' \in [Clients -> Seq(Frame)]
    BY <1>3, <1>6 DEF IInv, TypeOK
  <2>2. source' \in [Clients -> {"none", "waiting", "connecting", "open"}]
    BY <1>3 DEF IInv, TypeOK
  <2> QED
    BY <1>3, <1>4, <2>1, <2>2 DEF IInv, TypeOK
<1>8. BufferFits'
  BY <1>3, <1>4 DEF IInv, BufferFits
<1>9. ASSUME NEW d \in Clients
      PROVE  ChannelFits(d)'
  <2>1. CASE d = c
    <3>1. Received(la)'
      BY <1>3, <1>4, <1>5 DEF Received
    <3> QED
      BY <1>1, <1>3, <1>4, <1>6, <2>1, <3>1 DEF ChannelFits
  <2>2. CASE d # c
    <3>1. channel'[d] = channel[d] /\ last'[d] = last[d] /\ (d \in joined' <=> d \in joined)
      BY <1>3, <2>2 DEF IInv, TypeOK
    <3> QED
      BY <1>3, <1>4, <3>1, ClientStays
  <2> QED
    BY <2>1, <2>2
<1>10. PollsWhileConnected'
  BY <1>3 DEF PollsWhileConnected
<1> QED
  BY <1>7, <1>8, <1>9, <1>10 DEF IInv

LEMMA ReceiveInv ==
  ASSUME IInv, NEW c \in Clients, Receive(c)
  PROVE  IInv'
<1>1. PICK ch, la : ch = channel[c] /\ la = last[c]
  OBVIOUS
<1>2. PICK n \in {1, 2} : n = IF IsEvent(Head(ch)) THEN 1 ELSE 2
  OBVIOUS
<1>3. /\ source[c] = "open" /\ ch # <<>>
      /\ last' = [last EXCEPT ![c] = ch[n]]
      /\ channel' = [channel EXCEPT ![c] = SubSeq(ch, n + 1, Len(ch))]
      /\ UNCHANGED <<run, nextId, publishing, buffer, polling, joined, stale, listening, source>>
  BY <1>1, <1>2 DEF Receive, server
<1>4. Newest' = Newest
  BY <1>3 DEF Newest
<1>5. ch \in Seq(Frame) /\ la \in [run : Nat, id : Nat]
  BY <1>1, ClientTypes
<1>6. run \in Nat /\ Newest \in Nat
  BY Numbers
<1>7. \A q \in Nat, r \in Nat : Follows(ch, la, q, r) =>
        /\ n <= Len(ch)
        /\ ch[n] \in Frame /\ ch[n].id > 0 /\ ch[n].id <= q /\ ch[n].run = r
        /\ SubSeq(ch, n + 1, Len(ch)) \in Seq(Frame)
        /\ Follows(SubSeq(ch, n + 1, Len(ch)), ch[n], q, r)
  BY <1>2, <1>3, <1>5, FollowsReceive
<1>8. PICK rest, next : rest = SubSeq(ch, n + 1, Len(ch)) /\ next = ch[n]
  OBVIOUS
<1>9. last'[c] = next /\ channel'[c] = rest
  BY <1>3, <1>8 DEF IInv, TypeOK
<1>10. next \in Frame /\ rest \in Seq(Frame) /\ ChannelFits(c)'
  <2>1. CASE c \in joined
    <3>1. Follows(ch, la, Newest, run)
      BY <1>1, <2>1 DEF IInv, ChannelFits
    <3>2. /\ next \in Frame /\ next.id > 0 /\ next.id <= Newest /\ next.run = run
          /\ rest \in Seq(Frame) /\ Follows(rest, next, Newest, run)
      BY <1>6, <1>7, <1>8, <3>1
    <3>3. next.run <= run
      BY <1>6, <3>2
    <3> QED
      BY <1>3, <1>4, <1>9, <2>1, <3>2, <3>3 DEF ChannelFits, Received
  <2>2. CASE c \notin joined
    <3>1. PICK q \in 0..MaxId, r \in 1..run-1 : Follows(ch, la, q, r)
      BY <1>1, <1>3, <2>2 DEF IInv, ChannelFits
    <3>2. q \in Nat /\ r \in Nat
      BY <1>6
    <3>3. /\ next \in Frame /\ next.id > 0 /\ next.run = r
          /\ rest \in Seq(Frame) /\ Follows(rest, next, q, r)
      BY <1>7, <1>8, <3>1, <3>2
    <3>4. next.run <= run /\ next.run # run
      BY <1>6, <3>3
    <3> QED
      BY <1>3, <1>4, <1>9, <2>2, <3>3, <3>4 DEF ChannelFits, Received
  <2> QED
    BY <2>1, <2>2
<1>11. TypeOK'
  <2>1. last' \in [Clients -> Frame \cup {Nothing}] /\ channel' \in [Clients -> Seq(Frame)]
    BY <1>3, <1>8, <1>10 DEF IInv, TypeOK
  <2> QED
    BY <1>3, <2>1 DEF IInv, TypeOK
<1>12. BufferFits'
  BY <1>3, <1>4 DEF IInv, BufferFits
<1>13. ASSUME NEW d \in Clients
       PROVE  ChannelFits(d)'
  <2>1. CASE d = c
    BY <1>10, <2>1
  <2>2. CASE d # c
    <3>1. channel'[d] = channel[d] /\ last'[d] = last[d]
      BY <1>3, <2>2 DEF IInv, TypeOK
    <3> QED
      BY <1>3, <1>4, <3>1, ClientStays
  <2> QED
    BY <2>1, <2>2
<1>14. PollsWhileConnected'
  BY <1>3 DEF IInv, PollsWhileConnected
<1> QED
  BY <1>11, <1>12, <1>13, <1>14 DEF IInv

\* A connection is gone.
LEMMA LeaveInv ==
  ASSUME IInv, NEW c \in Clients, Leave(c),
         listening' \in [Clients -> BOOLEAN],
         source' \in [Clients -> {"none", "waiting", "connecting", "open"}],
         UNCHANGED <<run, nextId, publishing, buffer, polling, last>>
  PROVE  IInv'
<1>1. /\ channel' = [channel EXCEPT ![c] = <<>>] /\ joined' = joined \ {c}
      /\ IF c \in joined THEN stale < MaxStale /\ stale' = stale + 1 ELSE stale' = stale
  BY DEF Leave
<1>2. Newest' = Newest
  BY DEF Newest
<1>3. stale \in 0..MaxStale /\ stale' \in 0..MaxStale
  BY <1>1 DEF IInv, TypeOK
<1>4. channel' \in [Clients -> Seq(Frame)]
  BY <1>1 DEF IInv, TypeOK
<1>5. TypeOK'
  BY <1>1, <1>3, <1>4 DEF IInv, TypeOK
<1>6. BufferFits'
  BY <1>2 DEF IInv, BufferFits
<1>7. ASSUME NEW d \in Clients
      PROVE  ChannelFits(d)'
  <2>1. CASE d = c
    <3>1. channel'[c] = <<>> /\ c \notin joined' /\ last'[c] = last[c]
      BY <1>1 DEF IInv, TypeOK
    <3> QED
      BY <1>2, <2>1, <3>1, ClientGone
  <2>2. CASE d # c
    <3>1. channel'[d] = channel[d] /\ last'[d] = last[d] /\ (d \in joined' <=> d \in joined)
      BY <1>1, <2>2 DEF IInv, TypeOK
    <3> QED
      BY <1>2, <3>1, ClientStays
  <2> QED
    BY <2>1, <2>2
<1>8. PollsWhileConnected'
  <2>1. polling <=> joined # {} \/ stale > 0
    BY DEF IInv, PollsWhileConnected
  <2>2. CASE c \in joined
    <3>1. polling /\ stale' > 0
      BY <1>1, <1>3, <2>1, <2>2
    <3> QED
      BY <3>1 DEF PollsWhileConnected
  <2>3. CASE c \notin joined
    <3>1. joined' = joined /\ stale' = stale
      BY <1>1, <2>3
    <3> QED
      BY <2>1, <3>1 DEF PollsWhileConnected
  <2> QED
    BY <2>2, <2>3
<1> QED
  BY <1>5, <1>6, <1>7, <1>8 DEF IInv

\* Only what a client waits for changes.
LEMMA SourceInv ==
  ASSUME IInv, UNCHANGED server, UNCHANGED <<last, channel>>,
         listening' \in [Clients -> BOOLEAN],
         source' \in [Clients -> {"none", "waiting", "connecting", "open"}]
  PROVE  IInv'
<1>1. UNCHANGED <<run, nextId, publishing, buffer, polling, joined, stale, last, channel>>
  BY DEF server
<1>2. Newest' = Newest
  BY <1>1 DEF Newest
<1>3. TypeOK'
  BY <1>1 DEF IInv, TypeOK
<1>4. BufferFits' /\ PollsWhileConnected'
  BY <1>1, <1>2 DEF IInv, BufferFits, PollsWhileConnected
<1>5. \A c \in Clients : ChannelFits(c)'
  BY <1>1, <1>2, ClientStays
<1> QED
  BY <1>3, <1>4, <1>5 DEF IInv

LEMMA ClientInv ==
  ASSUME IInv, NEW c \in Clients,
         Subscribe(c) \/ Unsubscribe(c) \/ OnError(c) \/ Reconnect(c)
  PROVE  IInv'
<1>1. /\ listening \in [Clients -> BOOLEAN]
      /\ source \in [Clients -> {"none", "waiting", "connecting", "open"}]
  BY DEF IInv, TypeOK
<1>2. CASE Subscribe(c) \/ Reconnect(c)
  <2>1. /\ UNCHANGED server /\ UNCHANGED <<last, channel>>
        /\ listening' \in [Clients -> BOOLEAN]
        /\ source' \in [Clients -> {"none", "waiting", "connecting", "open"}]
    BY <1>1, <1>2 DEF Subscribe, Reconnect
  <2> QED
    BY <2>1, SourceInv
<1>3. CASE Unsubscribe(c) \/ OnError(c)
  <2>1. /\ Leave(c) /\ UNCHANGED <<run, nextId, publishing, buffer, polling, last>>
        /\ listening' \in [Clients -> BOOLEAN]
        /\ source' \in [Clients -> {"none", "waiting", "connecting", "open"}]
    BY <1>1, <1>3 DEF Unsubscribe, OnError
  <2> QED
    BY <2>1, LeaveInv
<1> QED
  BY <1>2, <1>3

-----------------------------------------------------------------------------
(* The invariant *)

LEMMA InitInv == Init => IInv
<1> SUFFICES ASSUME Init
             PROVE  IInv
  OBVIOUS
<1>1. TypeOK
  <2>1. /\ run \in 1..MaxRun /\ nextId \in 1..MaxId + 1 /\ publishing \in 0..MaxId
        /\ stale \in 0..MaxStale
    BY DEF Init, NoId
  <2>2. buffer \in Seq(1..MaxId) /\ Len(buffer) <= BufferSize
    BY DEF Init
  <2>3. polling \in BOOLEAN /\ joined \subseteq Clients
    BY DEF Init
  <2>4. /\ listening \in [Clients -> BOOLEAN]
        /\ source \in [Clients -> {"none", "waiting", "connecting", "open"}]
        /\ last \in [Clients -> Frame \cup {Nothing}]
        /\ channel \in [Clients -> Seq(Frame)]
    BY DEF Init
  <2> QED
    BY <2>1, <2>2, <2>3, <2>4 DEF TypeOK
<1>2. Newest = 0
  BY DEF Init, Newest
<1>3. BufferFits
  BY <1>2 DEF Init, BufferFits, Recent
<1>4. ASSUME NEW c \in Clients
      PROVE  ChannelFits(c)
  BY DEF Init, ChannelFits, Received
<1>5. PollsWhileConnected
  BY DEF Init, PollsWhileConnected
<1> QED
  BY <1>1, <1>3, <1>4, <1>5 DEF IInv

LEMMA StepInv == IInv /\ [Next]_vars => IInv'
<1> SUFFICES ASSUME IInv, [Next]_vars
             PROVE  IInv'
  OBVIOUS
<1>1. CASE Tick
  BY <1>1, TickInv
<1>2. CASE Published
  BY <1>2, PublishedInv
<1>3. CASE CloseSeen
  BY <1>3, CloseSeenInv
<1>4. CASE Restart
  BY <1>4, RestartInv
<1>5. ASSUME NEW c \in Clients, Join(c)
      PROVE  IInv'
  BY <1>5, JoinInv
<1>6. ASSUME NEW c \in Clients, Receive(c)
      PROVE  IInv'
  BY <1>6, ReceiveInv
<1>7. ASSUME NEW c \in Clients, Subscribe(c) \/ Unsubscribe(c) \/ OnError(c) \/ Reconnect(c)
      PROVE  IInv'
  BY <1>7, ClientInv
<1>8. CASE UNCHANGED vars
  <2>1. UNCHANGED server /\ UNCHANGED <<listening, source, last, channel>>
    BY <1>8 DEF vars, clients
  <2>2. /\ listening' \in [Clients -> BOOLEAN]
        /\ source' \in [Clients -> {"none", "waiting", "connecting", "open"}]
    BY <2>1 DEF IInv, TypeOK
  <2> QED
    BY <2>1, <2>2, SourceInv
<1> QED
  BY <1>1, <1>2, <1>3, <1>4, <1>5, <1>6, <1>7, <1>8 DEF Next

LEMMA Invariance == Spec => []IInv
BY InitInv, StepInv, PTL DEF Spec

\* Every variable keeps its type: the buffer stays within its size.
THEOREM TypeCorrect == Spec => []TypeOK
<1>1. IInv => TypeOK
  BY DEF IInv
<1> QED
  BY <1>1, Invariance, PTL

\* The poller runs exactly while the server has a connection.
THEOREM PollerRuns == Spec => []PollsWhileConnected
<1>1. IInv => PollsWhileConnected
  BY DEF IInv
<1> QED
  BY <1>1, Invariance, PTL

\* What follows a frame in what a client received and has on its way.
LEMMA InvReplayExact == IInv => ReplayExact
<1> SUFFICES ASSUME IInv, NEW c \in Clients
             PROVE  \A i \in 2..Len(Stream(c)) :
                      LET this   == Stream(c)[i]
                          gap    == ~IsEvent(Stream(c)[i - 1]) /\ i > 2
                          before == IF gap THEN Stream(c)[i - 2] ELSE Stream(c)[i - 1]
                      IN  IsEvent(this) /\ this.run = before.run
                            => IF gap THEN this.id > before.id + 1 ELSE this.id = before.id + 1
  BY DEF ReplayExact
<1>1. PICK ch, la, n : ch = channel[c] /\ la = last[c] /\ n = Len(ch)
  OBVIOUS
<1>2. /\ ch \in Seq(Frame) /\ la \in [run : Nat, id : Nat] /\ n \in Nat
      /\ \A i \in 1..n : ch[i] \in Frame /\ ch[i].id \in Nat
  <2>1. ch \in Seq(Frame) /\ la \in [run : Nat, id : Nat]
    BY <1>1, ClientTypes
  <2>2. n \in Nat /\ \A i \in 1..n : ch[i] \in Frame
    BY <1>1, <2>1
  <2>3. \A f \in Frame : f.id \in Nat
    BY DEF Frame
  <2> QED
    BY <2>1, <2>2, <2>3
<1>3. CASE n = 0
  <2>1. Stream(c) = <<la>> \o ch /\ Len(ch) = 0
    BY <1>1, <1>3 DEF Stream
  <2>2. Len(Stream(c)) = 1
    BY <1>2, <2>1
  <2>3. 2..1 = {}
    OBVIOUS
  <2> QED
    BY <2>2, <2>3
<1>4. CASE n > 0
  <2>1. PICK q \in Nat, r \in Nat : Follows(ch, la, q, r)
    <3>1. CASE c \in joined
      <4>1. Follows(ch, la, Newest, run) /\ Newest \in Nat /\ run \in Nat
        BY <1>1, <3>1, Numbers DEF IInv, ChannelFits
      <4> QED
        BY <4>1
    <3>2. CASE c \notin joined
      <4>1. ch # <<>>
        BY <1>1, <1>4
      <4>2. PICK q \in 0..MaxId, r \in 1..run-1 : Follows(ch, la, q, r)
        BY <1>1, <3>2, <4>1 DEF IInv, ChannelFits
      <4>3. q \in Nat /\ r \in Nat
        BY Numbers
      <4> QED
        BY <4>2, <4>3
    <3> QED
      BY <3>1, <3>2
  <2>2. /\ \A i \in 1..n : ch[i].run = r
        /\ \A i \in 2..n : ch[i].id = q - n + i /\ ch[i].id > 0
        /\ ch[1].id # NoId => ch[1].id = q - n + 1 /\ (la.run = r => la.id = q - n)
        /\ ch[1].id = NoId => n > 1 /\ (la.run = r => la.id + 1 < q - n + 2)
    BY <1>1, <1>4, <2>1 DEF Follows
  <2>3. PICK st : st = Stream(c)
    OBVIOUS
  <2>4. Len(st) = n + 1 /\ st[1] = la /\ \A i \in 2..n+1 : st[i] = ch[i - 1]
    BY <1>1, <1>2, <2>3 DEF Stream
  <2>5. ASSUME NEW i \in 2..n+1
        PROVE  LET this   == st[i]
                   gap    == ~IsEvent(st[i - 1]) /\ i > 2
                   before == IF gap THEN st[i - 2] ELSE st[i - 1]
               IN  IsEvent(this) /\ this.run = before.run
                     => IF gap THEN this.id > before.id + 1 ELSE this.id = before.id + 1
    <3>1. i - 1 \in 1..n /\ st[i] = ch[i - 1] /\ st[i].run = r
      BY <1>2, <2>2, <2>4
    <3>2. CASE i = 2
      <4>1. st[i] = ch[1] /\ st[i - 1] = la
        BY <2>4, <3>1, <3>2
      <4> QED
        BY <1>2, <2>2, <3>1, <3>2, <4>1 DEF IsEvent
    <3>3. CASE i = 3
      <4>1. n > 1 /\ 2 \in 2..n /\ 2 \in 2..n+1
        BY <1>2, <3>3
      <4>2. st[i] = ch[2] /\ st[i - 1] = ch[1] /\ st[i - 2] = la
        BY <2>4, <3>1, <3>3, <4>1
      <4>3. ch[2].id = q - n + 2
        BY <2>2, <4>1
      <4> QED
        BY <1>2, <2>2, <3>1, <3>3, <4>2, <4>3 DEF IsEvent
    <3>4. CASE i > 3
      <4>1. i - 1 \in 2..n /\ i - 2 \in 2..n /\ i - 1 \in 2..n+1
        BY <1>2, <3>4
      <4>2. st[i - 1] = ch[i - 2]
        BY <2>4, <4>1
      <4>3. ch[i - 1].id = q - n + (i - 1) /\ ch[i - 2].id = q - n + (i - 2) /\ ch[i - 2].id > 0
        BY <2>2, <4>1
      <4>4. ch[i - 1].id = ch[i - 2].id + 1
        BY <1>2, <4>3
      <4>5. st[i].id = st[i - 1].id + 1
        BY <3>1, <4>2, <4>4
      <4>6. IsEvent(st[i - 1])
        BY <4>2, <4>3 DEF IsEvent, NoId
      <4> QED
        BY <4>5, <4>6
    <3> QED
      BY <3>2, <3>3, <3>4
  <2> QED
    BY <2>3, <2>4, <2>5
<1> QED
  BY <1>2, <1>3, <1>4

\* However connections break and whatever is published meanwhile, a client gets the
\* events of a run in order, none twice, and none left out but for a gap it is told.
THEOREM ReplayIsExact == Spec => []ReplayExact
BY InvReplayExact, Invariance, PTL

LEMMA InvNothingMissed == IInv => NothingMissed
<1> SUFFICES ASSUME IInv, NEW c \in joined, Last(Stream(c)).run = run
             PROVE  Last(Stream(c)).id = Last(buffer)
  BY DEF NothingMissed
<1>1. c \in Clients /\ Received(last[c])
  BY DEF IInv, TypeOK, ChannelFits
<1>2. PICK ch, la, n, q : ch = channel[c] /\ la = last[c] /\ n = Len(ch) /\ q = Newest
  OBVIOUS
<1>3. /\ ch \in Seq(Frame) /\ la \in [run : Nat, id : Nat] /\ n \in Nat
      /\ q \in Nat /\ run \in Nat
  <2>1. ch \in Seq(Frame) /\ la \in [run : Nat, id : Nat]
    BY <1>1, <1>2, ClientTypes
  <2>2. q \in Nat /\ run \in Nat
    BY <1>2, Numbers
  <2> QED
    BY <1>2, <2>1, <2>2
<1>4. Follows(ch, la, q, run)
  BY <1>1, <1>2 DEF IInv, ChannelFits
<1>5. Last(Stream(c)) = IF n = 0 THEN la ELSE ch[n]
  BY <1>2, <1>3 DEF Stream, Last
<1>6. Last(Stream(c)).id = q /\ q > 0
  <2>1. CASE n = 0
    <3>1. la.run = run /\ la.id = q
      BY <1>2, <1>4, <1>5, <2>1 DEF Follows
    <3>2. la # Nothing
      <4>1. run > 0
        BY DEF IInv, TypeOK
      <4> QED
        BY <3>1, <4>1 DEF Nothing
    <3>3. la.id > 0
      BY <1>1, <1>2, <3>2 DEF Received
    <3> QED
      BY <1>5, <2>1, <3>1, <3>3
  <2>2. CASE n = 1
    <3>1. ch[1].id # NoId /\ ch[1].id = q - n + 1
      BY <1>2, <1>4, <2>2 DEF Follows
    <3>2. ch[1].id = q
      BY <1>3, <2>2, <3>1
    <3> QED
      BY <1>3, <1>5, <2>2, <3>1, <3>2 DEF NoId
  <2>3. CASE n > 1
    <3>1. n \in 2..n
      BY <1>3, <2>3
    <3>2. ch[n].id = q - n + n /\ ch[n].id > 0
      BY <1>2, <1>4, <3>1 DEF Follows
    <3> QED
      BY <1>3, <1>5, <2>3, <3>2
  <2> QED
    BY <1>3, <2>1, <2>2, <2>3
<1>7. Last(buffer) = q
  <2>1. PICK ids : ids = buffer
    OBVIOUS
  <2>2. Recent(ids, q) /\ ids \in Seq(1..MaxId)
    BY <1>2, <2>1 DEF IInv, BufferFits, TypeOK
  <2>3. Len(ids) \in Nat /\ Len(ids) > 0
    BY <1>6, <2>2 DEF Recent
  <2>4. ids[Len(ids)] = q - Len(ids) + Len(ids)
    BY <2>2, <2>3 DEF Recent
  <2> QED
    BY <1>3, <2>1, <2>3, <2>4 DEF Last
<1> QED
  BY <1>6, <1>7

\* Between the replay and the broadcasts nothing is missed: who is connected and is
\* served by this run has the newest event, or has it on its way.
THEOREM NothingIsMissed == Spec => []NothingMissed
BY InvNothingMissed, Invariance, PTL

=============================================================================
