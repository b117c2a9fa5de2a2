------------------------ MODULE RecurringStreamProofs ------------------------
(***************************************************************************)
(* Theorems about RecurringStream, for every finite set of users, every    *)
(* set of tokens, amounts and durations and every bound.                   *)
(*                                                                         *)
(* The types need to know that the shares of a split stream make up the    *)
(* whole, SharesWhole: without it the last share, which is what is left of *)
(* the amount, could be negative, and a recipient's balance with it. That  *)
(* the rounded shares never exceed the amount is RoundedShares.            *)
(*                                                                         *)
(* That the contract implements Drawdown rests on the same, share by       *)
(* share: what a stream pays is what its payees receive together,          *)
(* PaidToAll, which needs that a stream without shares pays a user and not *)
(* the contract, PlainPaysUser.                                            *)
(***************************************************************************)
EXTENDS RecurringStream, BookkeepingTheorems

USE UsersAssumption, InputsAssumption, MinDurationAssumption, SupplyAssumption,
    BoundsAssumption

-----------------------------------------------------------------------------
(* Streams and what they owe *)

\* The streams are where their ids say, and are what they should be.
LEMMA StreamType ==
  ASSUME TypeOK, NEW id \in Ids
  PROVE  streams[id] \in StreamEntry
BY DEF TypeOK, Ids

\* One stream is replaced by another.
LEMMA StreamsExcept ==
  ASSUME TypeOK, NEW id \in Ids, NEW q \in StreamEntry,
         streams' = [streams EXCEPT ![id] = q], counter' = counter
  PROVE  /\ streams' \in Seq(StreamEntry) /\ Len(streams') = counter'
         /\ streams'[id] = q
         /\ \A j \in Ids : j # id => streams'[j] = streams[j]
BY DEF TypeOK, Ids

\* What a stream still has to give out.
Rest(s) == IF s.status \in {"Active", "Paused"} THEN s.total_amount - s.claimed_amount ELSE 0

\* The part of a stream's invariant that is about numbers.
Sound(s) ==
  /\ s.claimed_amount <= s.total_amount
  /\ s.start_ledger + MinDuration <= s.end_ledger
  /\ s.status = "Active" => s.paused_at_ledger = 0
  /\ s.status = "Paused" => s.paused_at_ledger > 0

LEMMA StreamSound ==
  ASSUME TypeOK, NEW id \in Ids
  PROVE  Sound(streams[id]) /\ Rest(streams[id]) \in Nat
<1>1. streams[id] \in StreamEntry /\ Sound(streams[id])
  BY StreamType DEF TypeOK, Sound
<1> QED
  BY <1>1 DEF Rest, Sound, StreamEntry

TotalOwed(token) == Total(Owed(token), counter)

\* What is owed is a sum of natural numbers, one of each stream.
LEMMA OwedType ==
  ASSUME TypeOK, NEW token \in Tokens
  PROVE  /\ \A id \in 1..counter :
              /\ Owed(token)[id] \in Nat
              /\ Owed(token)[id] = IF streams[id].token = token THEN Rest(streams[id]) ELSE 0
         /\ TotalOwed(token) \in Int
<1>1. ASSUME NEW id \in 1..counter
      PROVE  Owed(token)[id] = IF streams[id].token = token THEN Rest(streams[id]) ELSE 0
  BY DEF Owed, Ids, Live, Rest
<1>2. ASSUME NEW id \in 1..counter
      PROVE  Owed(token)[id] \in Nat
  BY <1>1, StreamSound DEF Ids
<1>3. counter \in Nat /\ counter \in 0..counter /\ \A id \in 1..counter : Owed(token)[id] \in Int
  BY <1>2 DEF TypeOK
<1> QED
  BY <1>1, <1>2, <1>3, TotalRecursion DEF TotalOwed

\* When one stream has less or more to give out, so has its token.
LEMMA OwedChange ==
  ASSUME TypeOK, NEW id \in Ids, NEW q \in StreamEntry, Rest(q) \in Int,
         streams' = [streams EXCEPT ![id] = q], counter' = counter,
         q.token = streams[id].token,
         NEW token \in Tokens
  PROVE  /\ token = q.token =>
              TotalOwed(token)' = TotalOwed(token) + (Rest(q) - Rest(streams[id]))
         /\ token # q.token => TotalOwed(token)' = TotalOwed(token)
<1>1. PICK e : e = IF token = q.token THEN Rest(q) - Rest(streams[id]) ELSE 0
  OBVIOUS
<1>2. counter \in Nat /\ id \in 1..counter /\ e \in Int
  <2>1. Rest(streams[id]) \in Nat
    BY StreamSound
  <2> QED
    BY <1>1, <2>1 DEF TypeOK, Ids
<1>3. streams'[id] = q /\ \A j \in 1..counter : j # id => streams'[j] = streams[j]
  BY StreamsExcept DEF Ids
<1>4. PICK g : g = Owed(token)'
  OBVIOUS
<1>5. \A j \in 1..counter : g[j] = IF streams'[j].token = token THEN Rest(streams'[j]) ELSE 0
  BY <1>4 DEF Owed, Ids, Live, Rest
<1>6. \A j \in 1..counter :
        /\ Owed(token)[j] \in Int
        /\ Owed(token)[j] = IF streams[j].token = token THEN Rest(streams[j]) ELSE 0
  BY OwedType
<1>7. g[id] = Owed(token)[id] + e
  <2>1. Rest(streams[id]) \in Nat
    BY StreamSound
  <2> QED
    BY <1>1, <1>2, <1>3, <1>5, <1>6, <2>1
<1>8. \A j \in 1..counter : j # id => g[j] = Owed(token)[j]
  BY <1>3, <1>5, <1>6
<1>9. Total(g, counter) = Total(Owed(token), counter) + e
  BY <1>2, <1>6, <1>7, <1>8, TotalChange
<1>10. TotalOwed(token)' = TotalOwed(token) + e
  BY <1>4, <1>9 DEF TotalOwed
<1> QED
  BY <1>1, <1>10, OwedType

-----------------------------------------------------------------------------
(* Shares *)

\* The sum of the first n shares.
Given(list, n) == Total([i \in 1..Len(list) |-> list[i].share], n)

\* The shares of a split stream make up the whole.
SharesWhole == \A id \in Ids : splits[id] # <<>> => Given(splits[id], Len(splits[id])) = BasisPoints

\* Rounded down one by one, shares of an amount are natural numbers, and no more
\* than the amount if the shares are no more than the whole.
LEMMA RoundedShares ==
  ASSUME NEW N \in Nat, NEW f, \A i \in 1..N : f[i] \in Nat, NEW amount \in Nat,
         NEW r, \A i \in 1..N : r[i] = (amount * f[i]) \div BasisPoints
  PROVE  /\ \A i \in 1..N : r[i] \in Nat
         /\ \A n \in 0..N : Total(r, n) * BasisPoints <= amount * Total(f, n)
<1>1. ASSUME NEW i \in 1..N
      PROVE  r[i] \in Nat /\ r[i] * BasisPoints <= amount * f[i]
  <2>1. PICK x : x = amount * f[i]
    OBVIOUS
  <2>2. x \in Nat
    BY <2>1
  <2>3. r[i] = x \div BasisPoints
    BY <2>1
  <2>4. r[i] \in Nat /\ r[i] * BasisPoints <= x
    BY <2>2, <2>3, BasisPointsAssumption
  <2> QED
    BY <2>1, <2>4
<1> DEFINE S == {n \in 0..N : Total(r, n) * BasisPoints <= amount * Total(f, n)}
<1>2. /\ Total(r, 0) = 0 /\ Total(f, 0) = 0
      /\ \A n \in 0..N : Total(r, n) \in Int /\ Total(f, n) \in Int
      /\ \A n \in 1..N : Total(r, n) = Total(r, n - 1) + r[n] /\ Total(f, n) = Total(f, n - 1) + f[n]
  <2>1. (\A i \in 1..N : r[i] \in Int) /\ (\A i \in 1..N : f[i] \in Int)
    BY <1>1
  <2> QED
    BY <2>1, TotalRecursion
<1>3. 0 \in S
  BY <1>2, BasisPointsAssumption
<1>4. ASSUME NEW n \in 0..N-1, n \in S
      PROVE  n + 1 \in S
  <2>1. n + 1 \in 1..N /\ (n + 1) - 1 = n /\ n \in 0..N /\ n + 1 \in 0..N
    OBVIOUS
  <2>2. Total(r, n + 1) = Total(r, n) + r[n + 1] /\ Total(f, n + 1) = Total(f, n) + f[n + 1]
    BY <1>2, <2>1
  <2>3. PICK a, b, c, d : a = Total(r, n) /\ b = r[n + 1] /\ c = Total(f, n) /\ d = f[n + 1]
    OBVIOUS
  <2>4. a \in Int /\ b \in Int /\ c \in Int /\ d \in Int
    BY <1>1, <1>2, <2>1, <2>3
  <2>5. a * BasisPoints <= amount * c /\ b * BasisPoints <= amount * d
    BY <1>1, <1>4, <2>1, <2>3
  <2>6. (a + b) * BasisPoints <= amount * (c + d)
    <3>1. amount * (c + d) = amount * c + amount * d
      BY <2>4
    <3>2. amount * c \in Int /\ amount * d \in Int
      BY <2>4
    <3> QED
      BY <2>4, <2>5, <3>1, <3>2, BasisPointsAssumption
  <2> QED
    BY <2>1, <2>2, <2>3, <2>6
<1> HIDE DEF S
<1>5. \A n \in 0..N : n \in S
  BY <1>3, <1>4, SetInduction
<1> QED
  BY <1>1, <1>5 DEF S

\* Whoever shares what a stream pays, there is somebody, and the shares make up
\* the whole.
LEMMA SharedType ==
  ASSUME TypeOK, SharesWhole, NEW id \in Ids
  PROVE  /\ Len(Shared(id)) \in Nat \ {0}
         /\ \A i \in 1..Len(Shared(id)) : Shared(id)[i].share \in Nat
         /\ Given(Shared(id), Len(Shared(id))) = BasisPoints
<1>1. CASE splits[id] = <<>>
  <2>1. PICK r : r = streams[id].recipient
    OBVIOUS
  <2>2. PICK list : list = <<[recipient |-> r, share |-> BasisPoints]>>
    OBVIOUS
  <2>3. Shared(id) = list /\ Len(list) = 1 /\ list[1].share = BasisPoints
    BY <1>1, <2>1, <2>2 DEF Shared
  <2>4. PICK f : f = [i \in 1..1 |-> list[i].share]
    OBVIOUS
  <2>5. Total(f, 1) = BasisPoints
    <3>1. f[1] = BasisPoints /\ BasisPoints \in Nat
      BY <2>3, <2>4, BasisPointsAssumption
    <3>2. \A i \in 1..1 : f[i] \in Int
      BY <3>1
    <3>3. Total(f, 0) = 0 /\ Total(f, 1) = Total(f, 1 - 1) + f[1]
      BY <3>2, TotalRecursion
    <3> QED
      BY <3>1, <3>3
  <2>6. Given(list, 1) = BasisPoints
    BY <2>3, <2>4, <2>5 DEF Given
  <2>7. \A i \in 1..1 : list[i].share \in Nat
    BY <2>3, BasisPointsAssumption
  <2> QED
    BY <2>3, <2>6, <2>7
<1>2. CASE splits[id] # <<>>
  <2>1. PICK list : list = splits[id]
    OBVIOUS
  <2>2. list \in Seq(StreamSplit) /\ Shared(id) = list /\ list # <<>>
    BY <1>2, <2>1 DEF TypeOK, Ids, Shared
  <2>3. Given(list, Len(list)) = BasisPoints
    BY <1>2, <2>1 DEF SharesWhole
  <2>4. Len(list) \in Nat \ {0} /\ \A i \in 1..Len(list) : list[i].share \in Nat
    <3>1. Len(list) \in Nat /\ \A i \in 1..Len(list) : list[i] \in StreamSplit
      BY <2>2
    <3>2. Len(list) # 0
      BY <2>2, EmptySeq
    <3> QED
      BY <3>1, <3>2 DEF StreamSplit
  <2> QED
    BY <2>2, <2>3, <2>4
<1> QED
  BY <1>1, <1>2

\* Every portion is a natural number, the last one as well.
LEMMA PortionType ==
  ASSUME TypeOK, SharesWhole, NEW id \in Ids, NEW amount \in Nat
  PROVE  \A i \in 1..Len(Shared(id)) : Portion(id, amount, i) \in Nat
<1>1. PICK list, last : list = Shared(id) /\ last = Len(list)
  OBVIOUS
<1>2. /\ last \in Nat \ {0} /\ \A i \in 1..last : list[i].share \in Nat
      /\ Given(list, last) = BasisPoints
  BY <1>1, SharedType
<1>3. PICK f : f = [i \in 1..last |-> list[i].share]
  OBVIOUS
<1>4. PICK r : r = [j \in 1..last |-> (amount * list[j].share) \div BasisPoints]
  OBVIOUS
<1>5. PICK m : m = last - 1
  OBVIOUS
<1>6. m \in Nat /\ m \in 0..last /\ last \in 1..last /\ last \in 0..last
  BY <1>2, <1>5
<1>7. /\ \A i \in 1..last : f[i] \in Nat /\ r[i] = (amount * f[i]) \div BasisPoints
      /\ Total(f, last) = BasisPoints
  BY <1>1, <1>2, <1>3, <1>4 DEF Given
<1>8. /\ \A i \in 1..last : r[i] \in Nat
      /\ Total(r, m) * BasisPoints <= amount * Total(f, m)
  BY <1>2, <1>6, <1>7, RoundedShares
<1>9. Total(f, m) \in Int /\ Total(f, m) <= BasisPoints
  <2>1. \A i \in 1..last : f[i] \in Int
    BY <1>7
  <2>2. Total(f, m) \in Int /\ Total(f, last) = Total(f, m) + f[last]
    <3>1. last \in Nat
      BY <1>2
    <3>2. /\ \A k \in 0..last : Total(f, k) \in Int
          /\ \A k \in 1..last : Total(f, k) = Total(f, k - 1) + f[k]
      BY <2>1, <3>1, TotalRecursion
    <3> QED
      BY <1>5, <1>6, <3>2
  <2> QED
    BY <1>6, <1>7, <2>2, BasisPointsAssumption
<1>10. Total(r, m) \in Int /\ Total(r, m) <= amount
  <2>1. Total(r, m) \in Int
    <3>1. \A i \in 1..last : r[i] \in Int
      BY <1>8
    <3> QED
      BY <1>2, <1>6, <3>1, TotalRecursion
  <2>2. amount * Total(f, m) <= amount * BasisPoints
    <3>1. PICK t : t = Total(f, m)
      OBVIOUS
    <3>2. BasisPoints - t \in Nat
      BY <1>9, <3>1, BasisPointsAssumption
    <3>3. amount * (BasisPoints - t) \in Nat
      BY <3>2
    <3>4. amount * (BasisPoints - t) = amount * BasisPoints - amount * t
      BY <1>9, <3>1, BasisPointsAssumption
    <3>5. amount * t \in Int /\ amount * BasisPoints \in Int
      BY <1>9, <3>1, BasisPointsAssumption
    <3> QED
      BY <3>1, <3>3, <3>4, <3>5
  <2>3. amount * Total(f, m) \in Int
    BY <1>9
  <2> QED
    BY <1>8, <2>1, <2>2, <2>3, BasisPointsAssumption
<1>11. Total([j \in 1..last - 1 |-> (amount * list[j].share) \div BasisPoints], last - 1) = Total(r, m)
  <2>1. PICK h : h = [j \in 1..m |-> (amount * list[j].share) \div BasisPoints]
    OBVIOUS
  <2>2. \A j \in 1..m : h[j] = r[j] /\ r[j] \in Int
    BY <1>4, <1>5, <1>6, <1>8, <2>1
  <2>3. Total(r, m) = Total(h, m)
    BY <1>6, <2>2, TotalAgree
  <2> QED
    BY <1>5, <2>1, <2>3
<1>12. ASSUME NEW i \in 1..last
       PROVE  Portion(id, amount, i) \in Nat
  <2>1. CASE i < last
    <3>1. Portion(id, amount, i) = r[i]
      BY <1>1, <1>4, <2>1 DEF Portion
    <3> QED
      BY <1>8, <3>1
  <2>2. CASE ~(i < last)
    <3>1. Portion(id, amount, i) = amount - Total(r, m)
      BY <1>1, <1>11, <2>2 DEF Portion
    <3> QED
      BY <1>10, <3>1
  <2> QED
    BY <2>1, <2>2
<1> QED
  BY <1>1, <1>12

\* So is what an account gets.
LEMMA PaidToType ==
  ASSUME TypeOK, SharesWhole, NEW id \in Ids, NEW amount \in Nat, NEW account
  PROVE  PaidTo(id, amount, account) \in Nat
<1>1. PICK n : n = Len(Shared(id))
  OBVIOUS
<1>2. PICK f : f = [i \in 1..n |-> IF Shared(id)[i].recipient = account
                                   THEN Portion(id, amount, i) ELSE 0]
  OBVIOUS
<1>3. n \in Nat /\ \A i \in 1..n : f[i] \in Nat
  <2>1. n \in Nat
    BY <1>1, SharedType
  <2>2. \A i \in 1..n : Portion(id, amount, i) \in Nat
    BY <1>1, PortionType
  <2> QED
    BY <1>2, <2>1, <2>2
<1>4. Total(f, n) \in Nat
  BY <1>3, TotalCovers
<1> QED
  BY <1>1, <1>2, <1>4 DEF PaidTo

\* What is paid out of the contract, it loses, and nobody else loses anything.
LEMMA PayOutEffect ==
  ASSUME TypeOK, SharesWhole, NEW id \in Ids, NEW amount \in Nat, NEW refund \in Nat,
         NEW token, token = streams[id].token, PayOut(id, amount, refund)
  PROVE  /\ balance' \in [Tokens -> [Accounts -> Nat]]
         /\ balance'[token][Contract] = balance[token][Contract] - amount - refund
         /\ \A t \in Tokens : t # token => balance'[t] = balance[t]
<1>1. PICK owner : owner = streams[id].owner
  OBVIOUS
<1>2. token \in Tokens /\ Contract \in Accounts
  BY StreamType DEF StreamEntry, Accounts
<1>3. balance \in [Tokens -> [Accounts -> Nat]]
  BY DEF TypeOK
<1>4. PICK new : new = [a \in Accounts |->
                 IF a = Contract THEN balance[token][a] - amount - refund
                 ELSE balance[token][a] + PaidTo(id, amount, a) + (IF a = owner THEN refund ELSE 0)]
  OBVIOUS
<1>5. amount + refund <= balance[token][Contract] /\ balance' = [balance EXCEPT ![token] = new]
  BY <1>1, <1>2, <1>3, <1>4 DEF PayOut, CanPayOut
<1>6. new \in [Accounts -> Nat]
  <2>1. ASSUME NEW a \in Accounts
        PROVE  new[a] \in Nat
    <3>1. balance[token][a] \in Nat /\ PaidTo(id, amount, a) \in Nat
      BY <1>2, <1>3, PaidToType
    <3> QED
      BY <1>4, <1>5, <3>1
  <2> QED
    BY <1>4, <2>1
<1> QED
  BY <1>2, <1>3, <1>4, <1>5, <1>6

-----------------------------------------------------------------------------
(* What a step on one stream keeps *)

\* The types.
LEMMA StreamStepTypes ==
  ASSUME TypeOK, NEW id \in Ids, NEW q \in StreamEntry, Sound(q),
         streams' = [streams EXCEPT ![id] = q],
         UNCHANGED <<ledger, counter, splits, ownerIndex>>,
         recipientIndex' \in [Accounts -> Seq(Ids)],
         balance' \in [Tokens -> [Accounts -> Nat]]
  PROVE  TypeOK'
<1>1. /\ streams' \in Seq(StreamEntry) /\ Len(streams') = counter'
      /\ streams'[id] = q /\ \A j \in Ids : j # id => streams'[j] = streams[j]
  BY StreamsExcept
<1>2. Ids' = Ids
  BY DEF Ids
<1>3. \A j \in Ids' : Sound(streams'[j])
  BY <1>1, <1>2, StreamSound
<1> QED
  BY <1>1, <1>2, <1>3 DEF TypeOK, Sound

\* Solvency, when the contract loses no more than the stream has less to give out.
LEMMA StreamStepSolvency ==
  ASSUME TypeOK, TypeOK', Solvency, NEW id \in Ids, NEW q \in StreamEntry, Sound(q),
         streams' = [streams EXCEPT ![id] = q], counter' = counter,
         q.token = streams[id].token,
         Rest(q) + balance[q.token][Contract] <= Rest(streams[id]) + balance'[q.token][Contract],
         \A t \in Tokens : t # q.token => balance'[t] = balance[t]
  PROVE  Solvency'
<1> SUFFICES ASSUME NEW token \in Tokens
             PROVE  balance'[token][Contract] >= TotalOwed(token)'
  BY DEF Solvency, TotalOwed
<1>1. Rest(q) \in Nat /\ Rest(streams[id]) \in Nat
  BY StreamSound DEF Rest, Sound, StreamEntry
<1>2. /\ token = q.token =>
           TotalOwed(token)' = TotalOwed(token) + (Rest(q) - Rest(streams[id]))
      /\ token # q.token => TotalOwed(token)' = TotalOwed(token)
  <2>1. Rest(q) \in Int
    BY <1>1
  <2> QED
    BY <2>1, OwedChange
<1>3. /\ balance[token][Contract] \in Int /\ balance'[token][Contract] \in Int
      /\ balance[token][Contract] >= TotalOwed(token)
  BY DEF TypeOK, Solvency, Accounts, TotalOwed
<1>4. TotalOwed(token) \in Int
  BY OwedType
<1>5. CASE token = q.token
  BY <1>1, <1>2, <1>3, <1>4, <1>5
<1>6. CASE token # q.token
  BY <1>2, <1>3, <1>4, <1>6
<1> QED
  BY <1>5, <1>6

\* The lists, when the recipient stays.
LEMMA StreamStepIndex ==
  ASSUME TypeOK, PlainRecipientIndexed, SharesWhole, NEW id \in Ids, NEW q \in StreamEntry,
         streams' = [streams EXCEPT ![id] = q], q.recipient = streams[id].recipient,
         UNCHANGED <<counter, splits, recipientIndex>>
  PROVE  PlainRecipientIndexed' /\ SharesWhole'
<1>1. streams'[id] = q /\ \A j \in Ids : j # id => streams'[j] = streams[j]
  BY StreamsExcept
<1>2. \A j \in Ids : streams'[j].recipient = streams[j].recipient
  BY <1>1
<1>3. Ids' = Ids
  BY DEF Ids
<1>4. PlainRecipientIndexed'
  BY <1>2, <1>3 DEF PlainRecipientIndexed, IsPlain
<1>5. SharesWhole'
  BY <1>3 DEF SharesWhole, Given
<1> QED
  BY <1>4, <1>5

IInv == TypeOK /\ SharesWhole /\ Solvency /\ PlainRecipientIndexed

\* A step that pays `amount` to the recipients and `refund` to the owner keeps
\* everything, if the stream has at least as much less to give out.
LEMMA PayingStepKeeps ==
  ASSUME IInv, NEW id \in Ids, NEW q \in StreamEntry, Sound(q),
         streams' = [streams EXCEPT ![id] = q],
         q.token = streams[id].token, q.recipient = streams[id].recipient,
         NEW amount \in Nat, NEW refund \in Nat,
         PayOut(id, amount, refund),
         Rest(q) + amount + refund <= Rest(streams[id]),
         UNCHANGED <<ledger, counter, splits, ownerIndex, recipientIndex>>
  PROVE  IInv'
<1>1. PICK token : token = streams[id].token
  OBVIOUS
<1>2. token \in Tokens /\ Rest(streams[id]) \in Nat /\ Rest(q) \in Nat
  BY <1>1, StreamType, StreamSound DEF IInv, StreamEntry, Rest, Sound
<1>3. /\ balance' \in [Tokens -> [Accounts -> Nat]]
      /\ balance'[token][Contract] = balance[token][Contract] - amount - refund
      /\ \A t \in Tokens : t # token => balance'[t] = balance[t]
  BY <1>1, PayOutEffect DEF IInv
<1>4. TypeOK'
  <2>1. recipientIndex' \in [Accounts -> Seq(Ids)]
    BY DEF IInv, TypeOK
  <2> QED
    BY <1>3, <2>1, StreamStepTypes DEF IInv
<1>5. Solvency'
  <2>1. balance[token][Contract] \in Int
    BY <1>2 DEF IInv, TypeOK, Accounts
  <2>2. Rest(q) + balance[q.token][Contract] <= Rest(streams[id]) + balance'[q.token][Contract]
    BY <1>1, <1>2, <1>3, <2>1
  <2>3. \A t \in Tokens : t # q.token => balance'[t] = balance[t]
    BY <1>1, <1>3
  <2> QED
    BY <1>4, <2>2, <2>3, StreamStepSolvency DEF IInv
<1>6. PlainRecipientIndexed' /\ SharesWhole'
  BY StreamStepIndex DEF IInv
<1> QED
  BY <1>4, <1>5, <1>6 DEF IInv

\* So does one that pays nothing.
LEMMA QuietStepKeeps ==
  ASSUME IInv, NEW id \in Ids, NEW q \in StreamEntry, Sound(q),
         streams' = [streams EXCEPT ![id] = q],
         q.token = streams[id].token, q.recipient = streams[id].recipient,
         Rest(q) = Rest(streams[id]),
         UNCHANGED <<ledger, counter, splits, ownerIndex, recipientIndex, balance>>
  PROVE  IInv'
<1>1. TypeOK'
  <2>1. /\ recipientIndex' \in [Accounts -> Seq(Ids)]
        /\ balance' \in [Tokens -> [Accounts -> Nat]]
    BY DEF IInv, TypeOK
  <2> QED
    BY <2>1, StreamStepTypes DEF IInv
<1>2. Solvency'
  <2>1. q.token \in Tokens /\ Rest(q) \in Nat
    BY StreamSound DEF IInv, StreamEntry
  <2>2. balance[q.token][Contract] \in Int
    BY <2>1 DEF IInv, TypeOK, Accounts
  <2>3. Rest(q) + balance[q.token][Contract] <= Rest(streams[id]) + balance'[q.token][Contract]
    BY <2>1, <2>2
  <2> QED
    BY <1>1, <2>3, StreamStepSolvency DEF IInv
<1>3. PlainRecipientIndexed' /\ SharesWhole'
  BY StreamStepIndex DEF IInv
<1> QED
  BY <1>1, <1>2, <1>3 DEF IInv

-----------------------------------------------------------------------------
(* The actions *)

\* What a stream lets be claimed is what is left of it at most.
LEMMA ClaimableType ==
  ASSUME TypeOK, NEW id \in Ids
  PROVE  /\ claimable_amount(streams[id], ledger) \in Nat
         /\ claimable_amount(streams[id], ledger) <= streams[id].total_amount - streams[id].claimed_amount
<1>1. PICK s : s = streams[id]
  OBVIOUS
<1>2. /\ s.total_amount \in Nat /\ s.claimed_amount \in Nat /\ s.start_ledger \in Nat
      /\ s.end_ledger \in Nat /\ s.paused_ledgers \in Nat /\ s.last_claimed_ledger \in Nat
      /\ s.claimed_amount <= s.total_amount /\ s.start_ledger + MinDuration <= s.end_ledger
  BY <1>1, StreamType, StreamSound DEF StreamEntry, Sound
<1>3. PICK active : active = active_ledgers(s, ledger)
  OBVIOUS
<1>4. active \in Nat
  BY <1>2, <1>3 DEF active_ledgers, Smaller, Larger, TypeOK
<1>5. PICK d : d = s.end_ledger - s.start_ledger
  OBVIOUS
<1>6. d \in Nat /\ d > 0
  BY <1>2, <1>5
<1>7. PICK vested : vested = (s.total_amount * active) \div d
  OBVIOUS
<1>8. vested \in Int
  <2>1. s.total_amount * active \in Nat
    BY <1>2, <1>4
  <2> QED
    BY <1>6, <1>7, <2>1
<1>9. claimable_amount(s, ledger) = IF Smaller(ledger, s.end_ledger) <= s.last_claimed_ledger THEN 0
                                    ELSE Larger(0, Smaller(vested, s.total_amount) - s.claimed_amount)
  BY <1>3, <1>5, <1>7 DEF claimable_amount
<1> QED
  BY <1>1, <1>2, <1>8, <1>9 DEF Smaller, Larger

LEMMA ClaimKeeps ==
  ASSUME IInv, NEW id \in Ids, NEW caller \in Users, Claim(id, caller)
  PROVE  IInv'
<1>1. PICK s, claimable, claimed, status :
        /\ s = streams[id] /\ claimable = claimable_amount(s, ledger)
        /\ claimed = s.claimed_amount + claimable
        /\ status = IF claimed >= s.total_amount \/ ledger >= s.end_ledger THEN "Completed" ELSE s.status
  OBVIOUS
<1>2. /\ s.status = "Active" /\ PayOut(id, claimable, 0)
      /\ streams' = [streams EXCEPT ![id] = [s EXCEPT !.claimed_amount = claimed,
                                                      !.last_claimed_ledger = ledger, !.status = status]]
      /\ UNCHANGED <<ledger, counter, splits, ownerIndex, recipientIndex>>
  BY <1>1 DEF Claim
<1>3. s \in StreamEntry /\ Sound(s) /\ ledger \in Nat
  BY <1>1, StreamType, StreamSound DEF IInv, TypeOK
<1>4. claimable \in Nat /\ claimable <= s.total_amount - s.claimed_amount
  BY <1>1, ClaimableType DEF IInv
<1>5. s.claimed_amount \in Nat /\ s.total_amount \in Nat
  BY <1>3 DEF StreamEntry
<1>6. claimed \in Nat /\ claimed <= s.total_amount /\ status \in {"Completed", "Active"}
  BY <1>1, <1>2, <1>4, <1>5
<1>7. PICK q : q = [s EXCEPT !.claimed_amount = claimed, !.last_claimed_ledger = ledger,
                             !.status = status]
  OBVIOUS
<1>8. /\ q \in StreamEntry /\ q.token = s.token /\ q.recipient = s.recipient
      /\ q.claimed_amount = claimed /\ q.status = status /\ q.total_amount = s.total_amount
      /\ q.start_ledger = s.start_ledger /\ q.end_ledger = s.end_ledger
      /\ q.paused_at_ledger = s.paused_at_ledger
  BY <1>3, <1>6, <1>7 DEF StreamEntry, Statuses
<1>9. Sound(q)
  BY <1>2, <1>3, <1>6, <1>8 DEF Sound
<1>10. Rest(q) + claimable + 0 <= Rest(s)
  BY <1>1, <1>2, <1>4, <1>5, <1>6, <1>8 DEF Rest
<1> QED
  BY <1>1, <1>2, <1>4, <1>7, <1>8, <1>9, <1>10, PayingStepKeeps

LEMMA TickKeeps ==
  ASSUME IInv, NEW id \in Ids, Tick(id)
  PROVE  IInv'
<1>1. PICK s, left : s = streams[id] /\ left = s.total_amount - s.claimed_amount
  OBVIOUS
<1>2. s \in StreamEntry /\ Sound(s)
  BY <1>1, StreamType, StreamSound DEF IInv
<1>3. PICK q : q = [s EXCEPT !.status = "Completed"]
  OBVIOUS
<1>4. /\ s.status = "Active" /\ PayOut(id, 0, left)
      /\ streams' = [streams EXCEPT ![id] = q]
      /\ UNCHANGED <<ledger, counter, splits, ownerIndex, recipientIndex>>
  BY <1>1, <1>3 DEF Tick
<1>5. /\ q \in StreamEntry /\ q.token = s.token /\ q.recipient = s.recipient
      /\ q.claimed_amount = s.claimed_amount /\ q.status = "Completed"
      /\ q.total_amount = s.total_amount
      /\ q.start_ledger = s.start_ledger /\ q.end_ledger = s.end_ledger
      /\ q.paused_at_ledger = s.paused_at_ledger
  BY <1>2, <1>3 DEF StreamEntry, Statuses
<1>6. Sound(q)
  BY <1>2, <1>5 DEF Sound
<1>7. left \in Nat /\ 0 \in Nat /\ Rest(q) + 0 + left <= Rest(s)
  BY <1>1, <1>2, <1>4, <1>5 DEF Rest, Sound, StreamEntry
<1> QED
  BY <1>1, <1>4, <1>5, <1>6, <1>7, PayingStepKeeps

LEMMA PauseKeeps ==
  ASSUME IInv, NEW id \in Ids, Pause(id)
  PROVE  IInv'
<1>1. PICK s : s = streams[id]
  OBVIOUS
<1>2. s \in StreamEntry /\ Sound(s) /\ ledger \in Nat \ {0} /\ id \in DOMAIN streams
  BY <1>1, StreamType, StreamSound DEF IInv, TypeOK, Ids
<1>3. PICK q : q = [[s EXCEPT !.status = "Paused"] EXCEPT !.paused_at_ledger = ledger]
  OBVIOUS
<1>4. /\ s.status = "Active"
      /\ streams' = [streams EXCEPT ![id] = q]
      /\ UNCHANGED <<ledger, counter, splits, ownerIndex, recipientIndex, balance>>
  BY <1>1, <1>2, <1>3 DEF Pause
<1>5. /\ q \in StreamEntry /\ q.token = s.token /\ q.recipient = s.recipient
      /\ q.claimed_amount = s.claimed_amount /\ q.status = "Paused"
      /\ q.total_amount = s.total_amount
      /\ q.start_ledger = s.start_ledger /\ q.end_ledger = s.end_ledger
      /\ q.paused_at_ledger = ledger
  BY <1>2, <1>3 DEF StreamEntry, Statuses
<1>6. Sound(q)
  BY <1>2, <1>5 DEF Sound
<1>7. Rest(q) = Rest(s)
  BY <1>4, <1>5 DEF Rest
<1> QED
  BY <1>1, <1>4, <1>5, <1>6, <1>7, QuietStepKeeps

LEMMA ResumeKeeps ==
  ASSUME IInv, NEW id \in Ids, Resume(id)
  PROVE  IInv'
<1>1. PICK s, total :
        /\ s = streams[id]
        /\ total = s.paused_ledgers + (Smaller(ledger, s.end_ledger)
                     - Smaller(s.paused_at_ledger, Smaller(ledger, s.end_ledger)))
  OBVIOUS
<1>2. s \in StreamEntry /\ Sound(s) /\ ledger \in Nat
  BY <1>1, StreamType, StreamSound DEF IInv, TypeOK
<1>3. total \in Nat
  BY <1>1, <1>2 DEF Smaller, StreamEntry
<1>4. PICK q : q = [s EXCEPT !.status = "Active", !.paused_at_ledger = 0, !.paused_ledgers = total]
  OBVIOUS
<1>5. /\ s.status = "Paused"
      /\ streams' = [streams EXCEPT ![id] = q]
      /\ UNCHANGED <<ledger, counter, splits, ownerIndex, recipientIndex, balance>>
  BY <1>1, <1>4 DEF Resume
<1>6. /\ q \in StreamEntry /\ q.token = s.token /\ q.recipient = s.recipient
      /\ q.claimed_amount = s.claimed_amount /\ q.status = "Active"
      /\ q.total_amount = s.total_amount
      /\ q.start_ledger = s.start_ledger /\ q.end_ledger = s.end_ledger
      /\ q.paused_at_ledger = 0
  BY <1>2, <1>3, <1>4 DEF StreamEntry, Statuses
<1>7. Sound(q)
  BY <1>2, <1>6 DEF Sound
<1>8. Rest(q) = Rest(s)
  BY <1>5, <1>6 DEF Rest
<1> QED
  BY <1>1, <1>5, <1>6, <1>7, <1>8, QuietStepKeeps

LEMMA CancelKeeps ==
  ASSUME IInv, NEW id \in Ids, Cancel(id)
  PROVE  IInv'
<1>1. PICK s, claimable, claimed, refund :
        /\ s = streams[id] /\ claimable = claimable_amount(s, ledger)
        /\ claimed = s.claimed_amount + claimable /\ refund = s.total_amount - claimed
  OBVIOUS
<1>2. s \in StreamEntry /\ Sound(s) /\ id \in DOMAIN streams
  BY <1>1, StreamType, StreamSound DEF IInv, TypeOK, Ids
<1>3. PICK q : q = [[s EXCEPT !.status = "Cancelled"] EXCEPT !.claimed_amount = claimed]
  OBVIOUS
<1>4. /\ s.status \in {"Active", "Paused"} /\ PayOut(id, claimable, refund)
      /\ streams' = [streams EXCEPT ![id] = q]
      /\ UNCHANGED <<ledger, counter, splits, ownerIndex, recipientIndex>>
  BY <1>1, <1>2, <1>3 DEF Cancel, CanCancel
<1>5. claimable \in Nat /\ claimable <= s.total_amount - s.claimed_amount
  BY <1>1, ClaimableType DEF IInv
<1>6. s.claimed_amount \in Nat /\ s.total_amount \in Nat
  BY <1>2 DEF StreamEntry
<1>7. claimed \in Nat /\ claimed <= s.total_amount /\ refund \in Nat
  BY <1>1, <1>5, <1>6
<1>8. /\ q \in StreamEntry /\ q.token = s.token /\ q.recipient = s.recipient
      /\ q.claimed_amount = claimed /\ q.status = "Cancelled"
      /\ q.total_amount = s.total_amount
      /\ q.start_ledger = s.start_ledger /\ q.end_ledger = s.end_ledger
      /\ q.paused_at_ledger = s.paused_at_ledger
  BY <1>2, <1>3, <1>7 DEF StreamEntry, Statuses
<1>9. Sound(q)
  BY <1>2, <1>7, <1>8 DEF Sound
<1>10. Rest(q) + claimable + refund <= Rest(s)
  BY <1>1, <1>4, <1>5, <1>6, <1>8 DEF Rest
<1> QED
  BY <1>1, <1>4, <1>5, <1>7, <1>8, <1>9, <1>10, PayingStepKeeps

LEMMA ChangeRecipientKeeps ==
  ASSUME IInv, NEW id \in Ids, NEW new_recipient \in Users, ChangeRecipient(id, new_recipient)
  PROVE  IInv'
<1>1. PICK s, old : s = streams[id] /\ old = s.recipient
  OBVIOUS
<1>2. /\ s \in StreamEntry /\ Sound(s) /\ id \in DOMAIN streams
      /\ old \in Accounts /\ new_recipient \in Accounts
  <2>1. s \in StreamEntry /\ Sound(s)
    BY <1>1, StreamType, StreamSound DEF IInv
  <2>2. id \in DOMAIN streams
    BY DEF IInv, TypeOK, Ids
  <2>3. old \in Accounts /\ new_recipient \in Accounts
    BY <1>1, <2>1 DEF StreamEntry, Accounts
  <2> QED
    BY <2>1, <2>2, <2>3
<1>3. PICK q : q = [s EXCEPT !.recipient = new_recipient]
  OBVIOUS
<1>4. /\ old # new_recipient /\ streams' = [streams EXCEPT ![id] = q]
      /\ UNCHANGED <<ledger, counter, splits, ownerIndex, balance>>
  BY <1>1, <1>2, <1>3 DEF ChangeRecipient
<1>5. /\ q \in StreamEntry /\ q.token = s.token /\ q.recipient = new_recipient
      /\ q.claimed_amount = s.claimed_amount /\ q.status = s.status
      /\ q.total_amount = s.total_amount
      /\ q.start_ledger = s.start_ledger /\ q.end_ledger = s.end_ledger
      /\ q.paused_at_ledger = s.paused_at_ledger
  BY <1>2, <1>3 DEF StreamEntry
<1>6. Sound(q) /\ Rest(q) = Rest(s)
  BY <1>2, <1>5 DEF Sound, Rest
<1>7. recipientIndex \in [Accounts -> Seq(Ids)]
  BY DEF IInv, TypeOK
<1>8. PICK left : left = Without(recipientIndex[old], id)
  OBVIOUS
<1>9. /\ left \in Seq(Ids) /\ ~Contains(left, id)
      /\ \A y : Once(recipientIndex[old], y) /\ y # id => Once(left, y)
      /\ \A y : ~Contains(recipientIndex[old], y) => ~Contains(left, y)
  <2>1. recipientIndex[old] \in Seq(Ids)
    BY <1>2, <1>7
  <2> QED
    BY <1>8, <2>1, WithoutLeaves
<1>10. PICK added : added = IF Contains(recipientIndex[new_recipient], id)
                              THEN recipientIndex[new_recipient]
                              ELSE Append(recipientIndex[new_recipient], id)
  OBVIOUS
<1>11. recipientIndex' = [[recipientIndex EXCEPT ![old] = left] EXCEPT ![new_recipient] = added]
  BY <1>1, <1>2, <1>4, <1>7, <1>8, <1>10 DEF ChangeRecipient
<1>12. /\ added \in Seq(Ids)
       /\ \A y : Once(recipientIndex[new_recipient], y) /\ y # id => Once(added, y)
       /\ \A y : ~Contains(recipientIndex[new_recipient], y) /\ y # id => ~Contains(added, y)
       /\ ~Contains(recipientIndex[new_recipient], id) => Once(added, id)
  <2>1. PICK list : list = recipientIndex[new_recipient]
    OBVIOUS
  <2>2. list \in Seq(Ids)
    BY <1>2, <1>7, <2>1
  <2>3. /\ Append(list, id) \in Seq(Ids)
        /\ \A y : Once(list, y) /\ y # id => Once(Append(list, id), y)
        /\ \A y : ~Contains(list, y) /\ y # id => ~Contains(Append(list, id), y)
        /\ ~Contains(list, id) => Once(Append(list, id), id)
    BY <2>2, AppendOnce
  <2> QED
    BY <1>10, <2>1, <2>2, <2>3
<1>13. /\ recipientIndex' \in [Accounts -> Seq(Ids)]
       /\ recipientIndex'[old] = left /\ recipientIndex'[new_recipient] = added
       /\ \A a \in Accounts : a \notin {old, new_recipient} => recipientIndex'[a] = recipientIndex[a]
  BY <1>2, <1>4, <1>7, <1>9, <1>11, <1>12
<1>14. TypeOK'
  <2>1. balance' \in [Tokens -> [Accounts -> Nat]]
    BY <1>4 DEF IInv, TypeOK
  <2> QED
    BY <1>4, <1>5, <1>6, <1>13, <2>1, StreamStepTypes DEF IInv
<1>15. Solvency'
  <2>1. q.token \in Tokens /\ Rest(q) \in Nat
    BY <1>1, <1>5, <1>6, StreamSound DEF IInv, StreamEntry
  <2>2. balance[q.token][Contract] \in Int
    BY <2>1 DEF IInv, TypeOK, Accounts
  <2>3. Rest(q) + balance[q.token][Contract] <= Rest(streams[id]) + balance'[q.token][Contract]
    BY <1>1, <1>4, <1>6, <2>1, <2>2
  <2>4. \A t \in Tokens : t # q.token => balance'[t] = balance[t]
    BY <1>4
  <2> QED
    BY <1>1, <1>4, <1>5, <1>6, <1>14, <2>3, <2>4, StreamStepSolvency DEF IInv
<1>16. streams'[id] = q /\ Ids' = Ids /\ \A j \in Ids : j # id => streams'[j] = streams[j]
  BY <1>4, <1>5, StreamsExcept DEF IInv, Ids
<1>17. PlainRecipientIndexed'
  <2> SUFFICES ASSUME NEW a \in Accounts, NEW j \in Ids, splits[j] = <<>>
               PROVE  IF streams'[j].recipient = a THEN Once(recipientIndex'[a], j)
                                                   ELSE ~Contains(recipientIndex'[a], j)
    BY <1>4, <1>16 DEF PlainRecipientIndexed, IsPlain
  <2>1. \A b \in Accounts : IF streams[j].recipient = b THEN Once(recipientIndex[b], j)
                                                        ELSE ~Contains(recipientIndex[b], j)
    BY DEF IInv, PlainRecipientIndexed, IsPlain
  <2>2. CASE j # id
    <3>1. streams'[j].recipient = streams[j].recipient
      BY <1>16, <2>2
    <3>2. CASE a = old
      BY <1>2, <1>9, <1>13, <2>1, <2>2, <3>1, <3>2
    <3>3. CASE a = new_recipient
      BY <1>2, <1>12, <1>13, <2>1, <2>2, <3>1, <3>3
    <3>4. CASE a \notin {old, new_recipient}
      BY <1>13, <2>1, <3>1, <3>4
    <3> QED
      BY <3>2, <3>3, <3>4
  <2>3. CASE j = id
    <3>1. streams'[j].recipient = new_recipient /\ streams[j].recipient = old
      BY <1>1, <1>5, <1>16, <2>3
    <3>2. CASE a = old
      BY <1>4, <1>9, <1>13, <2>3, <3>1, <3>2
    <3>3. CASE a = new_recipient
      BY <1>2, <1>4, <1>12, <1>13, <2>1, <2>3, <3>1, <3>3
    <3>4. CASE a \notin {old, new_recipient}
      BY <1>13, <2>1, <3>1, <3>4
    <3> QED
      BY <3>2, <3>3, <3>4
  <2> QED
    BY <2>2, <2>3
<1>18. SharesWhole'
  BY <1>4, <1>16 DEF IInv, SharesWhole, Given
<1> QED
  BY <1>14, <1>15, <1>17, <1>18 DEF IInv

\* Time passes.
LEMMA CloseLedgerKeeps ==
  ASSUME IInv, CloseLedger
  PROVE  IInv'
<1>1. /\ ledger' = ledger + 1
      /\ UNCHANGED <<counter, streams, splits, ownerIndex, recipientIndex, balance>>
  BY DEF CloseLedger
<1>2. TypeOK'
  BY <1>1 DEF IInv, TypeOK, Ids
<1>3. Solvency'
  BY <1>1 DEF IInv, Solvency, Owed, Live, Ids
<1>4. SharesWhole' /\ PlainRecipientIndexed'
  BY <1>1 DEF IInv, SharesWhole, Given, PlainRecipientIndexed, IsPlain, Ids
<1> QED
  BY <1>2, <1>3, <1>4 DEF IInv

\* A new stream is the last one, and is paid for.
LEMMA OpenStreamEffect ==
  ASSUME IInv, NEW owner \in Users, NEW recipient \in Accounts, NEW token \in Tokens,
         NEW total_amount \in Amounts, NEW duration \in Durations, NEW delay \in Nat,
         NEW grace \in Nat, NEW shared \in Seq(StreamSplit),
         OpenStream(owner, recipient, token, total_amount, duration, delay, grace, shared)
  PROVE  /\ counter' = counter + 1 /\ Ids' = Ids \cup {counter + 1} /\ counter + 1 \notin Ids
         /\ streams'[counter + 1].recipient = recipient
         /\ \A j \in Ids : streams'[j] = streams[j]
         /\ splits'[counter + 1] = shared
         /\ \A j \in Ids : splits'[j] = splits[j]
         /\ Solvency'
         /\ recipientIndex' \in [Accounts -> Seq(Ids')] => TypeOK'
<1>1. PICK id, q :
        /\ id = counter + 1
        /\ q = [owner |-> owner, recipient |-> recipient, token |-> token,
            total_amount |-> total_amount, claimed_amount |-> 0,
            start_ledger |-> ledger + delay, end_ledger |-> ledger + delay + duration,
            last_claimed_ledger |-> ledger + delay, created_ledger |-> ledger,
            grace_period_ledgers |-> grace, status |-> "Active",
            paused_at_ledger |-> 0, paused_ledgers |-> 0]
  OBVIOUS
<1>2. /\ total_amount > 0 /\ duration >= MinDuration
      /\ total_amount <= balance[token][owner]
      /\ balance' = [balance EXCEPT ![token][owner] = @ - total_amount,
                                    ![token][Contract] = @ + total_amount]
      /\ counter' = id /\ streams' = Append(streams, q) /\ splits' = Append(splits, shared)
      /\ ownerIndex' = [ownerIndex EXCEPT ![owner] = Append(@, id)]
      /\ ledger' = ledger
  BY <1>1 DEF OpenStream
<1>3. /\ ledger \in Nat \ {0} /\ counter \in Nat /\ id \in Nat /\ id = counter + 1
      /\ total_amount \in Nat \ {0} /\ duration \in Nat /\ ledger + delay \in Nat
      /\ ledger + delay + duration \in Nat
  BY <1>1, <1>2 DEF IInv, TypeOK
<1>4. q \in StreamEntry
  BY <1>1, <1>3 DEF StreamEntry, Statuses
<1>5. /\ q.recipient = recipient /\ q.token = token /\ q.total_amount = total_amount
      /\ q.claimed_amount = 0 /\ q.status = "Active" /\ q.paused_at_ledger = 0
      /\ q.start_ledger = ledger + delay /\ q.end_ledger = ledger + delay + duration
  BY <1>1
<1>6. Sound(q) /\ Rest(q) = total_amount
  <2>1. q.start_ledger + MinDuration <= q.end_ledger
    BY <1>2, <1>3, <1>5, SMTT(30)
  <2>2. Sound(q)
    BY <1>3, <1>5, <2>1 DEF Sound
  <2>3. Rest(q) = total_amount
    BY <1>3, <1>5 DEF Rest
  <2> QED
    BY <2>2, <2>3
<1>7. /\ streams' \in Seq(StreamEntry) /\ Len(streams') = id /\ streams'[id] = q
      /\ \A j \in Ids : streams'[j] = streams[j]
  <2>1. PICK S, old : S = StreamEntry /\ old = streams
    OBVIOUS
  <2>2. old \in Seq(S) /\ Len(old) = counter /\ counter \in Nat
    BY <2>1 DEF IInv, TypeOK
  <2>3. q \in S
    BY <1>4, <2>1
  <2>4. /\ Append(old, q) \in Seq(S) /\ Len(Append(old, q)) = counter + 1
        /\ Append(old, q)[counter + 1] = q
        /\ \A j \in 1..counter : Append(old, q)[j] = old[j]
    BY <2>2, <2>3
  <2> QED
    BY <1>2, <1>3, <2>1, <2>4 DEF Ids
<1>8. /\ splits' \in Seq(Seq(StreamSplit)) /\ Len(splits') = id /\ splits'[id] = shared
      /\ \A j \in Ids : splits'[j] = splits[j]
  <2>1. PICK S : S = Seq(StreamSplit)
    OBVIOUS
  <2>2. splits \in Seq(S) /\ Len(splits) = counter /\ shared \in S
    BY <2>1 DEF IInv, TypeOK
  <2>3. /\ Append(splits, shared) \in Seq(S) /\ Len(Append(splits, shared)) = counter + 1
        /\ Append(splits, shared)[counter + 1] = shared
        /\ \A j \in 1..counter : Append(splits, shared)[j] = splits[j]
    BY <1>3, <2>2
  <2> QED
    BY <1>2, <1>3, <2>1, <2>3 DEF Ids
<1>9. Ids' = Ids \cup {id} /\ id \notin Ids /\ Ids' = 1..id
  <2>1. 1..counter + 1 = 1..counter \cup {counter + 1} /\ counter + 1 \notin 1..counter
    BY <1>3
  <2> QED
    BY <1>2, <1>3, <2>1 DEF Ids
<1>10. /\ balance' \in [Tokens -> [Accounts -> Nat]]
       /\ balance'[token][Contract] = balance[token][Contract] + total_amount
       /\ \A t \in Tokens : t # token => balance'[t] = balance[t]
  <2>1. owner # Contract /\ owner \in Accounts /\ Contract \in Accounts
    BY DEF Accounts
  <2>2. balance \in [Tokens -> [Accounts -> Nat]]
    BY DEF IInv, TypeOK
  <2>3. balance[token][owner] - total_amount \in Nat /\ balance[token][Contract] + total_amount \in Nat
    BY <1>2, <1>3, <2>1, <2>2
  <2> QED
    BY <1>2, <2>1, <2>2, <2>3
<1>11. ownerIndex' \in [Users -> Seq(Ids')]
  <2>1. ownerIndex \in [Users -> Seq(Ids)]
    BY DEF IInv, TypeOK
  <2>2. \A u \in Users : ownerIndex[u] \in Seq(Ids')
    <3> SUFFICES ASSUME NEW u \in Users PROVE ownerIndex[u] \in Seq(Ids')
      OBVIOUS
    <3>1. PICK x : x = ownerIndex[u]
      OBVIOUS
    <3>2. x \in Seq(Ids)
      BY <2>1, <3>1
    <3>3. x \in Seq(Ids \cup {id})
      BY <3>2
    <3> QED
      BY <1>9, <3>1, <3>3
  <2>3. Append(ownerIndex[owner], id) \in Seq(Ids')
    BY <1>9, <2>2
  <2> QED
    BY <1>2, <2>1, <2>2, <2>3
<1>12. Solvency'
  <2> SUFFICES ASSUME NEW t \in Tokens
               PROVE  balance'[t][Contract] >= TotalOwed(t)'
    BY DEF Solvency, TotalOwed
  <2>1. PICK g : g = Owed(t)'
    OBVIOUS
  <2>2. \A j \in 1..id : g[j] = IF streams'[j].token = t THEN Rest(streams'[j]) ELSE 0
    BY <1>9, <2>1 DEF Owed, Live, Rest
  <2>3. \A j \in 1..counter :
          /\ Owed(t)[j] \in Int
          /\ Owed(t)[j] = IF streams[j].token = t THEN Rest(streams[j]) ELSE 0
    BY OwedType DEF IInv
  <2>4. g[id] = IF t = token THEN total_amount ELSE 0
    BY <1>3, <1>5, <1>6, <1>7, <2>2
  <2>5. \A j \in 1..counter : Owed(t)[j] \in Int /\ g[j] = Owed(t)[j]
    BY <1>3, <1>7, <2>2, <2>3 DEF Ids
  <2>6. Total(g, counter) = Total(Owed(t), counter)
    BY <1>3, <2>5, TotalAgree
  <2>7. Total(g, id) = Total(g, counter) + g[id]
    <3>1. g[id] \in Int
      BY <1>3, <2>4
    <3>2. \A j \in 1..id : g[j] \in Int
      BY <1>3, <2>5, <3>1
    <3>3. id \in 1..id /\ id - 1 = counter
      BY <1>3
    <3>4. \A n \in 1..id : Total(g, n) = Total(g, n - 1) + g[n]
      <4>1. id \in Nat
        BY <1>3
      <4> QED
        BY <3>2, <4>1, TotalRecursion
    <3>5. Total(g, id) = Total(g, id - 1) + g[id]
      BY <3>3, <3>4
    <3> QED
      BY <3>3, <3>5
  <2>8. TotalOwed(t)' = Total(g, id)
    BY <1>2, <2>1 DEF TotalOwed
  <2>9. balance[t][Contract] >= TotalOwed(t)
    BY DEF IInv, Solvency, TotalOwed
  <2>10. balance[t][Contract] \in Int
    BY DEF IInv, TypeOK, Accounts
  <2>11. TotalOwed(t) \in Int /\ TotalOwed(t) = Total(Owed(t), counter)
    BY OwedType DEF IInv, TotalOwed
  <2> QED
    BY <1>3, <1>10, <2>4, <2>6, <2>7, <2>8, <2>9, <2>10, <2>11
<1>13. \A j \in Ids' : Sound(streams'[j])
  BY <1>6, <1>7, <1>9, StreamSound DEF IInv
<1>14. recipientIndex' \in [Accounts -> Seq(Ids')] => TypeOK'
  BY <1>2, <1>3, <1>7, <1>8, <1>10, <1>11, <1>13 DEF TypeOK, Sound
<1> QED
  BY <1>1, <1>2, <1>5, <1>7, <1>8, <1>9, <1>12, <1>14

\* A list of ids is one of more ids.
LEMMA IndexWidens ==
  ASSUME IInv, Ids' = Ids \cup {counter + 1}, NEW a \in Accounts
  PROVE  recipientIndex[a] \in Seq(Ids) /\ recipientIndex[a] \in Seq(Ids')
<1>1. PICK x, id : x = recipientIndex[a] /\ id = counter + 1
  OBVIOUS
<1>2. x \in Seq(Ids)
  BY <1>1 DEF IInv, TypeOK
<1>3. x \in Seq(Ids \cup {id})
  BY <1>2
<1> QED
  BY <1>1, <1>2, <1>3

\* The shares of the old streams stay.
LEMMA OpenStreamShares ==
  ASSUME SharesWhole, Ids' = Ids \cup {counter + 1},
         NEW shared, splits'[counter + 1] = shared,
         \A j \in Ids : splits'[j] = splits[j],
         shared # <<>> => Given(shared, Len(shared)) = BasisPoints
  PROVE  SharesWhole'
BY DEF SharesWhole, Given

LEMMA CreateStreamKeeps ==
  ASSUME IInv, NEW owner \in Users, NEW recipient \in Users, NEW token \in Tokens,
         NEW total_amount \in Amounts, NEW duration \in Durations, NEW delay \in Delays,
         NEW grace \in Graces, NEW label,
         CreateStream(owner, recipient, token, total_amount, duration, grace, label, delay)
  PROVE  IInv'
<1>1. PICK id, shared : id = counter + 1 /\ shared = <<>>
  OBVIOUS
<1>2. shared \in Seq(StreamSplit) /\ recipient \in Accounts /\ delay \in Nat /\ grace \in Nat
  BY <1>1 DEF Accounts
<1>3. /\ OpenStream(owner, recipient, token, total_amount, duration, delay, grace, shared)
      /\ recipientIndex' = [recipientIndex EXCEPT ![recipient] = Append(@, id)]
  BY <1>1 DEF CreateStream
<1>4. /\ counter' = id /\ Ids' = Ids \cup {id} /\ id \notin Ids
      /\ streams'[id].recipient = recipient
      /\ \A j \in Ids : streams'[j] = streams[j]
      /\ splits'[id] = shared
      /\ \A j \in Ids : splits'[j] = splits[j]
      /\ Solvency'
      /\ recipientIndex' \in [Accounts -> Seq(Ids')] => TypeOK'
  BY <1>1, <1>2, <1>3, OpenStreamEffect
<1>5. \A a \in Accounts : recipientIndex[a] \in Seq(Ids) /\ recipientIndex[a] \in Seq(Ids')
  BY <1>1, <1>4, IndexWidens
<1>6. recipientIndex \in [Accounts -> Seq(Ids)]
  BY DEF IInv, TypeOK
<1>7. /\ recipientIndex'[recipient] = Append(recipientIndex[recipient], id)
      /\ \A a \in Accounts : a # recipient => recipientIndex'[a] = recipientIndex[a]
  BY <1>2, <1>3, <1>6
<1>8. \A a \in Accounts : ~Contains(recipientIndex[a], id)
  <2> SUFFICES ASSUME NEW a \in Accounts PROVE ~Contains(recipientIndex[a], id)
    OBVIOUS
  <2>1. PICK x : x = recipientIndex[a]
    OBVIOUS
  <2>2. x \in Seq(Ids)
    BY <1>5, <2>1
  <2>3. \A i \in 1..Len(x) : x[i] \in Ids
    BY <2>2
  <2> QED
    BY <1>4, <2>1, <2>3 DEF Contains
<1>9. PICK list : list = recipientIndex[recipient]
  OBVIOUS
<1>10. /\ Append(list, id) \in Seq(Ids')
       /\ \A y : Once(list, y) /\ y # id => Once(Append(list, id), y)
       /\ \A y : ~Contains(list, y) /\ y # id => ~Contains(Append(list, id), y)
       /\ ~Contains(list, id) => Once(Append(list, id), id)
  <2>1. list \in Seq(Ids') /\ id \in Ids'
    BY <1>2, <1>4, <1>5, <1>9
  <2> QED
    BY <2>1, AppendOnce
<1>11. TypeOK'
  <2>1. recipientIndex' \in [Accounts -> Seq(Ids')]
    <3>1. recipientIndex' = [a \in Accounts |-> recipientIndex'[a]]
      BY <1>3, <1>6
    <3>2. \A a \in Accounts : recipientIndex'[a] \in Seq(Ids')
      BY <1>5, <1>7, <1>9, <1>10
    <3> QED
      BY <3>1, <3>2
  <2> QED
    BY <1>4, <2>1
<1>12. PlainRecipientIndexed'
  <2> SUFFICES ASSUME NEW a \in Accounts, NEW j \in Ids', splits'[j] = <<>>
               PROVE  IF streams'[j].recipient = a THEN Once(recipientIndex'[a], j)
                                                   ELSE ~Contains(recipientIndex'[a], j)
    BY DEF PlainRecipientIndexed, IsPlain
  <2>1. CASE j = id
    BY <1>4, <1>7, <1>8, <1>9, <1>10, <2>1
  <2>2. CASE j # id
    <3>1. /\ j \in Ids /\ streams'[j] = streams[j]
          /\ IF streams[j].recipient = a THEN Once(recipientIndex[a], j)
                                         ELSE ~Contains(recipientIndex[a], j)
      BY <1>4, <2>2 DEF IInv, PlainRecipientIndexed, IsPlain
    <3>2. CASE a = recipient
      BY <1>7, <1>9, <1>10, <2>2, <3>1, <3>2
    <3>3. CASE a # recipient
      BY <1>7, <3>1, <3>3
    <3> QED
      BY <3>2, <3>3
  <2> QED
    BY <2>1, <2>2
<1>13. SharesWhole'
  BY <1>1, <1>4, OpenStreamShares DEF IInv
<1> QED
  BY <1>4, <1>11, <1>12, <1>13 DEF IInv

\* Copies of an id at the end of a list change nothing about the others.
LEMMA CopiesAtEnd ==
  ASSUME NEW I, NEW s \in Seq(I), NEW x \in I, NEW n \in Nat,
         NEW t, t = [i \in 1..n |-> x]
  PROVE  /\ s \o t \in Seq(I)
         /\ \A y : Once(s, y) /\ y # x => Once(s \o t, y)
         /\ \A y : ~Contains(s, y) /\ y # x => ~Contains(s \o t, y)
<1>1. t \in Seq(I) /\ Len(t) = n /\ \A i \in 1..n : t[i] = x
  OBVIOUS
<1>2. PICK u : u = s \o t
  OBVIOUS
<1>3. /\ u \in Seq(I) /\ Len(u) = Len(s) + n /\ Len(s) \in Nat
      /\ \A i \in 1..Len(s) + n : u[i] = IF i <= Len(s) THEN s[i] ELSE t[i - Len(s)]
  BY <1>1, <1>2, ConcatProperties
<1>4. /\ \A i \in 1..Len(s) : u[i] = s[i]
      /\ \A i \in 1..Len(u) : i > Len(s) => u[i] = x
  <2>1. ASSUME NEW i \in 1..Len(u), i > Len(s)
        PROVE  u[i] = x
    <3>1. u[i] = t[i - Len(s)] /\ i - Len(s) \in 1..n
      BY <1>3, <2>1
    <3> QED
      BY <1>1, <3>1
  <2>2. ASSUME NEW i \in 1..Len(s)
        PROVE  u[i] = s[i]
    BY <1>3
  <2> QED
    BY <2>1, <2>2
<1>5. ASSUME NEW y, Once(s, y), y # x
      PROVE  Once(u, y)
  <2>1. PICK k \in 1..Len(s) : \A i \in 1..Len(s) : s[i] = y <=> i = k
    BY <1>5 DEF Once
  <2>2. k \in 1..Len(u)
    BY <1>3
  <2>3. ASSUME NEW i \in 1..Len(u)
        PROVE  u[i] = y <=> i = k
    <3>1. CASE i <= Len(s)
      <4>1. i \in 1..Len(s)
        BY <1>3, <3>1
      <4> QED
        BY <1>4, <2>1, <4>1
    <3>2. CASE i > Len(s)
      BY <1>3, <1>4, <1>5, <3>2
    <3> QED
      BY <1>3, <3>1, <3>2
  <2> QED
    BY <2>2, <2>3 DEF Once
<1>6. ASSUME NEW y, ~Contains(s, y), y # x
      PROVE  ~Contains(u, y)
  <2> SUFFICES ASSUME NEW i \in 1..Len(u), u[i] = y PROVE FALSE
    BY DEF Contains
  <2>1. CASE i <= Len(s)
    <3>1. i \in 1..Len(s)
      BY <1>3, <2>1
    <3> QED
      BY <1>4, <1>6, <3>1 DEF Contains
  <2>2. CASE i > Len(s)
    BY <1>4, <1>6, <2>2
  <2> QED
    BY <1>3, <2>1, <2>2
<1> QED
  BY <1>2, <1>3, <1>5, <1>6

\* The lists of shares callers ask for.
LEMMA SplitListsType ==
  ASSUME NEW shared \in SplitLists
  PROVE  /\ shared \in Seq(StreamSplit) /\ Len(shared) \in Nat /\ DOMAIN shared = 1..Len(shared)
         /\ \A i \in 1..Len(shared) : shared[i] \in [recipient : Users, share : Shares]
<1>1. PICK m \in 0..MaxSplits : shared \in [1..m -> [recipient : Users, share : Shares]]
  BY DEF SplitLists
<1>2. [recipient : Users, share : Shares] \subseteq StreamSplit
  BY DEF StreamSplit
<1>3. shared \in [1..m -> StreamSplit] /\ m \in Nat
  BY <1>1, <1>2
<1>4. shared \in Seq(StreamSplit) /\ Len(shared) = m /\ DOMAIN shared = 1..m
  BY <1>3
<1> QED
  BY <1>1, <1>3, <1>4

LEMMA CreateSplitStreamKeeps ==
  ASSUME IInv, NEW owner \in Users, NEW shared \in SplitLists, NEW token \in Tokens,
         NEW total_amount \in Amounts, NEW duration \in Durations,
         CreateSplitStream(owner, shared, token, total_amount, duration)
  PROVE  IInv'
<1>1. PICK id, n : id = counter + 1 /\ n = Len(shared)
  OBVIOUS
<1>2. PICK copies : copies = [a \in Accounts |->
        [i \in 1..Cardinality({j \in 1..n : shared[j].recipient = a}) |-> id]]
  OBVIOUS
<1>3. shared \in Seq(StreamSplit) /\ Contract \in Accounts /\ n \in Nat
  <2>1. PICK m \in 0..MaxSplits : shared \in [1..m -> [recipient : Users, share : Shares]]
    BY DEF SplitLists
  <2>2. shared \in [1..m -> StreamSplit] /\ m \in Nat
    <3>1. [recipient : Users, share : Shares] \subseteq StreamSplit
      BY DEF StreamSplit
    <3> QED
      BY <2>1, <3>1
  <2>3. shared \in Seq(StreamSplit)
    BY <2>2
  <2> QED
    BY <1>1, <2>3 DEF Accounts
<1>4. /\ n > 1 /\ Given(shared, n) = BasisPoints
      /\ OpenStream(owner, Contract, token, total_amount, duration, 0, 0, shared)
      /\ recipientIndex' = [a \in Accounts |-> recipientIndex[a] \o copies[a]]
  BY <1>1, <1>2 DEF CreateSplitStream, Given
<1>5. /\ counter' = id /\ Ids' = Ids \cup {id} /\ id \notin Ids
      /\ \A j \in Ids : streams'[j] = streams[j]
      /\ splits'[id] = shared
      /\ \A j \in Ids : splits'[j] = splits[j]
      /\ Solvency'
      /\ recipientIndex' \in [Accounts -> Seq(Ids')] => TypeOK'
  <2>1. 0 \in Nat
    OBVIOUS
  <2> QED
    BY <1>1, <1>3, <1>4, <2>1, OpenStreamEffect
<1>6. ASSUME NEW a \in Accounts
      PROVE  /\ recipientIndex'[a] \in Seq(Ids')
             /\ \A y : Once(recipientIndex[a], y) /\ y # id => Once(recipientIndex'[a], y)
             /\ \A y : ~Contains(recipientIndex[a], y) /\ y # id => ~Contains(recipientIndex'[a], y)
  <2>1. PICK s, t, m : /\ s = recipientIndex[a] /\ t = copies[a]
                       /\ m = Cardinality({j \in 1..n : shared[j].recipient = a})
    OBVIOUS
  <2>2. m \in Nat
    <3>1. IsFiniteSet(1..n)
      BY <1>3, FS_Interval
    <3>2. {j \in 1..n : shared[j].recipient = a} \in SUBSET (1..n)
      OBVIOUS
    <3>3. IsFiniteSet({j \in 1..n : shared[j].recipient = a})
      BY <3>1, <3>2, FS_Subset
    <3> QED
      BY <2>1, <3>3, FS_CardinalityType
  <2>3. t = [i \in 1..m |-> id]
    BY <1>2, <2>1
  <2>4. PICK I : I = Ids'
    OBVIOUS
  <2>5. s \in Seq(I) /\ id \in I
    BY <1>1, <1>5, <2>1, <2>4, IndexWidens
  <2>6. recipientIndex'[a] = s \o t
    BY <1>4, <2>1
  <2>7. /\ s \o t \in Seq(I)
        /\ \A y : Once(s, y) /\ y # id => Once(s \o t, y)
        /\ \A y : ~Contains(s, y) /\ y # id => ~Contains(s \o t, y)
    BY <2>2, <2>3, <2>5, CopiesAtEnd
  <2> QED
    BY <2>1, <2>4, <2>6, <2>7
<1>7. TypeOK'
  <2>1. recipientIndex' = [a \in Accounts |-> recipientIndex'[a]]
    BY <1>4
  <2>2. recipientIndex' \in [Accounts -> Seq(Ids')]
    BY <1>6, <2>1
  <2> QED
    BY <1>5, <2>2
<1>8. shared # <<>>
  BY <1>1, <1>4
<1>9. PlainRecipientIndexed'
  <2> SUFFICES ASSUME NEW a \in Accounts, NEW j \in Ids', splits'[j] = <<>>
               PROVE  IF streams'[j].recipient = a THEN Once(recipientIndex'[a], j)
                                                   ELSE ~Contains(recipientIndex'[a], j)
    BY DEF PlainRecipientIndexed, IsPlain
  <2>1. j # id /\ j \in Ids
    BY <1>5, <1>8
  <2>2. /\ streams'[j] = streams[j]
        /\ IF streams[j].recipient = a THEN Once(recipientIndex[a], j)
                                       ELSE ~Contains(recipientIndex[a], j)
    BY <1>5, <2>1 DEF IInv, PlainRecipientIndexed, IsPlain
  <2> QED
    BY <1>6, <2>1, <2>2
<1>10. SharesWhole'
  BY <1>1, <1>4, <1>5, OpenStreamShares DEF IInv
<1> QED
  BY <1>5, <1>7, <1>9, <1>10 DEF IInv

-----------------------------------------------------------------------------
(* The theorems *)

LEMMA InitInv == Init => IInv
<1> SUFFICES ASSUME Init PROVE IInv
  OBVIOUS
<1>1. Ids = {} /\ counter = 0
  BY DEF Init, Ids
<1>2. TypeOK
  BY <1>1 DEF Init, TypeOK
<1>3. Solvency
  <2> SUFFICES ASSUME NEW t \in Tokens
               PROVE  balance[t][Contract] >= TotalOwed(t)
    BY DEF Solvency, TotalOwed
  <2>1. balance[t][Contract] = 0
    BY DEF Init, Accounts
  <2>2. 0 \in Nat /\ \A j \in 1..0 : Owed(t)[j] \in Int
    OBVIOUS
  <2>3. Total(Owed(t), 0) = 0
    BY <2>2, TotalRecursion
  <2> QED
    BY <1>1, <2>1, <2>3 DEF TotalOwed
<1>4. SharesWhole /\ PlainRecipientIndexed
  BY <1>1 DEF SharesWhole, PlainRecipientIndexed
<1> QED
  BY <1>2, <1>3, <1>4 DEF IInv

LEMMA StepInv == IInv /\ [Next]_vars => IInv'
<1> SUFFICES ASSUME IInv, [Next]_vars PROVE IInv'
  OBVIOUS
<1>1. CASE CloseLedger
  BY <1>1, CloseLedgerKeeps
<1>2. CASE Create
  BY <1>2, CreateStreamKeeps, CreateSplitStreamKeeps DEF Create
<1>3. ASSUME NEW id \in Ids, Tick(id) PROVE IInv'
  BY <1>3, TickKeeps
<1>4. ASSUME NEW id \in Ids, Pause(id) PROVE IInv'
  BY <1>4, PauseKeeps
<1>5. ASSUME NEW id \in Ids, Resume(id) PROVE IInv'
  BY <1>5, ResumeKeeps
<1>6. ASSUME NEW id \in Ids, Cancel(id) PROVE IInv'
  BY <1>6, CancelKeeps
<1>7. ASSUME NEW id \in Ids, NEW caller \in Users, Claim(id, caller) PROVE IInv'
  BY <1>7, ClaimKeeps
<1>8. ASSUME NEW id \in Ids, NEW new_recipient \in Users, ChangeRecipient(id, new_recipient)
      PROVE  IInv'
  BY <1>8, ChangeRecipientKeeps
<1>9. CASE UNCHANGED vars
  <2>1. UNCHANGED <<ledger, counter, streams, splits, ownerIndex, recipientIndex, balance>>
    BY <1>9 DEF vars
  <2>2. TypeOK'
    BY <2>1 DEF IInv, TypeOK, Ids
  <2>3. Solvency'
    BY <2>1 DEF IInv, Solvency, Owed, Live, Ids
  <2>4. SharesWhole' /\ PlainRecipientIndexed'
    BY <2>1 DEF IInv, SharesWhole, Given, PlainRecipientIndexed, IsPlain, Ids
  <2> QED
    BY <2>2, <2>3, <2>4 DEF IInv
<1> QED
  BY <1>1, <1>2, <1>3, <1>4, <1>5, <1>6, <1>7, <1>8, <1>9 DEF Next

LEMMA Invariance == Spec => []IInv
BY InitInv, StepInv, PTL DEF Spec

\* Every variable keeps its type, and no more is ever claimed than was put in.
THEOREM TypeCorrect == Spec => []TypeOK
<1>1. IInv => TypeOK
  BY DEF IInv
<1> QED
  BY <1>1, Invariance, PTL

\* The contract always has what its streams still have to give out, of every token.
THEOREM Solvent == Spec => []Solvency
<1>1. IInv => Solvency
  BY DEF IInv
<1> QED
  BY <1>1, Invariance, PTL

\* A product grows with its factor.
LEMMA ProductGrows ==
  ASSUME NEW a \in Nat, NEW b \in Nat, a <= b, NEW c \in Nat
  PROVE  c * a \in Nat /\ c * b \in Nat /\ c * a <= c * b
<1>1. c * (b - a) \in Nat
  OBVIOUS
<1>2. c * (b - a) = c * b - c * a
  OBVIOUS
<1>3. c * a \in Nat /\ c * b \in Nat
  OBVIOUS
<1> QED
  BY <1>1, <1>2, <1>3

\* No product of a payout is larger than that of the whole amount.
LEMMA ModestFits ==
  ASSUME IInv, NEW id \in Ids, Modest(id)
  PROVE  VestingFits(id) /\ SharesFit(id)
<1>1. PICK s, d, active, claimable :
        /\ s = streams[id] /\ d = s.end_ledger - s.start_ledger
        /\ active = active_ledgers(s, ledger) /\ claimable = claimable_amount(s, ledger)
  OBVIOUS
<1>2. /\ s.total_amount \in Nat /\ s.claimed_amount \in Nat /\ s.start_ledger \in Nat
      /\ s.end_ledger \in Nat /\ s.paused_ledgers \in Nat
      /\ s.start_ledger + MinDuration <= s.end_ledger
  BY <1>1, StreamType, StreamSound DEF StreamEntry, Sound, IInv
<1>3. d \in Nat /\ active \in Nat /\ active <= d
  <2>1. ledger \in Nat
    BY DEF IInv, TypeOK
  <2>2. d \in Nat
    BY <1>1, <1>2
  <2>3. active = Larger(0, Smaller(ledger, s.end_ledger) - s.start_ledger - s.paused_ledgers)
    BY <1>1 DEF active_ledgers
  <2> QED
    BY <1>1, <1>2, <2>1, <2>2, <2>3 DEF Smaller, Larger
<1>4. s.total_amount * active <= MaxI128
  <2>1. s.total_amount * d <= MaxI128
    BY <1>1 DEF Modest
  <2>2. /\ s.total_amount * active \in Nat /\ s.total_amount * d \in Nat
        /\ s.total_amount * active <= s.total_amount * d
    BY <1>2, <1>3, ProductGrows
  <2> QED
    BY <2>1, <2>2, MaxI128Assumption
<1>5. claimable \in Nat /\ claimable <= s.total_amount
  BY <1>1, <1>2, ClaimableType DEF IInv
<1>6. ASSUME NEW i \in 1..Len(Shared(id)) - 1
      PROVE  claimable * Shared(id)[i].share <= MaxI128
  <2>1. PICK share : share = Shared(id)[i].share
    OBVIOUS
  <2>2. Len(Shared(id)) \in Nat /\ \A j \in 1..Len(Shared(id)) : Shared(id)[j].share \in Nat
    BY SharedType DEF IInv
  <2>3. share \in Nat
    BY <2>1, <2>2
  <2>4. s.total_amount * share <= MaxI128
    BY <1>1, <2>1 DEF Modest
  <2>5. /\ share * claimable \in Nat /\ share * s.total_amount \in Nat
        /\ share * claimable <= share * s.total_amount
    BY <1>2, <1>5, <2>3, ProductGrows
  <2>6. share * claimable = claimable * share /\ share * s.total_amount = s.total_amount * share
    BY <1>2, <1>5, <2>3
  <2> QED
    BY <2>1, <2>4, <2>5, <2>6, MaxI128Assumption
<1> QED
  BY <1>1, <1>4, <1>6 DEF VestingFits, SharesFit

\* The owner of a stream that is not over can always cancel it, unless it is so large
\* that a product of its payout does not fit into an i128.
THEOREM NeverLocked == Spec => []CanBeCancelled
<1>1. IInv => CanBeCancelled
  <2> SUFFICES ASSUME IInv, NEW id \in Ids, Live(id), Modest(id)
               PROVE  CanCancel(id)
    BY DEF CanBeCancelled
  <2>1. PICK s, token : s = streams[id] /\ token = s.token
    OBVIOUS
  <2>2. s \in StreamEntry /\ token \in Tokens /\ s.status \in {"Active", "Paused"}
    BY <2>1, StreamType DEF IInv, StreamEntry, Live
  <2>3. counter \in Nat /\ id \in 1..counter /\ balance[token][Contract] \in Nat
    BY <2>2 DEF IInv, TypeOK, Ids, Accounts
  <2>4. \A i \in 1..counter : Owed(token)[i] \in Nat
    BY <2>2, OwedType DEF IInv
  <2>5. Owed(token)[id] = s.total_amount - s.claimed_amount
    BY <2>1, <2>3 DEF Owed, Ids
  <2>6. Owed(token)[id] <= Total(Owed(token), counter)
    BY <2>3, <2>4, TotalCovers
  <2>7. /\ Total(Owed(token), counter) <= balance[token][Contract]
        /\ Total(Owed(token), counter) \in Int /\ Owed(token)[id] \in Nat
    BY <2>2, <2>3, <2>4, OwedType DEF IInv, Solvency, TotalOwed
  <2>8. s.total_amount - s.claimed_amount <= balance[token][Contract]
    BY <2>3, <2>5, <2>6, <2>7
  <2> QED
    BY <2>1, <2>2, <2>8, ModestFits DEF CanCancel, CanPayOut
<1> QED
  BY <1>1, Invariance, PTL

\* A stream with one recipient is in that recipient's list, once, and in no other,
\* however often change_recipient moved it.
THEOREM RecipientIndexCorrect == Spec => []PlainRecipientIndexed
<1>1. IInv => PlainRecipientIndexed
  BY DEF IInv
<1> QED
  BY <1>1, Invariance, PTL

-----------------------------------------------------------------------------
(* Whom a split stream is listed for *)

\* What SplitRecipientIndexed says of one stream.
SplitListed(id) ==
  LET recipient == streams[id].recipient
      sharers   == {splits[id][i].recipient : i \in DOMAIN splits[id]}
  IN  /\ \A a \in Accounts : Contains(recipientIndex[a], id) => a = recipient \/ a \in sharers
      /\ recipient # Contract => Contains(recipientIndex[recipient], id)

\* It stays so of a stream whose recipient and splits stay, and that comes into no
\* list and goes out of none.
LEMMA SplitListedStays ==
  ASSUME NEW id, IsPlain(id) \/ SplitListed(id), streams[id].recipient \in Accounts,
         streams'[id].recipient = streams[id].recipient, splits'[id] = splits[id],
         \A a \in Accounts : Contains(recipientIndex'[a], id) <=> Contains(recipientIndex[a], id)
  PROVE  IsPlain(id)' \/ SplitListed(id)'
BY DEF IsPlain, SplitListed

\* Every stream has its recipient, and is as SplitRecipientIndexed says.
LEMMA SplitListedAll ==
  ASSUME IInv, SplitRecipientIndexed
  PROVE  \A id \in Ids : /\ streams[id].recipient \in Accounts
                         /\ IsPlain(id) \/ SplitListed(id)
<1>1. \A id \in Ids : streams[id].recipient \in Accounts
  BY StreamType DEF IInv, StreamEntry
<1> QED
  BY <1>1 DEF SplitRecipientIndexed, SplitListed

\* The steps that leave lists, splits and recipients alone.
LEMMA SplitQuiet ==
  ASSUME IInv, SplitRecipientIndexed, UNCHANGED <<counter, splits, recipientIndex>>,
         \A id \in Ids : streams'[id].recipient = streams[id].recipient
  PROVE  SplitRecipientIndexed'
<1>1. Ids' = Ids
  BY DEF Ids
<1>2. \A id \in Ids : IsPlain(id)' \/ SplitListed(id)'
  BY SplitListedAll, SplitListedStays
<1> QED
  BY <1>1, <1>2 DEF SplitRecipientIndexed, SplitListed

\* A new stream is entered in lists that did not have it, and the old ones stay there.
LEMMA SplitCreated ==
  ASSUME IInv, SplitRecipientIndexed, NEW id, id = counter + 1,
         Ids' = Ids \cup {id},
         \A j \in Ids : streams'[j] = streams[j] /\ splits'[j] = splits[j],
         \A a \in Accounts, j \in Ids :
           Contains(recipientIndex'[a], j) <=> Contains(recipientIndex[a], j),
         IsPlain(id)' \/ SplitListed(id)'
  PROVE  SplitRecipientIndexed'
<1>1. \A j \in Ids : IsPlain(j)' \/ SplitListed(j)'
  BY SplitListedAll, SplitListedStays
<1> QED
  BY <1>1 DEF SplitRecipientIndexed, SplitListed

\* No list has an id that is not given out.
LEMMA NewIdUnlisted ==
  ASSUME IInv, NEW id, id \notin Ids, NEW a \in Accounts
  PROVE  ~Contains(recipientIndex[a], id)
<1>1. PICK x : x = recipientIndex[a]
  OBVIOUS
<1>2. x \in Seq(Ids)
  BY <1>1 DEF IInv, TypeOK
<1>3. \A i \in 1..Len(x) : x[i] \in Ids
  BY <1>2
<1> QED
  BY <1>1, <1>3 DEF Contains

\* A list with copies of an id at its end has what it had, and that id if there are any.
LEMMA CopiesContains ==
  ASSUME NEW I, NEW s \in Seq(I), NEW x \in I, NEW n \in Nat,
         NEW t, t = [i \in 1..n |-> x], NEW y
  PROVE  Contains(s \o t, y) <=> Contains(s, y) \/ (y = x /\ n > 0)
<1>1. t \in Seq(I) /\ Len(t) = n /\ \A i \in 1..n : t[i] = x
  OBVIOUS
<1>2. PICK u : u = s \o t
  OBVIOUS
<1>3. /\ Len(u) = Len(s) + n /\ Len(s) \in Nat
      /\ \A i \in 1..Len(s) + n : u[i] = IF i <= Len(s) THEN s[i] ELSE t[i - Len(s)]
  BY <1>1, <1>2, ConcatProperties
<1>4. ASSUME NEW i \in 1..Len(u)
      PROVE  (i \in 1..Len(s) /\ u[i] = s[i]) \/ (n > 0 /\ u[i] = x)
  <2>1. CASE i <= Len(s)
    BY <1>3, <2>1
  <2>2. CASE i > Len(s)
    <3>1. u[i] = t[i - Len(s)] /\ i - Len(s) \in 1..n
      BY <1>3, <2>2
    <3> QED
      BY <1>1, <3>1
  <2> QED
    BY <1>3, <2>1, <2>2
<1>5. \A i \in 1..Len(s) : i \in 1..Len(u) /\ u[i] = s[i]
  BY <1>3
<1>6. n > 0 => Len(s) + 1 \in 1..Len(u) /\ u[Len(s) + 1] = x
  <2> SUFFICES ASSUME n > 0 PROVE Len(s) + 1 \in 1..Len(u) /\ u[Len(s) + 1] = x
    OBVIOUS
  <2>1. Len(s) + 1 \in 1..Len(u) /\ u[Len(s) + 1] = t[1]
    BY <1>3
  <2> QED
    BY <1>1, <2>1
<1>7. Contains(u, y) => Contains(s, y) \/ (y = x /\ n > 0)
  BY <1>4 DEF Contains
<1>8. Contains(s, y) \/ (y = x /\ n > 0) => Contains(u, y)
  BY <1>5, <1>6 DEF Contains
<1> QED
  BY <1>2, <1>7, <1>8

LEMMA CreateStreamLists ==
  ASSUME IInv, SplitRecipientIndexed,
         NEW owner \in Users, NEW recipient \in Users, NEW token \in Tokens,
         NEW total_amount \in Amounts, NEW duration \in Durations, NEW delay \in Delays,
         NEW grace \in Graces, NEW label,
         CreateStream(owner, recipient, token, total_amount, duration, grace, label, delay)
  PROVE  SplitRecipientIndexed'
<1>1. PICK id, shared : id = counter + 1 /\ shared = <<>>
  OBVIOUS
<1>2. shared \in Seq(StreamSplit) /\ recipient \in Accounts /\ delay \in Nat /\ grace \in Nat
  BY <1>1 DEF Accounts
<1>3. /\ OpenStream(owner, recipient, token, total_amount, duration, delay, grace, shared)
      /\ recipientIndex' = [recipientIndex EXCEPT ![recipient] = Append(@, id)]
  BY <1>1 DEF CreateStream
<1>4. /\ Ids' = Ids \cup {id} /\ id \notin Ids /\ splits'[id] = shared
      /\ \A j \in Ids : streams'[j] = streams[j] /\ splits'[j] = splits[j]
  BY <1>1, <1>2, <1>3, OpenStreamEffect
<1>5. ASSUME NEW a \in Accounts, NEW j \in Ids
      PROVE  Contains(recipientIndex'[a], j) <=> Contains(recipientIndex[a], j)
  <2>1. recipientIndex \in [Accounts -> Seq(Ids)]
    BY DEF IInv, TypeOK
  <2>2. CASE a = recipient
    <3>1. PICK I, list : I = Ids' /\ list = recipientIndex[a]
      OBVIOUS
    <3>2. list \in Seq(I) /\ id \in I /\ j # id
      BY <1>1, <1>4, <3>1, IndexWidens
    <3>3. recipientIndex'[a] = Append(list, id)
      BY <1>3, <2>1, <2>2, <3>1
    <3>4. Contains(Append(list, id), j) <=> Contains(list, j)
      BY <3>2, AppendContains
    <3> QED
      BY <3>1, <3>3, <3>4
  <2>3. CASE a # recipient
    BY <1>3, <2>1, <2>3
  <2> QED
    BY <2>2, <2>3
<1>6. IsPlain(id)'
  BY <1>1, <1>4 DEF IsPlain
<1> QED
  BY <1>1, <1>4, <1>5, <1>6, SplitCreated

LEMMA CreateSplitStreamLists ==
  ASSUME IInv, SplitRecipientIndexed,
         NEW owner \in Users, NEW shared \in SplitLists, NEW token \in Tokens,
         NEW total_amount \in Amounts, NEW duration \in Durations,
         CreateSplitStream(owner, shared, token, total_amount, duration)
  PROVE  SplitRecipientIndexed'
<1>1. PICK id, n : id = counter + 1 /\ n = Len(shared)
  OBVIOUS
<1>2. PICK m \in 0..MaxSplits : shared \in [1..m -> [recipient : Users, share : Shares]]
  BY DEF SplitLists
<1>3. /\ m \in Nat /\ n = m /\ DOMAIN shared = 1..n /\ n \in Nat
      /\ \A i \in 1..n : shared[i] \in [recipient : Users, share : Shares]
  BY <1>1, <1>2
<1>4. shared \in Seq(StreamSplit) /\ Contract \in Accounts
  <2>1. [recipient : Users, share : Shares] \subseteq StreamSplit
    BY DEF StreamSplit
  <2>2. shared \in [1..m -> StreamSplit]
    BY <1>2, <2>1
  <2> QED
    BY <1>3, <2>2 DEF Accounts
<1>5. /\ OpenStream(owner, Contract, token, total_amount, duration, 0, 0, shared)
      /\ recipientIndex' = [a \in Accounts |-> recipientIndex[a] \o
           [i \in 1..Cardinality({j \in 1..n : shared[j].recipient = a}) |-> id]]
  BY <1>1 DEF CreateSplitStream
<1>6. /\ Ids' = Ids \cup {id} /\ id \notin Ids /\ splits'[id] = shared
      /\ streams'[id].recipient = Contract
      /\ \A j \in Ids : streams'[j] = streams[j] /\ splits'[j] = splits[j]
  <2>1. 0 \in Nat
    OBVIOUS
  <2> QED
    BY <1>1, <1>4, <1>5, <2>1, OpenStreamEffect
<1>7. ASSUME NEW a \in Accounts
      PROVE  /\ \A j \in Ids : Contains(recipientIndex'[a], j) <=> Contains(recipientIndex[a], j)
             /\ Contains(recipientIndex'[a], id) => \E j \in 1..n : shared[j].recipient = a
  <2>1. PICK P : P = {j \in 1..n : shared[j].recipient = a}
    OBVIOUS
  <2>2. PICK s, t, k : /\ s = recipientIndex[a] /\ t = [i \in 1..k |-> id]
                       /\ k = Cardinality(P)
    OBVIOUS
  <2>3. k \in Nat /\ (k > 0 => P # {})
    <3>1. IsFiniteSet(1..n)
      BY <1>3, FS_Interval
    <3>2. IsFiniteSet(P)
      BY <2>1, <3>1, FS_Subset
    <3> QED
      BY <2>2, <3>2, FS_CardinalityType, FS_EmptySet
  <2>4. PICK I : I = Ids'
    OBVIOUS
  <2>5. s \in Seq(I) /\ id \in I
    BY <1>1, <1>6, <2>2, <2>4, IndexWidens
  <2>6. recipientIndex'[a] = s \o t
    BY <1>5, <2>1, <2>2
  <2>7. \A y : Contains(s \o t, y) <=> Contains(s, y) \/ (y = id /\ k > 0)
    BY <2>2, <2>3, <2>5, CopiesContains
  <2>8. ~Contains(s, id)
    BY <1>6, <2>2, NewIdUnlisted
  <2>9. P # {} => \E j \in 1..n : shared[j].recipient = a
    BY <2>1
  <2> QED
    BY <1>6, <2>2, <2>3, <2>6, <2>7, <2>8, <2>9
<1>8. SplitListed(id)'
  <2>1. \A a \in Accounts : Contains(recipientIndex'[a], id) =>
          a \in {shared[i].recipient : i \in DOMAIN shared}
    BY <1>3, <1>7
  <2> QED
    BY <1>6, <2>1 DEF SplitListed
<1> QED
  BY <1>1, <1>6, <1>7, <1>8, SplitCreated

LEMMA ChangeRecipientLists ==
  ASSUME IInv, SplitRecipientIndexed,
         NEW id \in Ids, NEW new_recipient \in Users, ChangeRecipient(id, new_recipient)
  PROVE  SplitRecipientIndexed'
<1>1. PICK old, q : /\ old = streams[id].recipient
                    /\ q = [streams[id] EXCEPT !.recipient = new_recipient]
  OBVIOUS
<1>2. /\ streams[id] \in StreamEntry /\ id \in DOMAIN streams
      /\ old \in Accounts /\ new_recipient \in Accounts
      /\ q \in StreamEntry /\ q.recipient = new_recipient
  <2>1. streams[id] \in StreamEntry /\ id \in DOMAIN streams
    BY StreamType DEF IInv, TypeOK, Ids
  <2>2. old \in Accounts /\ new_recipient \in Accounts
    BY <1>1, <2>1 DEF StreamEntry, Accounts
  <2> QED
    BY <1>1, <2>1, <2>2 DEF StreamEntry
<1>3. /\ old # new_recipient /\ streams' = [streams EXCEPT ![id] = q]
      /\ UNCHANGED <<counter, splits>>
  BY <1>1, <1>2 DEF ChangeRecipient
<1>4. recipientIndex \in [Accounts -> Seq(Ids)]
  BY DEF IInv, TypeOK
<1>5. PICK before, left, list, added :
        /\ before = recipientIndex[old] /\ left = Without(before, id)
        /\ list = recipientIndex[new_recipient]
        /\ added = IF Contains(list, id) THEN list ELSE Append(list, id)
  OBVIOUS
<1>6. before \in Seq(Ids) /\ list \in Seq(Ids)
  BY <1>2, <1>4, <1>5
<1>7. recipientIndex' = [[recipientIndex EXCEPT ![old] = left] EXCEPT ![new_recipient] = added]
  BY <1>1, <1>2, <1>3, <1>4, <1>5 DEF ChangeRecipient
<1>8. /\ recipientIndex'[old] = left /\ recipientIndex'[new_recipient] = added
      /\ \A a \in Accounts : a \notin {old, new_recipient} => recipientIndex'[a] = recipientIndex[a]
  BY <1>2, <1>3, <1>4, <1>7
<1>9. ~Contains(left, id) /\ \A y : y # id => (Contains(left, y) <=> Contains(before, y))
  BY <1>5, <1>6, WithoutLeaves
<1>10. Contains(added, id) /\ \A y : y # id => (Contains(added, y) <=> Contains(list, y))
  <2>1. \A y : Contains(Append(list, id), y) <=> Contains(list, y) \/ y = id
    BY <1>6, AppendContains
  <2> QED
    BY <1>5, <2>1
<1>11. streams'[id] = q /\ Ids' = Ids /\ \A j \in Ids : j # id => streams'[j] = streams[j]
  BY <1>2, <1>3, StreamsExcept DEF IInv, Ids
<1>12. ASSUME NEW j \in Ids, j # id
       PROVE  IsPlain(j)' \/ SplitListed(j)'
  <2>1. \A a \in Accounts : Contains(recipientIndex'[a], j) <=> Contains(recipientIndex[a], j)
    BY <1>5, <1>8, <1>9, <1>10, <1>12
  <2>2. streams'[j].recipient = streams[j].recipient /\ splits'[j] = splits[j]
    BY <1>3, <1>11, <1>12
  <2> QED
    BY <2>1, <2>2, SplitListedAll, SplitListedStays
<1>13. IsPlain(id)' \/ SplitListed(id)'
  <2> SUFFICES ASSUME ~IsPlain(id) PROVE SplitListed(id)'
    BY <1>3 DEF IsPlain
  <2>1. PICK sharers : sharers = {splits[id][i].recipient : i \in DOMAIN splits[id]}
    OBVIOUS
  <2>2. \A a \in Accounts : Contains(recipientIndex[a], id) => a = old \/ a \in sharers
    BY <1>1, <2>1, SplitListedAll DEF SplitListed
  <2>3. \A a \in Accounts : Contains(recipientIndex'[a], id) => a = new_recipient \/ a \in sharers
    BY <1>8, <1>9, <2>2
  <2>4. streams'[id].recipient = new_recipient /\ splits'[id] = splits[id]
    BY <1>2, <1>3, <1>11
  <2> QED
    BY <1>8, <1>10, <2>1, <2>3, <2>4 DEF SplitListed
<1> QED
  BY <1>11, <1>12, <1>13 DEF SplitRecipientIndexed, SplitListed

LEMMA SplitStep ==
  IInv /\ SplitRecipientIndexed /\ [Next]_vars => SplitRecipientIndexed'
<1> SUFFICES ASSUME IInv, SplitRecipientIndexed, [Next]_vars
             PROVE  SplitRecipientIndexed'
  OBVIOUS
<1>1. streams \in Seq(StreamEntry) /\ \A id \in Ids : id \in DOMAIN streams
  BY DEF IInv, TypeOK, Ids
<1>2. CASE CloseLedger
  BY <1>2, SplitQuiet DEF CloseLedger
<1>3. CASE Create
  BY <1>3, CreateStreamLists, CreateSplitStreamLists DEF Create
<1>4. ASSUME NEW id \in Ids, Tick(id) PROVE SplitRecipientIndexed'
  <2>1. /\ UNCHANGED <<counter, splits, recipientIndex>>
        /\ streams' = [streams EXCEPT ![id].status = "Completed"]
    BY <1>4 DEF Tick
  <2> QED
    BY <1>1, <2>1, StreamType, SplitQuiet DEF StreamEntry, IInv
<1>5. ASSUME NEW id \in Ids, Pause(id) PROVE SplitRecipientIndexed'
  <2>1. /\ UNCHANGED <<counter, splits, recipientIndex>>
        /\ streams' = [streams EXCEPT ![id].status = "Paused", ![id].paused_at_ledger = ledger]
    BY <1>5 DEF Pause
  <2> QED
    BY <1>1, <2>1, StreamType, SplitQuiet DEF StreamEntry, IInv
<1>6. ASSUME NEW id \in Ids, Resume(id) PROVE SplitRecipientIndexed'
  <2>1. UNCHANGED <<counter, splits, recipientIndex>>
    BY <1>6 DEF Resume
  <2>2. \A j \in Ids : streams'[j].recipient = streams[j].recipient
    BY <1>1, <1>6, StreamType DEF Resume, StreamEntry, IInv
  <2> QED
    BY <2>1, <2>2, SplitQuiet
<1>7. ASSUME NEW id \in Ids, Cancel(id) PROVE SplitRecipientIndexed'
  <2>1. UNCHANGED <<counter, splits, recipientIndex>>
    BY <1>7 DEF Cancel
  <2>2. \A j \in Ids : streams'[j].recipient = streams[j].recipient
    BY <1>1, <1>7, StreamType DEF Cancel, StreamEntry, IInv
  <2> QED
    BY <2>1, <2>2, SplitQuiet
<1>8. ASSUME NEW id \in Ids, NEW caller \in Users, Claim(id, caller)
      PROVE  SplitRecipientIndexed'
  <2>1. UNCHANGED <<counter, splits, recipientIndex>>
    BY <1>8 DEF Claim
  <2>2. \A j \in Ids : streams'[j].recipient = streams[j].recipient
    BY <1>1, <1>8, StreamType DEF Claim, StreamEntry, IInv
  <2> QED
    BY <2>1, <2>2, SplitQuiet
<1>9. ASSUME NEW id \in Ids, NEW new_recipient \in Users, ChangeRecipient(id, new_recipient)
      PROVE  SplitRecipientIndexed'
  BY <1>9, ChangeRecipientLists
<1>10. CASE UNCHANGED vars
  BY <1>10, SplitQuiet DEF vars
<1> QED
  BY <1>2, <1>3, <1>4, <1>5, <1>6, <1>7, <1>8, <1>9, <1>10 DEF Next

\* A split stream is listed for those it pays and for the recipient change_recipient
\* gave it last, and for nobody it was given in between.
THEOREM SplitIndexCorrect == Spec => []SplitRecipientIndexed
<1>1. Init => SplitRecipientIndexed
  BY DEF Init, Ids, SplitRecipientIndexed
<1>2. IInv /\ SplitRecipientIndexed /\ [Next]_vars => SplitRecipientIndexed'
  BY SplitStep
<1> QED
  BY <1>1, <1>2, Invariance, PTL DEF Spec

-----------------------------------------------------------------------------
(* Whom a stream pays *)

\* A stream with one recipient pays a user, never the contract itself, and stays
\* with a user whoever it is moved to.
PlainPaysUser == \A id \in Ids : IsPlain(id) => streams[id].recipient \in Users

LEMMA PlainPaysQuiet ==
  ASSUME PlainPaysUser, UNCHANGED <<counter, splits>>,
         \A id \in Ids : streams'[id].recipient \in {streams[id].recipient} \cup Users
  PROVE  PlainPaysUser'
BY DEF PlainPaysUser, IsPlain, Ids

LEMMA PlainPaysStep ==
  IInv /\ PlainPaysUser /\ [Next]_vars => PlainPaysUser'
<1> SUFFICES ASSUME IInv, PlainPaysUser, [Next]_vars
             PROVE  PlainPaysUser'
  OBVIOUS
<1>1. streams \in Seq(StreamEntry) /\ \A id \in Ids : id \in DOMAIN streams
  BY DEF IInv, TypeOK, Ids
<1>2. CASE CloseLedger
  BY <1>2, PlainPaysQuiet DEF CloseLedger
<1>3. ASSUME NEW owner \in Users, NEW recipient \in Accounts, NEW token \in Tokens,
             NEW total_amount \in Amounts, NEW duration \in Durations, NEW delay \in Nat,
             NEW grace \in Nat, NEW shared \in Seq(StreamSplit),
             shared = <<>> => recipient \in Users,
             OpenStream(owner, recipient, token, total_amount, duration, delay, grace, shared)
      PROVE  PlainPaysUser'
  <2>1. PICK id : id = counter + 1
    OBVIOUS
  <2>2. /\ Ids' = Ids \cup {id} /\ streams'[id].recipient = recipient /\ splits'[id] = shared
        /\ \A j \in Ids : streams'[j] = streams[j] /\ splits'[j] = splits[j]
    BY <1>3, <2>1, OpenStreamEffect
  <2> QED
    BY <1>3, <2>2 DEF PlainPaysUser, IsPlain
<1>4. CASE Create
  <2>1. ASSUME NEW owner \in Users, NEW recipient \in Users, NEW token \in Tokens,
               NEW total_amount \in Amounts, NEW duration \in Durations, NEW delay \in Delays,
               NEW grace \in Graces, NEW label,
               CreateStream(owner, recipient, token, total_amount, duration, grace, label, delay)
        PROVE  PlainPaysUser'
    <3>1. recipient \in Accounts /\ delay \in Nat /\ grace \in Nat /\ <<>> \in Seq(StreamSplit)
      BY DEF Accounts
    <3> QED
      BY <1>3, <2>1, <3>1 DEF CreateStream
  <2>2. ASSUME NEW owner \in Users, NEW shared \in SplitLists, NEW token \in Tokens,
               NEW total_amount \in Amounts, NEW duration \in Durations,
               CreateSplitStream(owner, shared, token, total_amount, duration)
        PROVE  PlainPaysUser'
    <3>1. shared \in Seq(StreamSplit) /\ 0 \in Nat /\ Contract \in Accounts
      BY SplitListsType DEF Accounts
    <3>2. shared # <<>>
      BY <2>2, EmptySeq DEF CreateSplitStream
    <3> QED
      BY <1>3, <2>2, <3>1, <3>2 DEF CreateSplitStream
  <2> QED
    BY <1>4, <2>1, <2>2 DEF Create
<1>5. ASSUME NEW id \in Ids, Tick(id) \/ Pause(id) \/ Resume(id) \/ Cancel(id)
      PROVE  PlainPaysUser'
  <2>1. UNCHANGED <<counter, splits>>
    BY <1>5 DEF Tick, Pause, Resume, Cancel
  <2>2. \A j \in Ids : streams'[j].recipient = streams[j].recipient
    <3>1. CASE Tick(id)
      BY <1>1, <3>1, StreamType DEF Tick, StreamEntry, IInv
    <3>2. CASE Pause(id)
      BY <1>1, <3>2, StreamType DEF Pause, StreamEntry, IInv
    <3>3. CASE Resume(id)
      BY <1>1, <3>3, StreamType DEF Resume, StreamEntry, IInv
    <3>4. CASE Cancel(id)
      BY <1>1, <3>4, StreamType DEF Cancel, StreamEntry, IInv
    <3> QED
      BY <1>5, <3>1, <3>2, <3>3, <3>4
  <2> QED
    BY <2>1, <2>2, PlainPaysQuiet
<1>6. ASSUME NEW id \in Ids, NEW caller \in Users, Claim(id, caller)
      PROVE  PlainPaysUser'
  <2>1. UNCHANGED <<counter, splits>>
    BY <1>6 DEF Claim
  <2>2. \A j \in Ids : streams'[j].recipient = streams[j].recipient
    BY <1>1, <1>6, StreamType DEF Claim, StreamEntry, IInv
  <2> QED
    BY <2>1, <2>2, PlainPaysQuiet
<1>7. ASSUME NEW id \in Ids, NEW new_recipient \in Users, ChangeRecipient(id, new_recipient)
      PROVE  PlainPaysUser'
  <2>1. UNCHANGED <<counter, splits>>
    BY <1>7 DEF ChangeRecipient
  <2>2. \A j \in Ids : streams'[j].recipient \in {streams[j].recipient} \cup Users
    BY <1>1, <1>7, StreamType DEF ChangeRecipient, StreamEntry, IInv
  <2> QED
    BY <2>1, <2>2, PlainPaysQuiet
<1>8. CASE UNCHANGED vars
  BY <1>8, PlainPaysQuiet DEF vars
<1> QED
  BY <1>2, <1>4, <1>5, <1>6, <1>7, <1>8 DEF Next

LEMMA PlainPaysInvariance == Spec => []PlainPaysUser
<1>1. Init => PlainPaysUser
  BY DEF Init, Ids, PlainPaysUser
<1> QED
  BY <1>1, PlainPaysStep, Invariance, PTL DEF Spec

\* So whoever shares in a stream is a user.
LEMMA SharersAreUsers ==
  ASSUME TypeOK, PlainPaysUser, NEW id \in Ids
  PROVE  \A i \in 1..Len(Shared(id)) : Shared(id)[i].recipient \in Users
<1>1. CASE splits[id] = <<>>
  <2>1. PICK r : r = streams[id].recipient
    OBVIOUS
  <2>2. Shared(id) = <<[recipient |-> r, share |-> BasisPoints]>> /\ r \in Users
    BY <1>1, <2>1 DEF Shared, PlainPaysUser, IsPlain
  <2> QED
    BY <2>2
<1>2. CASE splits[id] # <<>>
  <2>1. PICK list : list = splits[id]
    OBVIOUS
  <2>2. list \in Seq(StreamSplit) /\ Shared(id) = list
    BY <1>2, <2>1 DEF TypeOK, Ids, Shared
  <2>3. \A i \in 1..Len(list) : list[i] \in StreamSplit
    BY <2>2
  <2>4. \A i \in 1..Len(list) : list[i].recipient \in Users
    BY <2>3 DEF StreamSplit
  <2> QED
    BY <2>2, <2>4
<1> QED
  BY <1>1, <1>2

\* After a step as well.
LEMMA SharersAreUsersNext ==
  ASSUME TypeOK', PlainPaysUser', NEW id \in Ids'
  PROVE  \A i \in 1..Len(Shared(id)') : Shared(id)'[i].recipient \in Users
<1>1. CASE splits'[id] = <<>>
  <2>1. PICK r : r = streams'[id].recipient
    OBVIOUS
  <2>2. Shared(id)' = <<[recipient |-> r, share |-> BasisPoints]>> /\ r \in Users
    BY <1>1, <2>1 DEF Shared, PlainPaysUser, IsPlain
  <2> QED
    BY <2>2
<1>2. CASE splits'[id] # <<>>
  <2>1. PICK list : list = splits'[id]
    OBVIOUS
  <2>2. list \in Seq(StreamSplit) /\ Shared(id)' = list
    BY <1>2, <2>1 DEF TypeOK, Ids, Shared
  <2>3. \A i \in 1..Len(list) : list[i] \in StreamSplit
    BY <2>2
  <2>4. \A i \in 1..Len(list) : list[i].recipient \in Users
    BY <2>3 DEF StreamSplit
  <2> QED
    BY <2>2, <2>4
<1> QED
  BY <1>1, <1>2

\* The portions of an amount make up the amount, whatever is lost by rounding.
LEMMA PortionsWhole ==
  ASSUME TypeOK, SharesWhole, NEW id \in Ids, NEW amount \in Nat,
         NEW n, n = Len(Shared(id)), NEW p, p = [i \in 1..n |-> Portion(id, amount, i)]
  PROVE  Total(p, n) = amount
<1>1. n \in Nat \ {0} /\ \A i \in 1..n : p[i] \in Nat
  BY SharedType, PortionType
<1>2. PICK m, list : m = n - 1 /\ list = Shared(id)
  OBVIOUS
<1>3. m \in Nat /\ m \in 0..n /\ n \in 1..n /\ \A i \in 1..m : i \in 1..n /\ i < n
  BY <1>1, <1>2
<1>4. PICK h : h = [j \in 1..m |-> (amount * list[j].share) \div BasisPoints]
  OBVIOUS
<1>5. /\ \A i \in 1..m : p[i] = h[i]
      /\ p[n] = amount - Total(h, m)
  <2>1. \A i \in 1..n : Portion(id, amount, i) =
          IF i < n THEN (amount * list[i].share) \div BasisPoints
          ELSE amount - Total([j \in 1..n - 1 |-> (amount * list[j].share) \div BasisPoints], n - 1)
    BY <1>2 DEF Portion
  <2>2. Total([j \in 1..n - 1 |-> (amount * list[j].share) \div BasisPoints], n - 1) = Total(h, m)
    BY <1>2, <1>4
  <2>3. p[n] = amount - Total(h, m)
    BY <1>1, <1>3, <2>1, <2>2
  <2>4. ASSUME NEW i \in 1..m PROVE p[i] = h[i]
    BY <1>3, <1>4, <2>1
  <2> QED
    BY <2>3, <2>4
<1>6. \A i \in 1..m : h[i] \in Int /\ p[i] = h[i]
  BY <1>1, <1>3, <1>5
<1>7. Total(p, m) = Total(h, m) /\ Total(h, m) \in Int
  <2>1. Total(h, m) = Total(p, m)
    BY <1>3, <1>6, TotalAgree
  <2>2. Total(h, m) \in Int
    <3>1. \A i \in 1..m : h[i] \in Int
      BY <1>6
    <3>2. \A k \in 0..m : Total(h, k) \in Int
      BY <1>3, <3>1, TotalRecursion
    <3> QED
      BY <1>3, <3>2
  <2> QED
    BY <2>1, <2>2
<1>8. Total(p, n) = Total(p, m) + p[n]
  <2>1. n \in Nat /\ \A i \in 1..n : p[i] \in Int
    BY <1>1
  <2>2. \A k \in 1..n : Total(p, k) = Total(p, k - 1) + p[k]
    BY <2>1, TotalRecursion, SMTT(30)
  <2> QED
    BY <1>2, <1>3, <2>2
<1> QED
  BY <1>5, <1>7, <1>8

\* What the users get of an amount paid to the recipients adds up to the amount, and
\* only those who share in the stream get any of it.
LEMMA PaidToAll ==
  ASSUME TypeOK, SharesWhole, PlainPaysUser, NEW id \in Ids, NEW amount \in Nat,
         NEW g, g = [u \in Users |-> PaidTo(id, amount, u)]
  PROVE  /\ TotalOver(g, Users) = amount
         /\ \A u \in Users : u \notin {Shared(id)[i].recipient : i \in 1..Len(Shared(id))} => g[u] = 0
<1>1. PICK n, list : list = Shared(id) /\ n = Len(list)
  OBVIOUS
<1>2. PICK p : p = [i \in 1..n |-> Portion(id, amount, i)]
  OBVIOUS
<1>3. PICK r : r = [i \in 1..n |-> list[i].recipient]
  OBVIOUS
<1>4. /\ n \in Nat /\ \A i \in 1..n : p[i] \in Nat
      /\ \A i \in 1..n : r[i] \in Users
  BY <1>1, <1>2, <1>3, SharedType, PortionType, SharersAreUsers
<1>5. Total(p, n) = amount
  BY <1>1, <1>2, PortionsWhole
<1>6. ASSUME NEW u \in Users
      PROVE  g[u] = Total([i \in 1..n |-> IF r[i] = u THEN p[i] ELSE 0], n)
  <2>1. [i \in 1..n |-> IF r[i] = u THEN p[i] ELSE 0] =
          [i \in 1..n |-> IF list[i].recipient = u THEN Portion(id, amount, i) ELSE 0]
    BY <1>2, <1>3
  <2> QED
    BY <1>1, <2>1 DEF PaidTo
<1>7. TotalOver(g, Users) = amount
  <2>1. \A i \in 1..n : p[i] \in Int
    BY <1>4
  <2>2. n \in Nat /\ \A i \in 1..n : r[i] \in Users
    BY <1>4
  <2>3. TotalOver(g, Users) = Total(p, n)
    BY <1>6, <2>1, <2>2, TotalByReceiver
  <2> QED
    BY <1>5, <2>3
<1>8. ASSUME NEW u \in Users, u \notin {list[i].recipient : i \in 1..n}
      PROVE  g[u] = 0
  <2>1. PICK f : f = [i \in 1..n |-> IF r[i] = u THEN p[i] ELSE 0]
    OBVIOUS
  <2>2. \A i \in 1..n : f[i] = 0
    BY <1>3, <1>8, <2>1
  <2>3. Total(f, n) = Total(f, 0) + 0 * (n - 0) /\ Total(f, 0) = 0
    <3>1. 0 \in 0..n /\ 0 \in Int /\ (\A i \in 1..n : f[i] \in Int) /\ \A i \in 0+1..n : f[i] = 0
      BY <1>4, <2>2
    <3>2. n \in Nat /\ \A i \in 1..n : f[i] \in Int
      BY <1>4, <3>1
    <3>3. Total(f, n) = Total(f, 0) + 0 * (n - 0)
      BY <3>1, <3>2, TotalExtend
    <3>4. Total(f, 0) = 0
      BY <3>2, TotalRecursion
    <3> QED
      BY <3>3, <3>4
  <2> QED
    BY <1>4, <1>6, <2>1, <2>3
<1> QED
  BY <1>1, <1>7, <1>8

-----------------------------------------------------------------------------
(* The contract implements the drawdown *)

\* The sums the drawdown speaks of are those of this module.
LEMMA DrawdownTotals == \A f, S : D!TotalOver(f, S) = TotalOver(f, S)
BY DEF D!TotalOver, TotalOver, D!Total, Total, D!SetToSeq, SetToSeq,
       D!IsInjective, IsInjective, D!Cardinality, Cardinality

\* Before anything was created there is no fund.
LEMMA DrawdownInit == Init => D!Init
<1> SUFFICES ASSUME Init PROVE D!Init
  OBVIOUS
<1>1. StreamFunds = <<>>
  <2>1. Ids = {}
    BY DEF Init, Ids
  <2> QED
    BY <2>1 DEF StreamFunds
<1>2. StreamWallets \in [Tokens -> [Users -> Nat]]
  <2>1. balance \in [Tokens -> [Accounts -> Nat]]
    BY DEF Init
  <2> QED
    BY <2>1 DEF StreamWallets, Accounts
<1> QED
  BY <1>1, <1>2 DEF D!Init

Payees(id) == {Shared(id)[i].recipient : i \in 1..Len(Shared(id))}
IsLive(s)  == s.status \in {"Active", "Paused"}

\* What a stream looks like from outside when it pays P.
Fund(s, P) ==
  [owner |-> s.owner, token |-> s.token, payees |-> P, rest |-> Rest(s), open |-> IsLive(s)]

LEMMA FundOfStream ==
  /\ DOMAIN StreamFunds = Ids
  /\ \A id \in Ids : StreamFunds[id] = Fund(streams[id], Payees(id))
BY DEF StreamFunds, Fund, Payees, Rest, IsLive, Live

\* After a step as well.
LEMMA FundOfStreamPrime ==
  /\ DOMAIN StreamFunds' = Ids'
  /\ \A id \in Ids' : StreamFunds'[id] = Fund(streams'[id], Payees(id)')
BY DEF StreamFunds, Fund, Payees, Rest, IsLive, Live

\* Who is paid depends on the splits and the recipient alone.
LEMMA PayeesStay ==
  ASSUME NEW id, splits'[id] = splits[id],
         splits[id] = <<>> => streams'[id].recipient = streams[id].recipient
  PROVE  Payees(id)' = Payees(id)
BY DEF Payees, Shared

\* A step that changes one stream changes one fund.
LEMMA FundChange ==
  ASSUME TypeOK, NEW id \in Ids, NEW q \in StreamEntry,
         streams' = [streams EXCEPT ![id] = q], UNCHANGED <<counter, splits>>
  PROVE  StreamFunds' = [StreamFunds EXCEPT ![id] = Fund(q, Payees(id)')]
<1>1. streams'[id] = q /\ \A j \in Ids : j # id => streams'[j] = streams[j]
  BY StreamsExcept
<1>2. Ids' = Ids
  BY DEF Ids
<1>3. StreamFunds'[id] = Fund(q, Payees(id)')
  BY <1>1, <1>2, FundOfStreamPrime
<1>4. \A j \in Ids : j # id => StreamFunds'[j] = StreamFunds[j]
  <2> SUFFICES ASSUME NEW j \in Ids, j # id
               PROVE  StreamFunds'[j] = StreamFunds[j]
    OBVIOUS
  <2>1. Payees(j)' = Payees(j)
    BY <1>1, PayeesStay
  <2> QED
    BY <1>1, <1>2, <2>1, FundOfStream, FundOfStreamPrime
<1>5. /\ StreamFunds = [j \in Ids |-> StreamFunds[j]]
      /\ StreamFunds' = [j \in Ids |-> StreamFunds'[j]]
  BY <1>2 DEF StreamFunds
<1> QED
  BY <1>3, <1>4, <1>5, Zenon

\* If who is paid stays, only the rest of the fund changes, and its being open.
LEMMA FundDrawn ==
  ASSUME TypeOK, NEW id \in Ids, NEW q \in StreamEntry,
         streams' = [streams EXCEPT ![id] = q], UNCHANGED <<counter, splits>>,
         q.owner = streams[id].owner, q.token = streams[id].token,
         q.recipient = streams[id].recipient
  PROVE  StreamFunds' = [StreamFunds EXCEPT ![id].rest = Rest(q), ![id].open = IsLive(q)]
<1>1. PICK F, s, P : F = StreamFunds /\ s = streams[id] /\ P = Payees(id)
  OBVIOUS
<1>2. P = Payees(id)'
  <2>1. streams'[id] = q
    BY StreamsExcept
  <2> QED
    BY <1>1, <2>1, PayeesStay
<1>3. StreamFunds' = [StreamFunds EXCEPT ![id] = Fund(q, P)]
  <2>1. StreamFunds' = [StreamFunds EXCEPT ![id] = Fund(q, Payees(id)')]
    BY FundChange
  <2> QED
    BY <1>2, <2>1
<1>4. id \in DOMAIN F /\ F[id] = Fund(s, P)
  BY <1>1, FundOfStream
<1>5. PICK o, t, x, b, y, c : /\ o = s.owner /\ t = s.token /\ x = Rest(s) /\ b = IsLive(s)
                              /\ y = Rest(q) /\ c = IsLive(q)
  OBVIOUS
<1>6. /\ F[id] = [owner |-> o, token |-> t, payees |-> P, rest |-> x, open |-> b]
      /\ Fund(q, P) = [owner |-> o, token |-> t, payees |-> P, rest |-> y, open |-> c]
  BY <1>1, <1>4, <1>5 DEF Fund
<1>7. PICK r : r = [owner |-> o, token |-> t, payees |-> P, rest |-> y, open |-> b]
  OBVIOUS
<1>8. [F[id] EXCEPT !.rest = y] = r /\ [r EXCEPT !.open = c] = Fund(q, P)
  BY <1>6, <1>7
<1>9. PICK G : G = [F EXCEPT ![id] = r]
  OBVIOUS
<1>10. G[id] = r /\ [G EXCEPT ![id] = Fund(q, P)] = [F EXCEPT ![id] = Fund(q, P)]
  BY <1>4, <1>9
<1>11. [F EXCEPT ![id].rest = y, ![id].open = c] = [F EXCEPT ![id] = Fund(q, P)]
  BY <1>8, <1>9, <1>10
<1> QED
  BY <1>1, <1>3, <1>5, <1>11

\* What the users have after a payout.
LEMMA PayOutToUsers ==
  ASSUME TypeOK, SharesWhole, NEW id \in Ids, NEW amount \in Nat, NEW refund \in Nat,
         PayOut(id, amount, refund)
  PROVE  \A t \in Tokens, u \in Users :
           balance'[t][u] = IF t = streams[id].token
                            THEN balance[t][u] + PaidTo(id, amount, u)
                                   + (IF u = streams[id].owner THEN refund ELSE 0)
                            ELSE balance[t][u]
<1>1. PICK owner, token : owner = streams[id].owner /\ token = streams[id].token
  OBVIOUS
<1>2. /\ token \in Tokens /\ balance \in [Tokens -> [Accounts -> Nat]]
      /\ Users \subseteq Accounts /\ Contract \notin Users
  BY <1>1, StreamType DEF StreamEntry, Accounts, TypeOK
<1>3. PICK new : new = [a \in Accounts |->
                 IF a = Contract THEN balance[token][a] - amount - refund
                 ELSE balance[token][a] + PaidTo(id, amount, a) + (IF a = owner THEN refund ELSE 0)]
  OBVIOUS
<1>4. balance' = [balance EXCEPT ![token] = new]
  BY <1>1, <1>2, <1>3 DEF PayOut
<1>5. \A u \in Users : new[u] = balance[token][u] + PaidTo(id, amount, u)
                                  + (IF u = owner THEN refund ELSE 0)
  BY <1>2, <1>3
<1> QED
  BY <1>1, <1>2, <1>4, <1>5

\* Everything a payout takes from the contract arrives, to the last unit, with the
\* payees and the owner.
LEMMA PayOutArrives ==
  ASSUME TypeOK, SharesWhole, PlainPaysUser, NEW id \in Ids,
         NEW amount \in Nat, NEW refund \in Nat, PayOut(id, amount, refund),
         NEW who, Payees(id) \subseteq who, refund > 0 => streams[id].owner \in who,
         NEW all, all = amount + refund
  PROVE  D!Arrives(id, all, who)
<1>1. PICK owner, token : owner = streams[id].owner /\ token = streams[id].token
  OBVIOUS
<1>2. /\ token \in Tokens /\ owner \in Users /\ StreamFunds[id].token = token
      /\ balance \in [Tokens -> [Accounts -> Nat]] /\ Users \subseteq Accounts
  <2>1. token \in Tokens /\ owner \in Users
    BY <1>1, StreamType DEF StreamEntry
  <2>2. StreamFunds[id].token = token
    BY <1>1, FundOfStream DEF Fund
  <2> QED
    BY <2>1, <2>2 DEF Accounts, TypeOK
<1>3. PICK g : g = [u \in Users |-> PaidTo(id, amount, u)]
  OBVIOUS
<1>4. /\ \A u \in Users : g[u] \in Nat /\ (u \notin Payees(id) => g[u] = 0)
      /\ TotalOver(g, Users) = amount
  BY <1>3, PaidToType, PaidToAll DEF Payees
<1>5. \A t \in Tokens, u \in Users :
        balance'[t][u] = IF t = token THEN balance[t][u] + g[u] + (IF u = owner THEN refund ELSE 0)
                         ELSE balance[t][u]
  BY <1>1, <1>3, PayOutToUsers
<1>6. PICK received : received = D!Received(token)
  OBVIOUS
<1>7. \A u \in Users : received[u] = g[u] + (IF u = owner THEN refund ELSE 0)
  <2> SUFFICES ASSUME NEW u \in Users
               PROVE  received[u] = g[u] + (IF u = owner THEN refund ELSE 0)
    OBVIOUS
  <2>1. received[u] = StreamWallets'[token][u] - StreamWallets[token][u]
    BY <1>6 DEF D!Received
  <2>2. received[u] = balance'[token][u] - balance[token][u]
    BY <1>2, <2>1 DEF StreamWallets
  <2>3. balance[token][u] \in Nat /\ g[u] \in Nat
    BY <1>2, <1>4
  <2> QED
    BY <1>2, <1>5, <2>2, <2>3
<1>8. \A u \in Users : received[u] >= 0 /\ (received[u] > 0 => u \in who)
  BY <1>1, <1>4, <1>7
<1>9. TotalOver(received, Users) = all
  <2>1. \A u \in Users : g[u] \in Int
    BY <1>4
  <2>2. received[owner] = g[owner] + refund /\ \A u \in Users : u # owner => received[u] = g[u]
    BY <1>2, <1>4, <1>7
  <2>3. refund \in Int /\ IsFiniteSet(Users)
    OBVIOUS
  <2>4. TotalOver(received, Users) = TotalOver(g, Users) + refund
    BY <1>2, <2>1, <2>2, <2>3, TotalOverChange
  <2> QED
    BY <1>4, <2>4
<1>10. \A s \in Tokens \ {token} : StreamWallets'[s] = StreamWallets[s]
  BY <1>5 DEF StreamWallets
<1>11. D!TotalOver(received, Users) = all
  BY <1>9, DrawdownTotals
<1> QED
  BY <1>2, <1>6, <1>8, <1>10, <1>11 DEF D!Arrives

\* Nobody's wallet changes when no balance does.
LEMMA WalletsStay ==
  ASSUME balance' = balance
  PROVE  StreamWallets' = StreamWallets
BY DEF StreamWallets

\* A new stream is a new fund, paid for by its owner.
LEMMA OpenStreamIsOpen ==
  ASSUME IInv, NEW owner \in Users, NEW recipient \in Accounts, NEW token \in Tokens,
         NEW total_amount \in Amounts, NEW duration \in Durations, NEW delay \in Nat,
         NEW grace \in Nat, NEW shared \in Seq(StreamSplit),
         OpenStream(owner, recipient, token, total_amount, duration, delay, grace, shared)
  PROVE  D!Open(owner, token)
<1>1. PICK id : id = counter + 1
  OBVIOUS
<1>2. PICK q :
        q = [owner |-> owner, recipient |-> recipient, token |-> token,
             total_amount |-> total_amount, claimed_amount |-> 0,
             start_ledger |-> ledger + delay, end_ledger |-> ledger + delay + duration,
             last_claimed_ledger |-> ledger + delay, created_ledger |-> ledger,
             grace_period_ledgers |-> grace, status |-> "Active",
             paused_at_ledger |-> 0, paused_ledgers |-> 0]
  OBVIOUS
<1>3. /\ total_amount > 0 /\ total_amount <= balance[token][owner]
      /\ balance' = [balance EXCEPT ![token][owner] = @ - total_amount,
                                    ![token][Contract] = @ + total_amount]
      /\ streams' = Append(streams, q)
  BY <1>2 DEF OpenStream
<1>4. /\ Ids' = Ids \cup {id} /\ id \notin Ids
      /\ \A j \in Ids : streams'[j] = streams[j] /\ splits'[j] = splits[j]
  BY <1>1, OpenStreamEffect
<1>5. streams'[id] = q
  <2>1. PICK S, old : S = StreamEntry /\ old = streams
    OBVIOUS
  <2>2. old \in Seq(S) /\ Len(old) = counter
    BY <2>1 DEF IInv, TypeOK
  <2>3. Append(old, q)[Len(old) + 1] = q
    BY <2>2
  <2> QED
    BY <1>1, <1>3, <2>1, <2>2, <2>3
<1>6. /\ q.owner = owner /\ q.token = token /\ q.status = "Active"
      /\ IsLive(q) /\ Rest(q) = total_amount
  <2>1. /\ q.owner = owner /\ q.token = token /\ q.status = "Active"
        /\ q.total_amount = total_amount /\ q.claimed_amount = 0
    BY <1>2
  <2> QED
    BY <2>1 DEF IsLive, Rest
<1>7. /\ DOMAIN StreamFunds = Ids /\ DOMAIN StreamFunds' = Ids \cup {id}
      /\ StreamFunds'[id].owner = owner /\ StreamFunds'[id].token = token
      /\ StreamFunds'[id].open /\ StreamFunds'[id].rest = total_amount
  <2>1. PICK P : P = Payees(id)'
    OBVIOUS
  <2>2. /\ DOMAIN StreamFunds = Ids /\ DOMAIN StreamFunds' = Ids \cup {id}
        /\ StreamFunds'[id] = Fund(q, P)
    BY <1>4, <1>5, <2>1, FundOfStream, FundOfStreamPrime
  <2> QED
    BY <1>6, <2>2 DEF Fund
<1>8. \A j \in Ids : StreamFunds'[j] = StreamFunds[j]
  <2> SUFFICES ASSUME NEW j \in Ids
               PROVE  StreamFunds'[j] = StreamFunds[j]
    OBVIOUS
  <2>1. Payees(j)' = Payees(j) /\ j \in Ids'
    BY <1>4, PayeesStay
  <2> QED
    BY <1>4, <2>1, FundOfStream, FundOfStreamPrime
<1>9. /\ total_amount <= StreamWallets[token][owner]
      /\ StreamWallets' = [StreamWallets EXCEPT ![token][owner] = @ - total_amount]
  <2>1. balance \in [Tokens -> [Accounts -> Nat]] /\ Users \subseteq Accounts /\ Contract \in Accounts
    BY DEF IInv, TypeOK, Accounts
  <2>2. \A t \in Tokens, u \in Users :
          balance'[t][u] = IF t = token /\ u = owner THEN balance[t][u] - total_amount
                           ELSE balance[t][u]
    BY <1>3, <2>1
  <2>3. StreamWallets[token][owner] = balance[token][owner]
    BY DEF StreamWallets
  <2>4. PICK left : left = StreamWallets[token][owner] - total_amount
    OBVIOUS
  <2>5. StreamWallets' = [StreamWallets EXCEPT ![token][owner] = left]
    <3>1. /\ StreamWallets = [t \in Tokens |-> [u \in Users |-> balance[t][u]]]
          /\ StreamWallets' = [t \in Tokens |-> [u \in Users |-> balance'[t][u]]]
      BY DEF StreamWallets
    <3>2. ASSUME NEW t \in Tokens
          PROVE  [u \in Users |-> balance'[t][u]] =
                   IF t = token THEN [StreamWallets[token] EXCEPT ![owner] = left]
                   ELSE StreamWallets[t]
      <4>1. StreamWallets[t] = [u \in Users |-> balance[t][u]]
        BY <3>1
      <4> QED
        BY <2>2, <2>3, <2>4, <4>1
    <3> QED
      BY <3>1, <3>2
  <2> QED
    BY <1>3, <2>3, <2>4, <2>5
<1> QED
  BY <1>3, <1>4, <1>7, <1>8, <1>9 DEF D!Open

\* A claim draws a part, and closes the fund if it completes the stream.
LEMMA ClaimIsDraw ==
  ASSUME IInv, PlainPaysUser, NEW id \in Ids, NEW caller \in Users, Claim(id, caller)
  PROVE  D!Draw(id)
<1>1. PICK s, claimable, claimed, status :
        /\ s = streams[id] /\ claimable = claimable_amount(s, ledger)
        /\ claimed = s.claimed_amount + claimable
        /\ status = IF claimed >= s.total_amount \/ ledger >= s.end_ledger THEN "Completed" ELSE s.status
  OBVIOUS
<1>2. /\ s.status = "Active" /\ claimable > 0 /\ PayOut(id, claimable, 0)
      /\ streams' = [streams EXCEPT ![id] = [s EXCEPT !.claimed_amount = claimed,
                                                      !.last_claimed_ledger = ledger, !.status = status]]
      /\ UNCHANGED <<ledger, counter, splits, ownerIndex, recipientIndex>>
  BY <1>1 DEF Claim
<1>3. s \in StreamEntry /\ Sound(s) /\ ledger \in Nat
  BY <1>1, StreamType, StreamSound DEF IInv, TypeOK
<1>4. claimable \in Nat /\ claimable <= s.total_amount - s.claimed_amount
  BY <1>1, ClaimableType DEF IInv
<1>5. s.claimed_amount \in Nat /\ s.total_amount \in Nat
  BY <1>3 DEF StreamEntry
<1>6. claimed \in Nat /\ status \in {"Completed", "Active"}
  BY <1>1, <1>2, <1>4, <1>5
<1>7. PICK q : q = [s EXCEPT !.claimed_amount = claimed, !.last_claimed_ledger = ledger,
                             !.status = status]
  OBVIOUS
<1>8. /\ q \in StreamEntry /\ q.token = s.token /\ q.recipient = s.recipient /\ q.owner = s.owner
      /\ q.claimed_amount = claimed /\ q.status = status /\ q.total_amount = s.total_amount
  BY <1>3, <1>6, <1>7 DEF StreamEntry, Statuses
<1>9. PICK P, open : P = Payees(id) /\ open = IsLive(q)
  OBVIOUS
<1>10. /\ open \in BOOLEAN /\ IsLive(s) /\ Rest(s) = s.total_amount - s.claimed_amount
       /\ Rest(q) = IF open THEN Rest(s) - claimable ELSE 0
  <2>1. /\ Rest(s) = s.total_amount - s.claimed_amount /\ IsLive(s)
        /\ Rest(q) = IF IsLive(q) THEN s.total_amount - claimed ELSE 0
    BY <1>2, <1>8 DEF Rest, IsLive
  <2>2. s.total_amount - claimed = Rest(s) - claimable
    BY <1>1, <1>4, <1>5, <2>1
  <2>3. open \in BOOLEAN
    BY <1>9 DEF IsLive
  <2> QED
    BY <1>9, <2>1, <2>2, <2>3
<1>11. PICK F, f : F = StreamFunds /\ f = StreamFunds'
  OBVIOUS
<1>12. id \in DOMAIN F /\ F[id] = Fund(s, P)
  BY <1>1, <1>9, <1>11, FundOfStream
<1>13. UNCHANGED <<counter, splits>> /\ streams' = [streams EXCEPT ![id] = q]
  BY <1>2, <1>7
<1>14. StreamFunds' = [StreamFunds EXCEPT ![id].rest = Rest(q), ![id].open = IsLive(q)]
  BY <1>1, <1>8, <1>13, FundDrawn DEF IInv
<1>15. f = [F EXCEPT ![id].rest = IF open THEN @ - claimable ELSE 0, ![id].open = open]
  <2>1. F[id].rest = Rest(s)
    BY <1>12 DEF Fund
  <2> QED
    BY <1>9, <1>10, <1>11, <1>14, <2>1
<1>16. D!Arrives(id, claimable, P)
  <2>1. 0 \in Nat /\ claimable = claimable + 0 /\ ~(0 > 0)
    BY <1>4
  <2> QED
    BY <1>2, <1>4, <1>9, <2>1, PayOutArrives DEF IInv
<1>17. claimable \in 1..F[id].rest /\ F[id].open /\ F[id].payees = P
  BY <1>2, <1>4, <1>5, <1>10, <1>12 DEF Fund
<1> QED
  BY <1>10, <1>11, <1>15, <1>16, <1>17 DEF D!Draw

\* A step that ends a stream, and gives out all that is left of it.
LEMMA EndIsClose ==
  ASSUME IInv, PlainPaysUser, NEW id \in Ids, NEW q \in StreamEntry,
         IsLive(streams[id]), ~IsLive(q),
         streams' = [streams EXCEPT ![id] = q], UNCHANGED <<counter, splits>>,
         q.owner = streams[id].owner, q.token = streams[id].token,
         q.recipient = streams[id].recipient,
         NEW amount \in Nat, NEW refund \in Nat,
         amount + refund = Rest(streams[id]), PayOut(id, amount, refund)
  PROVE  D!Close(id)
<1>1. PICK s, P : s = streams[id] /\ P = Payees(id)
  OBVIOUS
<1>2. Rest(q) = 0
  BY DEF Rest, IsLive
<1>3. IsLive(s) = TRUE /\ IsLive(q) = FALSE
  BY <1>1 DEF IsLive
<1>4. PICK F, f : F = StreamFunds /\ f = StreamFunds'
  OBVIOUS
<1>5. F[id] = Fund(s, P)
  BY <1>1, <1>4, FundOfStream
<1>6. StreamFunds' = [StreamFunds EXCEPT ![id].rest = Rest(q), ![id].open = IsLive(q)]
  BY FundDrawn DEF IInv
<1>7. f = [F EXCEPT ![id].rest = 0, ![id].open = FALSE]
  BY <1>2, <1>3, <1>4, <1>6
<1>8. D!Arrives(id, Rest(s), P \cup {s.owner})
  BY <1>1, PayOutArrives DEF IInv
<1> QED
  BY <1>3, <1>4, <1>5, <1>7, <1>8 DEF D!Close, Fund

\* Tick gives the owner what is left.
LEMMA TickIsClose ==
  ASSUME IInv, PlainPaysUser, NEW id \in Ids, Tick(id)
  PROVE  D!Close(id)
<1>1. PICK s, left : s = streams[id] /\ left = s.total_amount - s.claimed_amount
  OBVIOUS
<1>2. s \in StreamEntry /\ Rest(s) \in Nat
  BY <1>1, StreamType, StreamSound DEF IInv
<1>3. PICK q : q = [s EXCEPT !.status = "Completed"]
  OBVIOUS
<1>4. /\ s.status = "Active" /\ PayOut(id, 0, left)
      /\ streams' = [streams EXCEPT ![id] = q] /\ UNCHANGED <<counter, splits>>
  BY <1>1, <1>3 DEF Tick
<1>5. /\ q \in StreamEntry /\ q.token = s.token /\ q.recipient = s.recipient
      /\ q.owner = s.owner /\ q.status = "Completed"
  BY <1>2, <1>3 DEF StreamEntry, Statuses
<1>6. IsLive(s) /\ ~IsLive(q) /\ Rest(s) = left
  BY <1>1, <1>4, <1>5 DEF IsLive, Rest
<1>7. left \in Nat /\ 0 \in Nat /\ 0 + left = Rest(s)
  BY <1>2, <1>6
<1> QED
  BY <1>1, <1>4, <1>5, <1>6, <1>7, EndIsClose

\* Cancel gives the payees what they can claim and the owner the rest.
LEMMA CancelIsClose ==
  ASSUME IInv, PlainPaysUser, NEW id \in Ids, Cancel(id)
  PROVE  D!Close(id)
<1>1. PICK s, claimable, claimed, refund :
        /\ s = streams[id] /\ claimable = claimable_amount(s, ledger)
        /\ claimed = s.claimed_amount + claimable /\ refund = s.total_amount - claimed
  OBVIOUS
<1>2. s \in StreamEntry /\ id \in DOMAIN streams
  BY <1>1, StreamType DEF IInv, TypeOK, Ids
<1>3. PICK q : q = [[s EXCEPT !.status = "Cancelled"] EXCEPT !.claimed_amount = claimed]
  OBVIOUS
<1>4. /\ s.status \in {"Active", "Paused"} /\ PayOut(id, claimable, refund)
      /\ streams' = [streams EXCEPT ![id] = q] /\ UNCHANGED <<counter, splits>>
  BY <1>1, <1>2, <1>3 DEF Cancel, CanCancel
<1>5. claimable \in Nat /\ claimable <= s.total_amount - s.claimed_amount
  BY <1>1, ClaimableType DEF IInv
<1>6. s.claimed_amount \in Nat /\ s.total_amount \in Nat
  BY <1>2 DEF StreamEntry
<1>7. claimed \in Nat /\ refund \in Nat /\ claimable + refund = s.total_amount - s.claimed_amount
  BY <1>1, <1>5, <1>6
<1>8. /\ q \in StreamEntry /\ q.token = s.token /\ q.recipient = s.recipient
      /\ q.owner = s.owner /\ q.status = "Cancelled"
  BY <1>2, <1>3, <1>7 DEF StreamEntry, Statuses
<1>9. IsLive(s) /\ ~IsLive(q) /\ claimable + refund = Rest(s)
  BY <1>4, <1>7, <1>8 DEF IsLive, Rest
<1> QED
  BY <1>1, <1>4, <1>5, <1>7, <1>8, <1>9, EndIsClose

\* A change of recipient is a change of payees, and moves no money.  That of a split
\* stream changes nobody that is paid.
LEMMA ChangeRecipientIsRedirect ==
  ASSUME IInv, PlainPaysUser, NEW id \in Ids, NEW new_recipient \in Users,
         ChangeRecipient(id, new_recipient)
  PROVE  D!Redirect(id)
<1>1. PICK s : s = streams[id]
  OBVIOUS
<1>2. s \in StreamEntry /\ id \in DOMAIN streams
  BY <1>1, StreamType DEF IInv, TypeOK, Ids
<1>3. PICK q : q = [s EXCEPT !.recipient = new_recipient]
  OBVIOUS
<1>4. /\ s.status = "Active" /\ streams' = [streams EXCEPT ![id] = q]
      /\ UNCHANGED <<counter, splits, balance>>
  BY <1>1, <1>2, <1>3 DEF ChangeRecipient
<1>5. /\ q \in StreamEntry /\ q.token = s.token /\ q.owner = s.owner /\ q.status = s.status
      /\ q.claimed_amount = s.claimed_amount /\ q.total_amount = s.total_amount
  BY <1>2, <1>3 DEF StreamEntry, Accounts
<1>6. PICK P : P = Payees(id)'
  OBVIOUS
<1>7. P \subseteq Users
  <2>1. TypeOK' /\ PlainPaysUser' /\ Ids' = Ids
    <3>1. [Next]_vars
      BY DEF Next
    <3> QED
      BY <1>4, <3>1, ChangeRecipientKeeps, PlainPaysStep DEF IInv, Ids
  <2>2. \A i \in 1..Len(Shared(id)') : Shared(id)'[i].recipient \in Users
    BY <2>1, SharersAreUsersNext
  <2> QED
    BY <1>6, <2>2 DEF Payees
<1>8. Rest(q) = Rest(s) /\ IsLive(q) = TRUE /\ IsLive(s) = TRUE
  BY <1>4, <1>5 DEF Rest, IsLive
<1>9. PICK F, f : F = StreamFunds /\ f = StreamFunds'
  OBVIOUS
<1>10. id \in DOMAIN F /\ F[id] = Fund(s, Payees(id))
  BY <1>1, <1>9, FundOfStream
<1>11. StreamFunds' = [StreamFunds EXCEPT ![id] = Fund(q, P)]
  <2>1. StreamFunds' = [StreamFunds EXCEPT ![id] = Fund(q, Payees(id)')]
    BY <1>1, <1>4, <1>5, FundChange DEF IInv
  <2> QED
    BY <1>6, <2>1
<1>12. f = [F EXCEPT ![id].payees = P]
  <2>1. PICK o, t, x, b : o = s.owner /\ t = s.token /\ x = Rest(s) /\ b = IsLive(s)
    OBVIOUS
  <2>2. PICK R : R = Payees(id)
    OBVIOUS
  <2>3. /\ F[id] = [owner |-> o, token |-> t, payees |-> R, rest |-> x, open |-> b]
        /\ Fund(q, P) = [owner |-> o, token |-> t, payees |-> P, rest |-> x, open |-> b]
    BY <1>5, <1>8, <1>10, <2>1, <2>2 DEF Fund
  <2>4. [F[id] EXCEPT !.payees = P] = Fund(q, P)
    BY <2>3
  <2> QED
    BY <1>9, <1>11, <2>4
<1>13. F[id].open
  BY <1>8, <1>10 DEF Fund
<1> QED
  BY <1>4, <1>7, <1>9, <1>12, <1>13, WalletsStay DEF D!Redirect

\* Pausing, resuming and the passing of ledgers cannot be seen from outside.
LEMMA InvisibleSteps ==
  ASSUME IInv, CloseLedger \/ UNCHANGED vars \/ \E id \in Ids : Pause(id) \/ Resume(id)
  PROVE  UNCHANGED <<StreamFunds, StreamWallets>>
<1>1. CASE CloseLedger \/ UNCHANGED vars
  BY <1>1, WalletsStay DEF CloseLedger, vars, StreamFunds, Shared, Live, Ids
<1>2. ASSUME NEW id \in Ids, NEW q \in StreamEntry,
             streams' = [streams EXCEPT ![id] = q], UNCHANGED <<counter, splits, balance>>,
             q.owner = streams[id].owner, q.token = streams[id].token,
             q.recipient = streams[id].recipient,
             q.total_amount = streams[id].total_amount,
             q.claimed_amount = streams[id].claimed_amount,
             IsLive(q), IsLive(streams[id])
      PROVE  UNCHANGED <<StreamFunds, StreamWallets>>
  <2>1. Rest(q) = Rest(streams[id]) /\ IsLive(q) = IsLive(streams[id])
    BY <1>2 DEF Rest, IsLive
  <2>2. Payees(id)' = Payees(id)
    <3>1. streams'[id] = q
      BY <1>2, StreamsExcept DEF IInv
    <3> QED
      BY <1>2, <3>1, PayeesStay
  <2>3. StreamFunds' = [StreamFunds EXCEPT ![id] = Fund(q, Payees(id))]
    <3>1. StreamFunds' = [StreamFunds EXCEPT ![id] = Fund(q, Payees(id)')]
      BY <1>2, FundChange DEF IInv
    <3> QED
      BY <2>2, <3>1
  <2>4. StreamFunds[id] = Fund(q, Payees(id))
    BY <1>2, <2>1, FundOfStream DEF Fund
  <2>5. StreamFunds = [j \in Ids |-> StreamFunds[j]]
    BY DEF StreamFunds
  <2> QED
    BY <1>2, <2>3, <2>4, <2>5, WalletsStay
<1>3. ASSUME NEW id \in Ids, Pause(id)
      PROVE  UNCHANGED <<StreamFunds, StreamWallets>>
  <2>1. PICK s : s = streams[id]
    OBVIOUS
  <2>2. s \in StreamEntry /\ ledger \in Nat /\ id \in DOMAIN streams
    BY <2>1, StreamType DEF IInv, TypeOK, Ids
  <2>3. PICK q : q = [[s EXCEPT !.status = "Paused"] EXCEPT !.paused_at_ledger = ledger]
    OBVIOUS
  <2>4. /\ s.status = "Active" /\ streams' = [streams EXCEPT ![id] = q]
        /\ UNCHANGED <<counter, splits, balance>>
    BY <1>3, <2>1, <2>2, <2>3 DEF Pause
  <2>5. /\ q \in StreamEntry /\ q.owner = s.owner /\ q.token = s.token /\ q.recipient = s.recipient
        /\ q.total_amount = s.total_amount /\ q.claimed_amount = s.claimed_amount
        /\ q.status = "Paused"
    BY <2>2, <2>3 DEF StreamEntry, Statuses
  <2>6. IsLive(q) /\ IsLive(s)
    BY <2>4, <2>5 DEF IsLive
  <2> QED
    BY <1>2, <2>1, <2>4, <2>5, <2>6
<1>4. ASSUME NEW id \in Ids, Resume(id)
      PROVE  UNCHANGED <<StreamFunds, StreamWallets>>
  <2>1. PICK s, total :
          /\ s = streams[id]
          /\ total = s.paused_ledgers + (Smaller(ledger, s.end_ledger)
                       - Smaller(s.paused_at_ledger, Smaller(ledger, s.end_ledger)))
    OBVIOUS
  <2>2. s \in StreamEntry /\ ledger \in Nat
    BY <2>1, StreamType DEF IInv, TypeOK
  <2>3. total \in Nat
    BY <2>1, <2>2 DEF Smaller, StreamEntry
  <2>4. PICK q : q = [s EXCEPT !.status = "Active", !.paused_at_ledger = 0, !.paused_ledgers = total]
    OBVIOUS
  <2>5. /\ s.status = "Paused" /\ streams' = [streams EXCEPT ![id] = q]
        /\ UNCHANGED <<counter, splits, balance>>
    BY <1>4, <2>1, <2>4 DEF Resume
  <2>6. /\ q \in StreamEntry /\ q.owner = s.owner /\ q.token = s.token /\ q.recipient = s.recipient
        /\ q.total_amount = s.total_amount /\ q.claimed_amount = s.claimed_amount
        /\ q.status = "Active"
    BY <2>2, <2>3, <2>4 DEF StreamEntry, Statuses
  <2>7. IsLive(q) /\ IsLive(s)
    BY <2>5, <2>6 DEF IsLive
  <2> QED
    BY <1>2, <2>1, <2>5, <2>6, <2>7
<1> QED
  BY <1>1, <1>3, <1>4

\* Every step of the contract is a step of the drawdown or is invisible to it.
LEMMA StepImplementsDrawdown ==
  ASSUME IInv, PlainPaysUser, [Next]_vars
  PROVE  [D!Next]_(D!vars)
<1>1. CASE CloseLedger \/ UNCHANGED vars \/ \E id \in Ids : Pause(id) \/ Resume(id)
  BY <1>1, InvisibleSteps DEF D!vars
<1>2. CASE Create
  <2>1. ASSUME NEW owner \in Users, NEW recipient \in Users, NEW token \in Tokens,
               NEW total_amount \in Amounts, NEW duration \in Durations, NEW delay \in Delays,
               NEW grace \in Graces, NEW label,
               CreateStream(owner, recipient, token, total_amount, duration, grace, label, delay)
        PROVE  D!Open(owner, token)
    <3>1. recipient \in Accounts /\ delay \in Nat /\ grace \in Nat /\ <<>> \in Seq(StreamSplit)
      BY DEF Accounts
    <3> QED
      BY <2>1, <3>1, OpenStreamIsOpen DEF CreateStream
  <2>2. ASSUME NEW owner \in Users, NEW shared \in SplitLists, NEW token \in Tokens,
               NEW total_amount \in Amounts, NEW duration \in Durations,
               CreateSplitStream(owner, shared, token, total_amount, duration)
        PROVE  D!Open(owner, token)
    <3>1. shared \in Seq(StreamSplit) /\ 0 \in Nat /\ Contract \in Accounts
      BY SplitListsType DEF Accounts
    <3> QED
      BY <2>2, <3>1, OpenStreamIsOpen DEF CreateSplitStream
  <2> QED
    BY <1>2, <2>1, <2>2 DEF Create, D!Next
<1>3. ASSUME NEW id \in Ids, Tick(id) \/ Cancel(id)
      PROVE  D!Next
  BY <1>3, TickIsClose, CancelIsClose, FundOfStream DEF D!Next
<1>4. ASSUME NEW id \in Ids, NEW caller \in Users, Claim(id, caller)
      PROVE  D!Next
  BY <1>4, ClaimIsDraw, FundOfStream DEF D!Next
<1>5. ASSUME NEW id \in Ids, NEW new_recipient \in Users, ChangeRecipient(id, new_recipient)
      PROVE  D!Next
  BY <1>5, ChangeRecipientIsRedirect, FundOfStream DEF D!Next
<1> QED
  BY <1>1, <1>2, <1>3, <1>4, <1>5 DEF Next

\* ImplementsDrawdown: seen through its streams and the users' wallets, the contract
\* gives each unit of a stream out at most once, and to the last unit to those it is
\* for, whatever the shares, the rounding, the pauses and the way the stream ends.
THEOREM StreamImplementsDrawdown == Spec => ImplementsDrawdown
<1>1. Init => D!Init
  BY DrawdownInit
<1>2. IInv /\ PlainPaysUser /\ [Next]_vars => [D!Next]_(D!vars)
  BY StepImplementsDrawdown
<1> QED
  BY <1>1, <1>2, Invariance, PlainPaysInvariance, PTL DEF Spec, ImplementsDrawdown, D!Spec

=============================================================================
