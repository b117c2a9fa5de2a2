-------------------------- MODULE RecurringStream ---------------------------
(***************************************************************************)
(* The RecurringStream contract (contract/recurring-stream/src/lib.rs): an *)
(* amount that vests ledger by ledger for a recipient, or for several who  *)
(* share it.  As in ScheduleVault each entry point is one action, a call   *)
(* that fails is a stuttering step, and a call the code guards with        *)
(* stream.owner.require_auth() is made by the stream's owner.              *)
(*                                                                         *)
(* u32 arithmetic that overflows panics (the release profile has overflow  *)
(* checks), so the sums of ledgers below have to stay under MaxU32; i128   *)
(* arithmetic does too, so the products of a payout have to stay under     *)
(* MaxI128.                                                                *)
(*                                                                         *)
(* Two places of the source do not compile and are read as their comments  *)
(* and tests say: claimable_amount returns 0 unless the stream is Active   *)
(* (lines 113 and 598), and a split stream starts with no grace period and *)
(* no pause (the fields missing at lines 304-317 are zero).                *)
(*                                                                         *)
(* Not in the state: label, which no operation reads, the emitted events,  *)
(* and storage time-to-live.                                               *)
(***************************************************************************)
EXTENDS Integers, Sequences, Totals, Indexes

CONSTANTS
  Users,       \* the accounts that own streams and are paid by them
  Contract,    \* the account of the contract itself
  Tokens,      \* the assets streams are made in
  Amounts,     \* the total amounts callers ask for, acceptable or not
  Durations,   \* the durations callers ask for, in ledgers
  Delays,      \* the start delays callers ask for
  Graces,      \* the grace periods callers ask for
  Shares,      \* the shares callers ask for, in basis points
  MinDuration, \* the shortest duration, 60 ledgers in the code
  BasisPoints, \* the shares of a split stream add up to it, 10000 in the code
  MaxU32,      \* the largest u32
  MaxI128,     \* the largest i128
  Supply,      \* what every user has of every token at first
  MaxSplits,   \* bound: the longest list of splits callers ask for
  MaxStreams,  \* bound: no more streams are created than this
  MaxLedger    \* bound: the ledger sequence stops here

ASSUME UsersAssumption == IsFiniteSet(Users) /\ Contract \notin Users
ASSUME InputsAssumption ==
  /\ Amounts \subseteq Int
  /\ Durations \subseteq Nat /\ Delays \subseteq Nat /\ Graces \subseteq Nat
  /\ Shares \subseteq Nat
ASSUME MinDurationAssumption == MinDuration \in Nat \ {0}
ASSUME BasisPointsAssumption == BasisPoints \in Nat \ {0}
ASSUME MaxI128Assumption == MaxI128 \in Nat /\ \A amount \in Amounts : amount <= MaxI128
ASSUME SupplyAssumption == Supply \in Nat
ASSUME BoundsAssumption ==
  /\ MaxU32 \in Nat /\ MaxSplits \in Nat /\ MaxStreams \in Nat
  /\ MaxLedger \in Nat /\ MaxLedger <= MaxU32

VARIABLES
  ledger,          \* env.ledger().sequence()
  counter,         \* DataKey::Counter, the last id given out
  streams,         \* DataKey::Stream(id)
  splits,          \* DataKey::StreamSplits(id); empty when the key is absent
  recipientIndex,  \* DataKey::StreamsByRecipient(address); empty when absent
  ownerIndex,      \* DataKey::StreamsByOwner(address)
  balance          \* the token contracts: what each account has of each token

vars == <<ledger, counter, streams, splits, recipientIndex, ownerIndex, balance>>

Accounts == Users \cup {Contract}
Statuses == {"Active", "Paused", "Completed", "Cancelled"}
Labels   == {"plain", "empty", "blank", "long"}   \* as in ScheduleVault

StreamSplit == [recipient : Users, share : Nat]

StreamEntry ==
  [owner : Users, recipient : Accounts, token : Tokens, total_amount : Nat \ {0},
   claimed_amount : Nat, start_ledger : Nat, end_ledger : Nat,
   last_claimed_ledger : Nat, created_ledger : Nat, grace_period_ledgers : Nat,
   status : Statuses, paused_at_ledger : Nat, paused_ledgers : Nat]

Ids == 1..counter

-----------------------------------------------------------------------------
(* Vesting *)

Smaller(a, b) == IF a <= b THEN a ELSE b
Larger(a, b)  == IF a >= b THEN a ELSE b

\* CanBeCancelled: the ledgers after the end count.
FaultyActiveLedgers(s, current) == Larger(0, current - s.start_ledger - s.paused_ledgers)

\* active_ledgers of a stream that is not paused.  The ongoing pause, which the
\* code subtracts from a paused one, never counts: whoever asks for a paused
\* stream's vesting (cancel) asks it of a copy whose status is Active.
active_ledgers(s, current) ==
  LET elapsed == Smaller(current, s.end_ledger) - s.start_ledger
  IN  Larger(0, elapsed - s.paused_ledgers)

\* claimable_amount of a stream whose status is, or is taken to be, Active.
claimable_amount(s, current) ==
  IF Smaller(current, s.end_ledger) <= s.last_claimed_ledger
  THEN 0
  ELSE LET vested == (s.total_amount * active_ledgers(s, current))
                       \div (s.end_ledger - s.start_ledger)
       IN  Larger(0, Smaller(vested, s.total_amount) - s.claimed_amount)

-----------------------------------------------------------------------------
(* Paying out *)

\* Who shares what a stream pays: the splits, or the recipient alone.
Shared(id) ==
  IF splits[id] = <<>>
  THEN <<[recipient |-> streams[id].recipient, share |-> BasisPoints]>>
  ELSE splits[id]

\* ImplementsDrawdown: the last share is rounded down like the others.
FaultyPortion(id, amount, i) == (amount * Shared(id)[i].share) \div BasisPoints

\* Every share is rounded down, and the last one is what is left.
Portion(id, amount, i) ==
  LET rounded(j) == (amount * Shared(id)[j].share) \div BasisPoints
      last == Len(Shared(id))
  IN  IF i < last
      THEN rounded(i)
      ELSE amount - Total([j \in 1..last - 1 |-> rounded(j)], last - 1)

\* What an account gets when `amount` is paid to the recipients of id.
PaidTo(id, amount, account) ==
  LET n == Len(Shared(id))
  IN  Total([i \in 1..n |-> IF Shared(id)[i].recipient = account
                            THEN Portion(id, amount, i) ELSE 0], n)

\* The product in claimable_amount, which is worked out unless nothing can have vested
\* since the last claim, fits into an i128.  One that does not panics,
VestingFits(id) ==
  LET s == streams[id]
  IN  Smaller(ledger, s.end_ledger) > s.last_claimed_ledger =>
        s.total_amount * active_ledgers(s, ledger) <= MaxI128

\* and so does one for the shares of the claimable amount.
SharesFit(id) ==
  \A i \in 1..Len(Shared(id)) - 1 :
    claimable_amount(streams[id], ledger) * Shared(id)[i].share <= MaxI128

CanPayOut(token, amount) == amount <= balance[token][Contract]

\* The contract pays `amount` to the recipients of id and `refund` to its owner.
PayOut(id, amount, refund) ==
  LET s == streams[id]
  IN  /\ CanPayOut(s.token, amount + refund)
      /\ balance' =
           [balance EXCEPT ![s.token] =
              [a \in Accounts |->
                 IF a = Contract THEN @[a] - amount - refund
                 ELSE @[a] + PaidTo(id, amount, a) + (IF a = s.owner THEN refund ELSE 0)]]

-----------------------------------------------------------------------------
\* The network's first ledger is ledger 1.
Init ==
  /\ ledger = 1
  /\ counter = 0
  /\ streams = <<>>
  /\ splits = <<>>
  /\ ownerIndex = [u \in Users |-> <<>>]
  /\ recipientIndex = [a \in Accounts |-> <<>>]
  /\ balance = [t \in Tokens |-> [a \in Accounts |-> IF a = Contract THEN 0 ELSE Supply]]

\* TypeOK: the end ledger is counted from now and not from the start.
FaultyOpenStream(owner, recipient, token, total_amount, duration, delay, grace, shared) ==
  LET id    == counter + 1
      start == ledger + delay
  IN  /\ total_amount > 0
      /\ duration >= MinDuration
      /\ start + duration <= MaxU32
      /\ total_amount <= balance[token][owner]
      /\ balance' = [balance EXCEPT ![token][owner] = @ - total_amount,
                                    ![token][Contract] = @ + total_amount]
      /\ counter' = id
      /\ streams' = Append(streams,
           [owner |-> owner, recipient |-> recipient, token |-> token,
            total_amount |-> total_amount, claimed_amount |-> 0,
            start_ledger |-> start, end_ledger |-> ledger + duration,
            last_claimed_ledger |-> start, created_ledger |-> ledger,
            grace_period_ledgers |-> grace, status |-> "Active",
            paused_at_ledger |-> 0, paused_ledgers |-> 0])
      /\ splits' = Append(splits, shared)
      /\ ownerIndex' = [ownerIndex EXCEPT ![owner] = Append(@, id)]
      /\ UNCHANGED ledger

\* What create_stream and create_split_stream have in common: one new stream,
\* paid for by its owner and entered in the owner's index.
OpenStream(owner, recipient, token, total_amount, duration, delay, grace, shared) ==
  LET id    == counter + 1
      start == ledger + delay
  IN  /\ total_amount > 0
      /\ duration >= MinDuration
      /\ start + duration <= MaxU32
      /\ total_amount <= balance[token][owner]
      /\ balance' = [balance EXCEPT ![token][owner] = @ - total_amount,
                                    ![token][Contract] = @ + total_amount]
      /\ counter' = id
      /\ streams' = Append(streams,
           [owner |-> owner, recipient |-> recipient, token |-> token,
            total_amount |-> total_amount, claimed_amount |-> 0,
            start_ledger |-> start, end_ledger |-> start + duration,
            last_claimed_ledger |-> start, created_ledger |-> ledger,
            grace_period_ledgers |-> grace, status |-> "Active",
            paused_at_ledger |-> 0, paused_ledgers |-> 0])
      /\ splits' = Append(splits, shared)
      /\ ownerIndex' = [ownerIndex EXCEPT ![owner] = Append(@, id)]
      /\ UNCHANGED ledger

CreateStream(owner, recipient, token, total_amount, duration, grace, label, delay) ==
  /\ label = "plain"
  /\ OpenStream(owner, recipient, token, total_amount, duration, delay, grace, <<>>)
  /\ recipientIndex' = [recipientIndex EXCEPT ![recipient] = Append(@, counter + 1)]

\* The shares are added up in a u16 whose overflow panics, so a sum other than
\* BasisPoints fails in either way.  The id goes into the list of a recipient as
\* often as the recipient has a share.  The label is not looked at.
CreateSplitStream(owner, shared, token, total_amount, duration) ==
  LET n == Len(shared)
  IN  /\ n > 1
      /\ Total([i \in 1..n |-> shared[i].share], n) = BasisPoints
      /\ OpenStream(owner, Contract, token, total_amount, duration, 0, 0, shared)
      /\ recipientIndex' =
           [a \in Accounts |->
              recipientIndex[a] \o
                [i \in 1..Cardinality({j \in 1..n : shared[j].recipient = a}) |-> counter + 1]]

\* Whoever has a share of the stream.  The recipient of a split stream is the
\* contract, and calls nothing.
MayClaim(id, caller) == \E i \in 1..Len(Shared(id)) : Shared(id)[i].recipient = caller

\* At the end ledger the stream is completed whatever was claimed of it.
Claim(id, caller) ==
  LET s         == streams[id]
      claimable == claimable_amount(s, ledger)
      claimed   == s.claimed_amount + claimable
  IN  /\ MayClaim(id, caller)
      /\ s.status = "Active"
      /\ ledger >= s.start_ledger
      /\ claimable > 0
      /\ VestingFits(id) /\ SharesFit(id)
      /\ streams' = [streams EXCEPT
           ![id] = [s EXCEPT !.claimed_amount = claimed, !.last_claimed_ledger = ledger,
                             !.status = IF claimed >= s.total_amount \/ ledger >= s.end_ledger
                                        THEN "Completed" ELSE @]]
      /\ PayOut(id, claimable, 0)
      /\ UNCHANGED <<ledger, counter, splits, ownerIndex, recipientIndex>>

\* Solvency, CanBeCancelled: the whole amount is given back.
FaultyTick(id) ==
  LET s == streams[id]
  IN  /\ s.status = "Active"
      /\ s.end_ledger + s.grace_period_ledgers <= MaxU32
      /\ ledger >= s.end_ledger + s.grace_period_ledgers
      /\ streams' = [streams EXCEPT ![id].status = "Completed"]
      /\ PayOut(id, 0, s.total_amount)
      /\ UNCHANGED <<ledger, counter, splits, ownerIndex, recipientIndex>>

\* Anybody calls it; a call that finds nothing to do changes nothing.  Its other
\* branch completes an Active stream whose whole amount was claimed, which is
\* what claim has already done.
Tick(id) ==
  LET s == streams[id]
  IN  /\ s.status = "Active"
      /\ s.end_ledger + s.grace_period_ledgers <= MaxU32
      /\ ledger >= s.end_ledger + s.grace_period_ledgers
      /\ streams' = [streams EXCEPT ![id].status = "Completed"]
      /\ PayOut(id, 0, s.total_amount - s.claimed_amount)
      /\ UNCHANGED <<ledger, counter, splits, ownerIndex, recipientIndex>>

Pause(id) ==
  /\ streams[id].status = "Active"
  /\ streams' = [streams EXCEPT ![id].status = "Paused", ![id].paused_at_ledger = ledger]
  /\ UNCHANGED <<ledger, counter, splits, ownerIndex, recipientIndex, balance>>

\* ClaimedIsEarned: only the last pause is remembered.
ForgettingResume(id) ==
  LET s     == streams[id]
      until == Smaller(ledger, s.end_ledger)
      since == Smaller(s.paused_at_ledger, until)
  IN  /\ s.status = "Paused"
      /\ streams' = [streams EXCEPT
           ![id] = [s EXCEPT !.status = "Active", !.paused_at_ledger = 0,
                             !.paused_ledgers = until - since]]
      /\ UNCHANGED <<ledger, counter, splits, ownerIndex, recipientIndex, balance>>

\* VestingExact: the pause is counted beyond the end of the stream.
FaultyResume(id) ==
  LET s == streams[id]
  IN  /\ s.status = "Paused"
      /\ streams' = [streams EXCEPT
           ![id] = [s EXCEPT !.status = "Active", !.paused_at_ledger = 0,
                             !.paused_ledgers = @ + (ledger - s.paused_at_ledger)]]
      /\ UNCHANGED <<ledger, counter, splits, ownerIndex, recipientIndex, balance>>

\* The pause counts as far as the end ledger, and from where it began, be that
\* before the start ledger.  saturating_add does not saturate: the pauses of a
\* stream follow each other.
Resume(id) ==
  LET s     == streams[id]
      until == Smaller(ledger, s.end_ledger)
      since == Smaller(s.paused_at_ledger, until)
  IN  /\ s.status = "Paused"
      /\ streams' = [streams EXCEPT
           ![id] = [s EXCEPT !.status = "Active", !.paused_at_ledger = 0,
                             !.paused_ledgers = @ + (until - since)]]
      /\ UNCHANGED <<ledger, counter, splits, ownerIndex, recipientIndex, balance>>

\* cancel passes its checks, nothing overflows, and what it pays and refunds in all
\* is there.
CanCancel(id) ==
  LET s == streams[id]
  IN  /\ s.status \in {"Active", "Paused"}
      /\ VestingFits(id) /\ SharesFit(id)
      /\ CanPayOut(s.token, s.total_amount - s.claimed_amount)

\* What is claimable goes to the recipients and the rest to the owner.  The
\* claimable amount of a paused stream is that of an active one: the pause that
\* is going on is not taken off.
Cancel(id) ==
  LET s         == streams[id]
      claimable == claimable_amount(s, ledger)
      claimed   == s.claimed_amount + claimable
  IN  /\ CanCancel(id)
      /\ streams' = [streams EXCEPT ![id].status = "Cancelled", ![id].claimed_amount = claimed]
      /\ PayOut(id, claimable, s.total_amount - claimed)
      /\ UNCHANGED <<ledger, counter, splits, ownerIndex, recipientIndex>>

\* PlainRecipientIndexed, SplitRecipientIndexed: the id stays in the old recipient's list.
FaultyChangeRecipient(id, new_recipient) ==
  LET old == streams[id].recipient
  IN  /\ streams[id].status = "Active"
      /\ old # new_recipient
      /\ recipientIndex' = [recipientIndex EXCEPT ![new_recipient] = Append(@, id)]
      /\ streams' = [streams EXCEPT ![id].recipient = new_recipient]
      /\ UNCHANGED <<ledger, counter, splits, ownerIndex, balance>>

\* The id is taken out of the old recipient's list wherever it is, and put into
\* the new one's unless it is there.  The splits of a split stream stay.
ChangeRecipient(id, new_recipient) ==
  LET old     == streams[id].recipient
      without == [recipientIndex EXCEPT ![old] = Without(@, id)]
  IN  /\ streams[id].status = "Active"
      /\ old # new_recipient
      /\ recipientIndex' = [without EXCEPT ![new_recipient] =
                              IF Contains(@, id) THEN @ ELSE Append(@, id)]
      /\ streams' = [streams EXCEPT ![id].recipient = new_recipient]
      /\ UNCHANGED <<ledger, counter, splits, ownerIndex, balance>>

\* The network closes a ledger.
CloseLedger ==
  /\ ledger < MaxLedger
  /\ ledger' = ledger + 1
  /\ UNCHANGED <<counter, streams, splits, ownerIndex, recipientIndex, balance>>

-----------------------------------------------------------------------------
(* A list of splits has from none to MaxSplits shares.                      *)

SplitLists ==
  UNION {[1..n -> [recipient : Users, share : Shares]] : n \in 0..MaxSplits}

Create ==
  /\ counter < MaxStreams
  /\ \E owner \in Users, token \in Tokens, total_amount \in Amounts, duration \in Durations :
       \/ \E recipient \in Users, grace \in Graces, label \in Labels, delay \in Delays :
            CreateStream(owner, recipient, token, total_amount, duration, grace, label, delay)
       \/ \E shared \in SplitLists :
            CreateSplitStream(owner, shared, token, total_amount, duration)

Next ==
  \/ CloseLedger
  \/ Create
  \/ \E id \in Ids :
        \/ Tick(id)
        \/ Pause(id)
        \/ Resume(id)
        \/ Cancel(id)
        \/ \E caller \in Users : Claim(id, caller)
        \/ \E new_recipient \in Users : ChangeRecipient(id, new_recipient)

Spec == Init /\ [][Next]_vars

-----------------------------------------------------------------------------
(* Properties *)

\* Every variable has its type; no more is claimed than was put in; a stream
\* runs for at least the shortest duration; an Active stream has no pause ledger
\* and a paused one has.
TypeOK ==
  /\ ledger \in Nat \ {0}
  /\ counter \in Nat
  /\ streams \in Seq(StreamEntry) /\ Len(streams) = counter
  /\ splits \in Seq(Seq(StreamSplit)) /\ Len(splits) = counter
  /\ ownerIndex \in [Users -> Seq(Ids)]
  /\ recipientIndex \in [Accounts -> Seq(Ids)]
  /\ balance \in [Tokens -> [Accounts -> Nat]]
  /\ \A id \in Ids :
       LET s == streams[id]
       IN  /\ s.claimed_amount <= s.total_amount
           /\ s.start_ledger + MinDuration <= s.end_ledger
           /\ s.status = "Active" => s.paused_at_ledger = 0
           /\ s.status = "Paused" => s.paused_at_ledger > 0

Live(id) == streams[id].status \in {"Active", "Paused"}
Owed(token) ==
  [id \in Ids |-> IF Live(id) /\ streams[id].token = token
                  THEN streams[id].total_amount - streams[id].claimed_amount ELSE 0]

\* The contract has, of every token, at least what the streams that are not over
\* still have to give out, whatever was claimed, shared out, refunded or left
\* behind by the others: no order of calls lets one stream pay with another's
\* money.
Solvency ==
  \A token \in Tokens : balance[token][Contract] >= Total(Owed(token), counter)

\* What is worked out for a stream fits into an i128 when it has vested as a whole.
Modest(id) ==
  LET s == streams[id]
  IN  /\ s.total_amount * (s.end_ledger - s.start_ledger) <= MaxI128
      /\ \A i \in 1..Len(Shared(id)) - 1 : s.total_amount * Shared(id)[i].share <= MaxI128

\* "Cancels the stream ... Works from both Active and Paused": at every ledger,
\* whatever was claimed, paused, shared out and refunded before, by this stream or
\* by others, nothing overflows on the way and the money is there.  A stream that is
\* too large for it is left out: its cancel, and its claim, may panic.
CanBeCancelled == \A id \in Ids : Live(id) /\ Modest(id) => CanCancel(id)

\* What a stream keeps for its recipient and its owner is given out by the time
\* it is over ("End ledger reached and all tokens claimed", or cancelled, or
\* expired by tick): the contract has no money that belongs to no stream.  A
\* claim at or after the end ledger of a stream that was paused breaks it.
NothingStranded ==
  \A token \in Tokens : balance[token][Contract] = Total(Owed(token), counter)

IsPlain(id) == splits[id] = <<>>

\* A stream with one recipient is in that recipient's list, once, and in nobody
\* else's, wherever change_recipient moved it before, back again included.
PlainRecipientIndexed ==
  \A a \in Accounts, id \in Ids :
    IsPlain(id) => IF streams[id].recipient = a THEN Once(recipientIndex[a], id)
                                                ELSE ~Contains(recipientIndex[a], id)

\* A split stream is listed for those it pays, and for the recipient change_recipient
\* gave it, and for nobody who was its recipient in between.  (One of those it pays who
\* was its recipient in between is not in the list any more.)
SplitRecipientIndexed ==
  \A id \in Ids : ~IsPlain(id) =>
    LET recipient == streams[id].recipient
        sharers   == {splits[id][i].recipient : i \in DOMAIN splits[id]}
    IN  /\ \A a \in Accounts :
             Contains(recipientIndex[a], id) => a = recipient \/ a \in sharers
        /\ recipient # Contract => Contains(recipientIndex[recipient], id)

\* The drawdown this contract implements: one fund per stream.
StreamFunds ==
  [id \in Ids |->
     [owner |-> streams[id].owner, token |-> streams[id].token,
      payees |-> {Shared(id)[i].recipient : i \in 1..Len(Shared(id))},
      rest |-> IF Live(id) THEN streams[id].total_amount - streams[id].claimed_amount ELSE 0,
      open |-> Live(id)]]

StreamWallets == [t \in Tokens |-> [u \in Users |-> balance[t][u]]]

D == INSTANCE Drawdown WITH funds <- StreamFunds, wallet <- StreamWallets

\* Shares, rounding, pauses and the three ways a stream ends give each unit of a
\* stream out at most once, to those it is for at that moment.
ImplementsDrawdown == D!Spec

=============================================================================
