--------------------------- MODULE StreamHistory ----------------------------
(***************************************************************************)
(* RecurringStream with two history variables: how long each stream really *)
(* ran, and how long it was paused before it started.  The contract counts *)
(* neither; it works the vesting out again from the start ledger, the end  *)
(* ledger and the pauses whenever it is asked.                             *)
(***************************************************************************)
EXTENDS RecurringStream

VARIABLES
  ran,    \* for each stream, the ledgers it was running in
  early   \* and those before its start in which it was paused

hvars == <<vars, ran, early>>

\* The current ledger is one in which the stream vests.
Running(id) ==
  LET s == streams[id]
  IN  s.status = "Active" /\ s.start_ledger <= ledger /\ ledger < s.end_ledger

\* It is paused though it has not started.
PausedEarly(id) == streams[id].status = "Paused" /\ ledger < streams[id].start_ledger

HInit == Init /\ ran = <<>> /\ early = <<>>

\* A count of ledgers goes on, for the streams in `those`, when a ledger closes.
CountOn(count, those) ==
  [id \in 1..counter' |->
     IF id \notin Ids THEN 0
     ELSE IF ledger' # ledger /\ id \in those THEN count[id] + 1 ELSE count[id]]

HNext ==
  /\ Next
  /\ ran' = CountOn(ran, {id \in Ids : Running(id)})
  /\ early' = CountOn(early, {id \in Ids : PausedEarly(id)})

HSpec == HInit /\ [][HNext]_hvars

-----------------------------------------------------------------------------
(* Properties *)

\* claimed never exceeds the share of the total that the running time is of the
\* duration.
WithinEarned(id) ==
  LET s == streams[id]
  IN  s.claimed_amount * (s.end_ledger - s.start_ledger) <= s.total_amount * ran[id]

\* Nobody claims ahead of time: whatever pauses there were, and however claims
\* lie between them, what was claimed of a stream that is not cancelled was
\* earned while it ran.
ClaimedIsEarned ==
  \A id \in Ids : streams[id].status # "Cancelled" => WithinEarned(id)

\* And nobody is kept waiting: active_ledgers of an Active stream is what the code
\* says of it, "Number of ledgers the stream has been active (excluding paused
\* intervals)", to the ledger, after any pauses, overlong ones included.  It is not
\* so of a stream that was paused before its start, which is left out: that pause
\* is taken off the ledgers the stream is active in afterwards.
VestingExact ==
  \A id \in Ids :
    streams[id].status = "Active" /\ early[id] = 0 =>
      active_ledgers(streams[id], ledger) = ran[id]

\* "When cancelling from Paused the refund is computed over active intervals
\* only": a cancelled stream paid no more than was earned while it ran either.
CancelPaysActiveOnly ==
  \A id \in Ids : streams[id].status = "Cancelled" => WithinEarned(id)

=============================================================================
