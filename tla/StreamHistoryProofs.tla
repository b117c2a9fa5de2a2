------------------------- MODULE StreamHistoryProofs -------------------------
(***************************************************************************)
(* Theorems about StreamHistory: what a stream pays is earned by the time  *)
(* it really ran, for every set of amounts, durations and delays and every *)
(* number and length of pauses.                                            *)
(*                                                                         *)
(* Neither property is inductive.  Fits relates, for each stream, what the *)
(* contract would work out to the time it ran, and says it of a paused     *)
(* stream too, as of the ledger it was paused at: resume then takes off    *)
(* exactly what was not run.                                               *)
(***************************************************************************)
EXTENDS StreamHistory, RecurringStreamProofs

USE UsersAssumption, InputsAssumption, MinDurationAssumption, SupplyAssumption,
    BoundsAssumption

\* The ledgers between the start and now, or the pause that is going on, or the end,
\* without the pauses that are over.
Unpaused(s, l) ==
  Smaller(IF s.status = "Paused" THEN s.paused_at_ledger ELSE l, s.end_ledger)
    - s.start_ledger - s.paused_ledgers

\* A stream that ran for r ledgers, and was paused for e before its start, up to
\* ledger l.
Fits(s, r, e, l) ==
  /\ s.created_ledger <= l
  /\ s.paused_at_ledger <= l
  /\ l <= s.start_ledger => r = 0
  /\ s.status \in {"Active", "Paused"} =>
       Unpaused(s, l) = r - e - (s.start_ledger - Smaller(l, s.start_ledger))
  /\ s.status # "Cancelled" =>
       s.claimed_amount * (s.end_ledger - s.start_ledger) <= s.total_amount * r

Timed ==
  /\ ran \in [Ids -> Nat] /\ early \in [Ids -> Nat]
  /\ \A id \in Ids : Fits(streams[id], ran[id], early[id], ledger)

HInv == IInv /\ Timed

-----------------------------------------------------------------------------
(* What Fits says of the properties *)

\* A stream's entry is made of numbers.
LEMMA StreamNumbers ==
  ASSUME TypeOK, NEW id \in Ids, NEW s, s = streams[id]
  PROVE  /\ s \in StreamEntry
         /\ s.total_amount \in Nat /\ s.claimed_amount \in Nat
         /\ s.start_ledger \in Nat /\ s.end_ledger \in Nat /\ s.created_ledger \in Nat
         /\ s.paused_at_ledger \in Nat /\ s.paused_ledgers \in Nat
         /\ s.last_claimed_ledger \in Nat
         /\ s.end_ledger - s.start_ledger \in Nat /\ s.end_ledger - s.start_ledger > 0
         /\ s.status = "Active" => s.paused_at_ledger = 0
<1>1. s \in StreamEntry /\ Sound(s)
  BY StreamType, StreamSound
<1>2. /\ s.total_amount \in Nat /\ s.claimed_amount \in Nat
      /\ s.start_ledger \in Nat /\ s.end_ledger \in Nat /\ s.created_ledger \in Nat
      /\ s.paused_at_ledger \in Nat /\ s.paused_ledgers \in Nat
      /\ s.last_claimed_ledger \in Nat
  BY <1>1 DEF StreamEntry
<1>3. s.end_ledger - s.start_ledger \in Nat /\ s.end_ledger - s.start_ledger > 0
  BY <1>1, <1>2 DEF Sound
<1> QED
  BY <1>1, <1>2, <1>3 DEF Sound

LEMMA TimedClaims == TypeOK /\ Timed => ClaimedIsEarned
BY DEF Timed, Fits, ClaimedIsEarned, WithinEarned

\* What the contract counts is what the stream ran less what it was paused before
\* its start, which it was not paused for later.
LEMMA CountedTime ==
  ASSUME TypeOK, Timed, NEW id \in Ids, NEW s, s = streams[id], s.status = "Active"
  PROVE  active_ledgers(s, ledger) = Larger(0, ran[id] - early[id])
<1>1. PICK r, e : r = ran[id] /\ e = early[id]
  OBVIOUS
<1>2. /\ r \in Nat /\ e \in Nat
      /\ Unpaused(s, ledger) = r - e - (s.start_ledger - Smaller(ledger, s.start_ledger))
      /\ ledger <= s.start_ledger => r = 0
  BY <1>1 DEF Timed, Fits
<1>3. /\ s.start_ledger \in Nat /\ s.end_ledger \in Nat /\ s.paused_ledgers \in Nat
      /\ ledger \in Nat
  BY StreamNumbers DEF TypeOK
<1> QED
  BY <1>1, <1>2, <1>3 DEF Unpaused, active_ledgers, Smaller, Larger

LEMMA TimedVesting == TypeOK /\ Timed => VestingExact
<1> SUFFICES ASSUME TypeOK, Timed, NEW id \in Ids, NEW s, s = streams[id],
                    s.status = "Active", early[id] = 0
             PROVE  active_ledgers(s, ledger) = ran[id]
  BY DEF VestingExact
<1>1. ran[id] \in Nat
  BY DEF Timed, Fits
<1> QED
  BY <1>1, CountedTime DEF Larger

-----------------------------------------------------------------------------
(* Steps *)

\* A ledger closes: a stream that runs in it ran for one ledger more.
LEMMA LedgerFits ==
  ASSUME TypeOK, NEW id \in Ids, NEW s, s = streams[id], NEW r \in Nat, NEW e \in Nat,
         Fits(s, r, e, ledger),
         NEW n, n = IF Running(id) THEN r + 1 ELSE r,
         NEW m, m = IF PausedEarly(id) THEN e + 1 ELSE e
  PROVE  n \in Nat /\ m \in Nat /\ Fits(s, n, m, ledger + 1)
<1>1. /\ s.total_amount \in Nat /\ s.claimed_amount \in Nat
      /\ s.start_ledger \in Nat /\ s.end_ledger \in Nat /\ s.created_ledger \in Nat
      /\ s.paused_at_ledger \in Nat /\ s.paused_ledgers \in Nat
      /\ s.end_ledger - s.start_ledger \in Nat
      /\ ledger \in Nat
  BY StreamNumbers DEF TypeOK
<1>2. Running(id) <=> s.status = "Active" /\ s.start_ledger <= ledger /\ ledger < s.end_ledger
  BY DEF Running
<1>3. n \in Nat /\ r <= n /\ m \in Nat
  OBVIOUS
<1>4. PausedEarly(id) <=> s.status = "Paused" /\ ledger < s.start_ledger
  BY DEF PausedEarly
<1>5. s.status \in {"Active", "Paused"} =>
        Unpaused(s, ledger + 1)
          = n - m - (s.start_ledger - Smaller(ledger + 1, s.start_ledger))
  <2>1. CASE s.status = "Paused"
    <3>1. n = r /\ Unpaused(s, ledger + 1) = Unpaused(s, ledger)
      BY <1>2, <2>1 DEF Unpaused
    <3>2. Unpaused(s, ledger) = r - e - (s.start_ledger - Smaller(ledger, s.start_ledger))
      BY <2>1 DEF Fits
    <3>3. m = IF ledger < s.start_ledger THEN e + 1 ELSE e
      BY <1>4, <2>1
    <3> QED
      BY <1>1, <3>1, <3>2, <3>3 DEF Smaller
  <2>2. CASE s.status = "Active"
    <3>1. /\ Unpaused(s, ledger) = Smaller(ledger, s.end_ledger) - s.start_ledger - s.paused_ledgers
          /\ Unpaused(s, ledger + 1)
               = Smaller(ledger + 1, s.end_ledger) - s.start_ledger - s.paused_ledgers
      BY <2>2 DEF Unpaused
    <3>2. Unpaused(s, ledger) = r - e - (s.start_ledger - Smaller(ledger, s.start_ledger))
      BY <2>2 DEF Fits
    <3>3. m = e /\ n = IF s.start_ledger <= ledger /\ ledger < s.end_ledger THEN r + 1 ELSE r
      BY <1>2, <1>4, <2>2
    <3> QED
      BY <1>1, <3>1, <3>2, <3>3 DEF Smaller
  <2> QED
    BY <2>1, <2>2
<1>6. s.total_amount * r <= s.total_amount * n
  <2>1. PICK d : d = n - r
    OBVIOUS
  <2>2. d \in Nat /\ n = r + d
    BY <1>3, <2>1
  <2>3. s.total_amount * n = s.total_amount * r + s.total_amount * d
    BY <1>1, <2>2
  <2>4. s.total_amount * d \in Nat /\ s.total_amount * r \in Nat
    BY <1>1, <2>2
  <2> QED
    BY <2>3, <2>4
<1>7. s.claimed_amount * (s.end_ledger - s.start_ledger) <= s.total_amount * r
        => s.claimed_amount * (s.end_ledger - s.start_ledger) <= s.total_amount * n
  <2>1. /\ s.claimed_amount * (s.end_ledger - s.start_ledger) \in Nat
        /\ s.total_amount * r \in Nat /\ s.total_amount * n \in Nat
    BY <1>1, <1>3
  <2> QED
    BY <1>6, <2>1
<1>8. ledger + 1 <= s.start_ledger => n = 0
  BY <1>1, <1>2 DEF Fits
<1>9. s.created_ledger <= ledger + 1 /\ s.paused_at_ledger <= ledger + 1
  BY <1>1 DEF Fits
<1>10. s.status # "Cancelled" =>
         s.claimed_amount * (s.end_ledger - s.start_ledger) <= s.total_amount * n
  BY <1>7 DEF Fits
<1> QED
  BY <1>3, <1>5, <1>8, <1>9, <1>10 DEF Fits

\* What may be claimed was earned.
LEMMA ClaimFits ==
  ASSUME TypeOK, NEW id \in Ids, NEW s, s = streams[id], s.status = "Active",
         NEW r \in Nat, NEW e \in Nat, Fits(s, r, e, ledger),
         NEW claimable, claimable = claimable_amount(s, ledger)
  PROVE  (s.claimed_amount + claimable) * (s.end_ledger - s.start_ledger) <= s.total_amount * r
<1>1. /\ s.total_amount \in Nat /\ s.claimed_amount \in Nat
      /\ s.start_ledger \in Nat /\ s.end_ledger \in Nat
      /\ s.paused_ledgers \in Nat /\ s.last_claimed_ledger \in Nat
      /\ ledger \in Nat
  BY StreamNumbers DEF TypeOK
<1>2. PICK d, active : d = s.end_ledger - s.start_ledger /\ active = active_ledgers(s, ledger)
  OBVIOUS
<1>3. d \in Nat /\ d > 0
  BY <1>2, StreamNumbers
<1>4. active \in Nat /\ active <= r
  BY <1>1, <1>2 DEF Fits, Unpaused, active_ledgers, Smaller, Larger
<1>5. PICK x, y, vested : x = s.total_amount * active /\ y = s.total_amount * r /\ vested = x \div d
  OBVIOUS
<1>6. x \in Nat /\ y \in Nat /\ x <= y
  <2>1. PICK f : f = r - active
    OBVIOUS
  <2>2. f \in Nat /\ r = active + f
    BY <1>4, <2>1
  <2>3. s.total_amount * r = s.total_amount * active + s.total_amount * f
    BY <1>1, <1>4, <2>2
  <2>4. s.total_amount * f \in Nat /\ s.total_amount * active \in Nat
    BY <1>1, <1>4, <2>2
  <2> QED
    BY <1>5, <2>3, <2>4
<1>7. vested \in Nat /\ vested * d <= x
  BY <1>3, <1>5, <1>6
<1>8. claimable = IF Smaller(ledger, s.end_ledger) <= s.last_claimed_ledger THEN 0
                  ELSE Larger(0, Smaller(vested, s.total_amount) - s.claimed_amount)
  BY <1>2, <1>5 DEF claimable_amount
<1>9. CASE claimable = 0
  BY <1>1, <1>9 DEF Fits
<1>10. CASE claimable # 0
  <2>1. s.claimed_amount + claimable <= vested /\ s.claimed_amount + claimable \in Nat
    BY <1>1, <1>7, <1>8, <1>10 DEF Smaller, Larger
  <2>2. PICK c : c = s.claimed_amount + claimable
    OBVIOUS
  <2>3. c * d <= vested * d
    <3>1. PICK f : f = vested - c
      OBVIOUS
    <3>2. f \in Nat /\ vested = c + f /\ c \in Nat
      BY <1>7, <2>1, <2>2, <3>1
    <3>3. vested * d = c * d + f * d /\ f * d \in Nat /\ c * d \in Nat
      BY <1>3, <3>2
    <3> QED
      BY <3>3
  <2>4. c * d \in Nat /\ vested * d \in Nat
    BY <1>3, <1>7, <2>1, <2>2
  <2>5. c * d <= y
    BY <1>6, <1>7, <2>3, <2>4
  <2> QED
    BY <1>2, <1>5, <2>2, <2>5
<1> QED
  BY <1>9, <1>10

\* A step on one stream that takes no time.
LEMMA StreamStepTimed ==
  ASSUME HInv, HNext, NEW id \in Ids, NEW q \in StreamEntry,
         streams' = [streams EXCEPT ![id] = q],
         UNCHANGED <<ledger, counter>>,
         Fits(q, ran[id], early[id], ledger)
  PROVE  Timed'
<1>1. Ids' = Ids /\ ran' = ran /\ early' = early
  <2>1. ran' = [j \in Ids |-> ran[j]] /\ early' = [j \in Ids |-> early[j]]
    BY DEF HNext, CountOn, Ids
  <2>2. ran = [j \in Ids |-> ran[j]] /\ early = [j \in Ids |-> early[j]]
    BY DEF HInv, Timed
  <2> QED
    BY <2>1, <2>2 DEF Ids
<1>2. streams'[id] = q /\ \A j \in Ids : j # id => streams'[j] = streams[j]
  BY StreamsExcept DEF HInv, IInv
<1>3. ASSUME NEW j \in Ids
      PROVE  Fits(streams'[j], ran[j], early[j], ledger)
  BY <1>2 DEF HInv, Timed
<1> QED
  BY <1>1, <1>3 DEF HInv, Timed

LEMMA ClaimTimed ==
  ASSUME HInv, HNext, NEW id \in Ids, NEW caller \in Users, Claim(id, caller)
  PROVE  Timed'
<1>1. PICK s, r, e, claimable, claimed, status :
        /\ s = streams[id] /\ r = ran[id] /\ e = early[id] /\ claimable = claimable_amount(s, ledger)
        /\ claimed = s.claimed_amount + claimable
        /\ status = IF claimed >= s.total_amount \/ ledger >= s.end_ledger THEN "Completed" ELSE s.status
  OBVIOUS
<1>2. PICK q : q = [s EXCEPT !.claimed_amount = claimed, !.last_claimed_ledger = ledger,
                             !.status = status]
  OBVIOUS
<1>3. s.status = "Active" /\ streams' = [streams EXCEPT ![id] = q] /\ UNCHANGED <<ledger, counter>>
  BY <1>1, <1>2 DEF Claim
<1>4. /\ s \in StreamEntry /\ s.claimed_amount \in Nat /\ ledger \in Nat
      /\ claimable \in Nat /\ claimed \in Nat
      /\ r \in Nat /\ e \in Nat /\ Fits(s, r, e, ledger)
  <2>1. s \in StreamEntry /\ s.claimed_amount \in Nat
    BY <1>1, StreamNumbers DEF HInv, IInv
  <2>2. claimable \in Nat
    BY <1>1, ClaimableType DEF HInv, IInv
  <2>3. ledger \in Nat
    BY DEF HInv, IInv, TypeOK
  <2>4. r \in Nat /\ e \in Nat /\ Fits(s, r, e, ledger)
    BY <1>1 DEF HInv, Timed
  <2> QED
    BY <1>1, <2>1, <2>2, <2>3, <2>4
<1>5. status \in {"Active", "Completed"}
  BY <1>1, <1>3
<1>6. /\ q \in StreamEntry /\ q.claimed_amount = claimed /\ q.status = status
      /\ q.total_amount = s.total_amount /\ q.paused_ledgers = s.paused_ledgers
      /\ q.start_ledger = s.start_ledger /\ q.end_ledger = s.end_ledger
      /\ q.paused_at_ledger = s.paused_at_ledger /\ q.created_ledger = s.created_ledger
  BY <1>2, <1>4, <1>5 DEF StreamEntry, Statuses
<1>7. claimed * (s.end_ledger - s.start_ledger) <= s.total_amount * r
  BY <1>1, <1>3, <1>4, ClaimFits DEF HInv, IInv
<1>8. Unpaused(q, ledger) = Unpaused(s, ledger)
  BY <1>3, <1>5, <1>6 DEF Unpaused
<1>9. Fits(q, r, e, ledger)
  BY <1>3, <1>4, <1>6, <1>7, <1>8 DEF Fits
<1> QED
  BY <1>1, <1>3, <1>6, <1>9, StreamStepTimed

LEMMA TickTimed ==
  ASSUME HInv, HNext, NEW id \in Ids, Tick(id)
  PROVE  Timed'
<1>1. PICK s, r, e : s = streams[id] /\ r = ran[id] /\ e = early[id]
  OBVIOUS
<1>2. PICK q : q = [s EXCEPT !.status = "Completed"]
  OBVIOUS
<1>3. s.status = "Active" /\ streams' = [streams EXCEPT ![id] = q] /\ UNCHANGED <<ledger, counter>>
  BY <1>1, <1>2 DEF Tick
<1>4. s \in StreamEntry /\ r \in Nat /\ e \in Nat /\ Fits(s, r, e, ledger)
  BY <1>1, StreamNumbers DEF HInv, IInv, Timed
<1>5. /\ q \in StreamEntry /\ q.claimed_amount = s.claimed_amount /\ q.status = "Completed"
      /\ q.total_amount = s.total_amount
      /\ q.start_ledger = s.start_ledger /\ q.end_ledger = s.end_ledger
      /\ q.paused_at_ledger = s.paused_at_ledger /\ q.created_ledger = s.created_ledger
  BY <1>2, <1>4 DEF StreamEntry, Statuses
<1>6. Fits(q, r, e, ledger)
  BY <1>3, <1>4, <1>5 DEF Fits
<1> QED
  BY <1>1, <1>3, <1>5, <1>6, StreamStepTimed

LEMMA PauseTimed ==
  ASSUME HInv, HNext, NEW id \in Ids, Pause(id)
  PROVE  Timed'
<1>1. PICK s, r, e : s = streams[id] /\ r = ran[id] /\ e = early[id]
  OBVIOUS
<1>2. PICK q : q = [[s EXCEPT !.status = "Paused"] EXCEPT !.paused_at_ledger = ledger]
  OBVIOUS
<1>3. s \in StreamEntry /\ r \in Nat /\ e \in Nat /\ Fits(s, r, e, ledger)
  BY <1>1, StreamNumbers DEF HInv, IInv, Timed
<1>4. ledger \in Nat /\ id \in DOMAIN streams
  BY DEF HInv, IInv, TypeOK, Ids
<1>5. s.status = "Active" /\ streams' = [streams EXCEPT ![id] = q] /\ UNCHANGED <<ledger, counter>>
  BY <1>1, <1>2, <1>4 DEF Pause
<1>6. /\ q \in StreamEntry /\ q.claimed_amount = s.claimed_amount /\ q.status = "Paused"
      /\ q.total_amount = s.total_amount /\ q.paused_ledgers = s.paused_ledgers
      /\ q.start_ledger = s.start_ledger /\ q.end_ledger = s.end_ledger
      /\ q.paused_at_ledger = ledger /\ q.created_ledger = s.created_ledger
  BY <1>2, <1>3, <1>4 DEF StreamEntry, Statuses
<1>7. Unpaused(q, ledger) = Unpaused(s, ledger)
  BY <1>5, <1>6 DEF Unpaused
<1>8. Fits(q, r, e, ledger)
  BY <1>3, <1>4, <1>5, <1>6, <1>7 DEF Fits
<1> QED
  BY <1>1, <1>5, <1>6, <1>8, StreamStepTimed

LEMMA ResumeTimed ==
  ASSUME HInv, HNext, NEW id \in Ids, Resume(id)
  PROVE  Timed'
<1>1. PICK s, r, e, total :
        /\ s = streams[id] /\ r = ran[id] /\ e = early[id]
        /\ total = s.paused_ledgers + (Smaller(ledger, s.end_ledger)
                     - Smaller(s.paused_at_ledger, Smaller(ledger, s.end_ledger)))
  OBVIOUS
<1>2. PICK q : q = [s EXCEPT !.status = "Active", !.paused_at_ledger = 0, !.paused_ledgers = total]
  OBVIOUS
<1>3. s.status = "Paused" /\ streams' = [streams EXCEPT ![id] = q] /\ UNCHANGED <<ledger, counter>>
  BY <1>1, <1>2 DEF Resume
<1>4. /\ s \in StreamEntry /\ r \in Nat /\ e \in Nat /\ Fits(s, r, e, ledger)
      /\ s.start_ledger \in Nat /\ s.end_ledger \in Nat
      /\ s.paused_at_ledger \in Nat /\ s.paused_ledgers \in Nat
  BY <1>1, StreamNumbers DEF HInv, IInv, Timed
<1>5. ledger \in Nat
  BY DEF HInv, IInv, TypeOK
<1>6. total \in Nat
  BY <1>1, <1>4, <1>5 DEF Smaller
<1>7. /\ q \in StreamEntry /\ q.claimed_amount = s.claimed_amount /\ q.status = "Active"
      /\ q.total_amount = s.total_amount /\ q.paused_ledgers = total
      /\ q.start_ledger = s.start_ledger /\ q.end_ledger = s.end_ledger
      /\ q.paused_at_ledger = 0 /\ q.created_ledger = s.created_ledger
  BY <1>2, <1>4, <1>6 DEF StreamEntry, Statuses
<1>8. s.paused_at_ledger <= ledger
  BY <1>4 DEF Fits
<1>9. Unpaused(q, ledger) = Unpaused(s, ledger)
  <2>1. Unpaused(q, ledger) = Smaller(ledger, s.end_ledger) - s.start_ledger - total
    BY <1>7 DEF Unpaused
  <2>2. Unpaused(s, ledger) = Smaller(s.paused_at_ledger, s.end_ledger) - s.start_ledger - s.paused_ledgers
    BY <1>3 DEF Unpaused
  <2> QED
    BY <1>1, <1>4, <1>5, <1>8, <2>1, <2>2 DEF Smaller
<1>10. Fits(q, r, e, ledger)
  BY <1>3, <1>4, <1>5, <1>7, <1>9 DEF Fits
<1> QED
  BY <1>1, <1>3, <1>7, <1>10, StreamStepTimed

LEMMA CancelTimed ==
  ASSUME HInv, HNext, NEW id \in Ids, Cancel(id)
  PROVE  Timed'
<1>1. PICK s, r, e, claimed :
        s = streams[id] /\ r = ran[id] /\ e = early[id] /\ claimed = s.claimed_amount + claimable_amount(s, ledger)
  OBVIOUS
<1>2. PICK q : q = [[s EXCEPT !.status = "Cancelled"] EXCEPT !.claimed_amount = claimed]
  OBVIOUS
<1>3. /\ s \in StreamEntry /\ s.claimed_amount \in Nat
      /\ r \in Nat /\ e \in Nat /\ Fits(s, r, e, ledger)
  BY <1>1, StreamNumbers DEF HInv, IInv, Timed
<1>4. id \in DOMAIN streams
  BY DEF HInv, IInv, TypeOK, Ids
<1>5. streams' = [streams EXCEPT ![id] = q] /\ UNCHANGED <<ledger, counter>>
  BY <1>1, <1>2, <1>4 DEF Cancel
<1>6. claimed \in Nat
  BY <1>1, <1>3, ClaimableType DEF HInv, IInv
<1>7. /\ q \in StreamEntry /\ q.status = "Cancelled" /\ q.start_ledger = s.start_ledger
      /\ q.paused_at_ledger = s.paused_at_ledger /\ q.created_ledger = s.created_ledger
  BY <1>2, <1>3, <1>6 DEF StreamEntry, Statuses
<1>8. Fits(q, r, e, ledger)
  BY <1>3, <1>7 DEF Fits
<1> QED
  BY <1>1, <1>5, <1>7, <1>8, StreamStepTimed

LEMMA ChangeRecipientTimed ==
  ASSUME HInv, HNext, NEW id \in Ids, NEW new_recipient \in Users,
         ChangeRecipient(id, new_recipient)
  PROVE  Timed'
<1>1. PICK s, r, e : s = streams[id] /\ r = ran[id] /\ e = early[id]
  OBVIOUS
<1>2. PICK q : q = [s EXCEPT !.recipient = new_recipient]
  OBVIOUS
<1>3. /\ s \in StreamEntry /\ r \in Nat /\ e \in Nat /\ Fits(s, r, e, ledger)
  BY <1>1, StreamNumbers DEF HInv, IInv, Timed
<1>4. id \in DOMAIN streams
  BY DEF HInv, IInv, TypeOK, Ids
<1>5. streams' = [streams EXCEPT ![id] = q] /\ UNCHANGED <<ledger, counter>>
  BY <1>1, <1>2, <1>4 DEF ChangeRecipient
<1>6. /\ q \in StreamEntry /\ q.claimed_amount = s.claimed_amount /\ q.status = s.status
      /\ q.total_amount = s.total_amount /\ q.paused_ledgers = s.paused_ledgers
      /\ q.start_ledger = s.start_ledger /\ q.end_ledger = s.end_ledger
      /\ q.paused_at_ledger = s.paused_at_ledger /\ q.created_ledger = s.created_ledger
  BY <1>2, <1>3 DEF StreamEntry, Accounts
<1>7. Fits(q, r, e, ledger)
  BY <1>3, <1>6 DEF Fits, Unpaused
<1> QED
  BY <1>1, <1>5, <1>6, <1>7, StreamStepTimed

LEMMA CloseLedgerTimed ==
  ASSUME HInv, HNext, CloseLedger
  PROVE  Timed'
<1>1. ledger' = ledger + 1 /\ streams' = streams /\ Ids' = Ids /\ ledger \in Nat
  BY DEF CloseLedger, Ids, HInv, IInv, TypeOK
<1>2. /\ ran' = [j \in Ids |-> IF Running(j) THEN ran[j] + 1 ELSE ran[j]]
      /\ early' = [j \in Ids |-> IF PausedEarly(j) THEN early[j] + 1 ELSE early[j]]
  <2>1. ledger' # ledger
    BY <1>1
  <2> QED
    BY <1>1, <2>1 DEF HNext, CountOn, Ids
<1>3. ASSUME NEW j \in Ids
      PROVE  /\ ran'[j] \in Nat /\ early'[j] \in Nat
             /\ Fits(streams[j], ran'[j], early'[j], ledger + 1)
  <2>1. PICK s, r, e, n, m :
          /\ s = streams[j] /\ r = ran[j] /\ n = IF Running(j) THEN r + 1 ELSE r
          /\ e = early[j] /\ m = IF PausedEarly(j) THEN e + 1 ELSE e
    OBVIOUS
  <2>2. r \in Nat /\ e \in Nat /\ Fits(s, r, e, ledger)
    BY <2>1 DEF HInv, Timed
  <2>3. n \in Nat /\ m \in Nat /\ Fits(s, n, m, ledger + 1)
    BY <2>1, <2>2, LedgerFits DEF HInv, IInv
  <2>4. ran'[j] = n /\ early'[j] = m
    BY <1>2, <2>1
  <2> QED
    BY <2>1, <2>3, <2>4
<1> QED
  BY <1>1, <1>2, <1>3 DEF Timed

\* A new stream has not run and claimed nothing.
LEMMA OpenStreamTimed ==
  ASSUME HInv, HNext, NEW owner \in Users, NEW recipient \in Accounts, NEW token \in Tokens,
         NEW total_amount \in Amounts, NEW duration \in Durations, NEW delay \in Nat,
         NEW grace \in Nat, NEW shared \in Seq(StreamSplit),
         OpenStream(owner, recipient, token, total_amount, duration, delay, grace, shared)
  PROVE  Timed'
<1>1. PICK id, q :
        /\ id = counter + 1
        /\ q = [owner |-> owner, recipient |-> recipient, token |-> token,
            total_amount |-> total_amount, claimed_amount |-> 0,
            start_ledger |-> ledger + delay, end_ledger |-> ledger + delay + duration,
            last_claimed_ledger |-> ledger + delay, created_ledger |-> ledger,
            grace_period_ledgers |-> grace, status |-> "Active",
            paused_at_ledger |-> 0, paused_ledgers |-> 0]
  OBVIOUS
<1>2. /\ total_amount > 0 /\ duration >= MinDuration
      /\ counter' = id /\ streams' = Append(streams, q) /\ ledger' = ledger
  BY <1>1 DEF OpenStream
<1>3. ledger \in Nat /\ counter \in Nat /\ total_amount \in Nat /\ duration \in Nat
  <2>1. ledger \in Nat /\ counter \in Nat
    BY DEF HInv, IInv, TypeOK
  <2>2. total_amount \in Int /\ duration \in Nat
    OBVIOUS
  <2> QED
    BY <1>2, <2>1, <2>2
<1>4. streams'[id] = q /\ \A j \in Ids : streams'[j] = streams[j]
  <2>1. PICK S, old : S = StreamEntry /\ old = streams
    OBVIOUS
  <2>2. old \in Seq(S) /\ Len(old) = counter
    BY <2>1 DEF HInv, IInv, TypeOK
  <2>3. /\ Append(old, q)[counter + 1] = q
        /\ \A j \in 1..counter : Append(old, q)[j] = old[j]
    BY <1>3, <2>2
  <2> QED
    BY <1>1, <1>2, <2>1, <2>3 DEF Ids
<1>5. Ids' = Ids \cup {id} /\ id \notin Ids /\ Ids' = 1..counter'
  <2>1. 1..counter + 1 = 1..counter \cup {counter + 1} /\ counter + 1 \notin 1..counter
    BY <1>3
  <2> QED
    BY <1>1, <1>2, <2>1 DEF Ids
<1>6. /\ ran' = [j \in Ids' |-> IF j \notin Ids THEN 0 ELSE ran[j]]
      /\ early' = [j \in Ids' |-> IF j \notin Ids THEN 0 ELSE early[j]]
  BY <1>2, <1>5 DEF HNext, CountOn
<1>7. Fits(q, 0, 0, ledger)
  <2>1. /\ q.created_ledger = ledger /\ q.paused_at_ledger = 0 /\ q.status = "Active"
        /\ q.claimed_amount = 0 /\ q.total_amount = total_amount
        /\ q.start_ledger = ledger + delay /\ q.end_ledger = ledger + delay + duration
        /\ q.paused_ledgers = 0
    BY <1>1
  <2>2. Unpaused(q, ledger) = 0 - 0 - (q.start_ledger - Smaller(ledger, q.start_ledger))
    BY <1>3, <2>1 DEF Unpaused, Smaller
  <2>3. 0 * (q.end_ledger - q.start_ledger) = 0 /\ total_amount * 0 = 0
    BY <1>3, <2>1
  <2> QED
    BY <1>3, <2>1, <2>2, <2>3 DEF Fits
<1>8. ASSUME NEW j \in Ids'
      PROVE  /\ ran'[j] \in Nat /\ early'[j] \in Nat
            /\ Fits(streams'[j], ran'[j], early'[j], ledger)
  <2>1. CASE j = id
    BY <1>4, <1>5, <1>6, <1>7, <2>1
  <2>2. CASE j # id
    <3>1. j \in Ids /\ ran'[j] = ran[j] /\ early'[j] = early[j] /\ streams'[j] = streams[j]
      BY <1>4, <1>5, <1>6, <2>2
    <3> QED
      BY <3>1 DEF HInv, Timed
  <2> QED
    BY <2>1, <2>2
<1> QED
  BY <1>2, <1>6, <1>8 DEF Timed

LEMMA CreateTimed ==
  ASSUME HInv, HNext, Create
  PROVE  Timed'
<1>1. ASSUME NEW owner \in Users, NEW recipient \in Users, NEW token \in Tokens,
             NEW total_amount \in Amounts, NEW duration \in Durations, NEW grace \in Graces,
             NEW label \in Labels, NEW delay \in Delays,
             CreateStream(owner, recipient, token, total_amount, duration, grace, label, delay)
      PROVE  Timed'
  <2>1. PICK shared : shared = <<>>
    OBVIOUS
  <2>2. shared \in Seq(StreamSplit) /\ recipient \in Accounts /\ delay \in Nat /\ grace \in Nat
    BY <2>1 DEF Accounts
  <2>3. OpenStream(owner, recipient, token, total_amount, duration, delay, grace, shared)
    BY <1>1, <2>1 DEF CreateStream
  <2> QED
    BY <2>2, <2>3, OpenStreamTimed
<1>2. ASSUME NEW owner \in Users, NEW shared \in SplitLists, NEW token \in Tokens,
             NEW total_amount \in Amounts, NEW duration \in Durations,
             CreateSplitStream(owner, shared, token, total_amount, duration)
      PROVE  Timed'
  <2>1. PICK m \in 0..MaxSplits : shared \in [1..m -> [recipient : Users, share : Shares]]
    BY DEF SplitLists
  <2>2. [recipient : Users, share : Shares] \subseteq StreamSplit
    BY DEF StreamSplit
  <2>3. shared \in [1..m -> StreamSplit] /\ m \in Nat
    BY <2>1, <2>2
  <2>4. shared \in Seq(StreamSplit) /\ Contract \in Accounts /\ 0 \in Nat
    BY <2>3 DEF Accounts
  <2>5. OpenStream(owner, Contract, token, total_amount, duration, 0, 0, shared)
    BY <1>2 DEF CreateSplitStream
  <2> QED
    BY <2>4, <2>5, OpenStreamTimed
<1> QED
  BY <1>1, <1>2 DEF Create

LEMMA HistoryInit == HInit => HInv
<1> SUFFICES ASSUME HInit PROVE HInv
  OBVIOUS
<1>1. IInv
  BY InitInv DEF HInit
<1>2. Ids = {} /\ ran = <<>> /\ early = <<>>
  BY DEF HInit, Init, Ids
<1>3. Timed
  BY <1>2 DEF Timed
<1> QED
  BY <1>1, <1>3 DEF HInv

LEMMA HistoryStep == HInv /\ [HNext]_hvars => HInv'
<1> SUFFICES ASSUME HInv, [HNext]_hvars PROVE HInv'
  OBVIOUS
<1>1. CASE UNCHANGED hvars
  <2>1. IInv'
    BY <1>1, StepInv DEF HInv, hvars
  <2>2. Timed'
    BY <1>1 DEF HInv, Timed, Ids, hvars, vars
  <2> QED
    BY <2>1, <2>2 DEF HInv
<1>2. CASE HNext
  <2>1. Next
    BY <1>2 DEF HNext
  <2>2. IInv'
    BY <2>1, StepInv DEF HInv
  <2>5. ASSUME NEW id \in Ids, Tick(id) PROVE Timed'
    BY <1>2, <2>5, TickTimed
  <2>6. ASSUME NEW id \in Ids, Pause(id) PROVE Timed'
    BY <1>2, <2>6, PauseTimed
  <2>7. ASSUME NEW id \in Ids, Resume(id) PROVE Timed'
    BY <1>2, <2>7, ResumeTimed
  <2>8. ASSUME NEW id \in Ids, Cancel(id) PROVE Timed'
    BY <1>2, <2>8, CancelTimed
  <2>9. ASSUME NEW id \in Ids, NEW caller \in Users, Claim(id, caller) PROVE Timed'
    BY <1>2, <2>9, ClaimTimed
  <2>10. ASSUME NEW id \in Ids, NEW new_recipient \in Users, ChangeRecipient(id, new_recipient)
         PROVE  Timed'
    BY <1>2, <2>10, ChangeRecipientTimed
  <2>11. Timed'
    BY <1>2, <2>1, <2>5, <2>6, <2>7, <2>8, <2>9, <2>10, CloseLedgerTimed, CreateTimed DEF Next
  <2> QED
    BY <2>2, <2>11 DEF HInv
<1> QED
  BY <1>1, <1>2

LEMMA HistoryInvariance == HSpec => []HInv
BY HistoryInit, HistoryStep, PTL DEF HSpec

\* Nobody is paid for time a stream did not run, unless it is cancelled while paused.
THEOREM ClaimsEarned == HSpec => []ClaimedIsEarned
<1>1. HInv => ClaimedIsEarned
  BY TimedClaims DEF HInv, IInv
<1> QED
  BY <1>1, HistoryInvariance, PTL

\* And the contract counts the running time of a stream to the ledger, when it was
\* not paused before its start.
THEOREM VestingCounted == HSpec => []VestingExact
<1>1. HInv => VestingExact
  BY TimedVesting DEF HInv, IInv
<1> QED
  BY <1>1, HistoryInvariance, PTL

=============================================================================
