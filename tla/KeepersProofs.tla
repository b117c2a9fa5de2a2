--------------------------- MODULE KeepersProofs ----------------------------
(***************************************************************************)
(* Theorems about KeeperCoordinator and Keepers, for every set of keepers  *)
(* and every bound: the coordinator's types, the types of the composed     *)
(* system, that claims exclude, and that the contract the keepers share    *)
(* behaves as the contract alone, so that what DCAPolicyProofs proves of   *)
(* it holds whatever the keepers do.                                       *)
(*                                                                         *)
(* ClaimExcludes is about what keepers do and is not inductive.  Claimed   *)
(* says why it holds: a keeper that acts within its claim is the one the   *)
(* coordinator has, and until no earlier a ledger than the keeper was      *)
(* promised.  What could break that is another keeper's claim, which needs *)
(* the old one to have run out, and a release, which takes the holder.     *)
(***************************************************************************)
EXTENDS Keepers, TLAPS

USE TtlsAssumption, LimitsAssumption, KeepersAssumption, SchedulesAssumption,
    PolicyBoundsAssumption

-----------------------------------------------------------------------------
(* The coordinator *)

\* What Register and Unregister write has its type.
LEMMA RegistrationType ==
  ASSUME CoordinatorTypeOK, NEW k \in Keepers, Register(k) \/ Unregister(k)
  PROVE  CoordinatorTypeOK'
BY DEF CoordinatorTypeOK, Register, Unregister, ClaimRecord

\* A claim is stored as it was granted; the claims of other schedules stay.
LEMMA ClaimEffect ==
  ASSUME CoordinatorTypeOK, NEW k \in Keepers, NEW s \in Schedules, NEW ttl \in Int,
         Claim(s, k, ttl)
  PROVE  /\ CoordinatorTypeOK'
         /\ ledger' = ledger
         /\ s \in DOMAIN claims' /\ claims'[s] = [keeper |-> k, expires_at |-> ledger + ttl]
         /\ \A t \in DOMAIN claims : t # s => t \in DOMAIN claims' /\ claims'[t] = claims[t]
<1>1. ledger + ttl \in Nat
  BY DEF CoordinatorTypeOK, Claim, MayClaim
<1>2. DOMAIN claims' = DOMAIN claims \cup {s}
  BY DEF Claim
<1>3. claims' \in [DOMAIN claims' -> ClaimRecord]
  <2>1. [keeper |-> k, expires_at |-> ledger + ttl] \in ClaimRecord
    BY <1>1 DEF ClaimRecord
  <2> QED
    BY <1>2, <2>1 DEF Claim, CoordinatorTypeOK
<1> QED
  BY <1>2, <1>3 DEF CoordinatorTypeOK, Claim

\* A release takes the claim away, which was the keeper's, and no other.
LEMMA ReleaseEffect ==
  ASSUME CoordinatorTypeOK, NEW k \in Keepers, NEW s \in Schedules, Release(s, k)
  PROVE  /\ CoordinatorTypeOK'
         /\ ledger' = ledger
         /\ s \in DOMAIN claims /\ claims[s].keeper = k
         /\ \A t \in DOMAIN claims : t # s => t \in DOMAIN claims' /\ claims'[t] = claims[t]
BY DEF CoordinatorTypeOK, Release

\* A new ledger leaves the claims as they are.
LEMMA LedgerType ==
  ASSUME CoordinatorTypeOK, CloseLedger
  PROVE  CoordinatorTypeOK'
BY DEF CoordinatorTypeOK, CloseLedger

\* The coordinator's variables always have their types.
THEOREM CoordinatorTypes == Spec => []CoordinatorTypeOK
<1>1. Init => CoordinatorTypeOK
  BY DEF Init, CoordinatorTypeOK
<1>2. CoordinatorTypeOK /\ [Next]_coordinatorVars => CoordinatorTypeOK'
  <2> SUFFICES ASSUME CoordinatorTypeOK, [Next]_coordinatorVars
               PROVE  CoordinatorTypeOK'
    OBVIOUS
  <2>1. CASE CloseLedger
    BY <2>1, LedgerType
  <2>2. ASSUME NEW k \in Keepers, Register(k) \/ Unregister(k)
        PROVE  CoordinatorTypeOK'
    BY <2>2, RegistrationType
  <2>3. ASSUME NEW k \in Keepers, NEW s \in Schedules, Release(s, k)
        PROVE  CoordinatorTypeOK'
    BY <2>3, ReleaseEffect
  <2>4. ASSUME NEW k \in Keepers, NEW s \in Schedules, NEW ttl \in Ttls, Claim(s, k, ttl)
        PROVE  CoordinatorTypeOK'
    BY <2>4, ClaimEffect
  <2>5. CASE UNCHANGED coordinatorVars
    BY <2>5 DEF coordinatorVars, CoordinatorTypeOK
  <2> QED
    BY <2>1, <2>2, <2>3, <2>4, <2>5 DEF Next
<1> QED
  BY <1>1, <1>2, PTL DEF Spec

-----------------------------------------------------------------------------
(* The keepers *)

Acts(state) == state.at \in {"act", "release"}

\* A poll is at a policy there is, and was promised nothing it did not ask for.
PollFits(state) ==
  /\ state \in PollState
  /\ state.at # "off" => counter > 0
  /\ state.at \notin {"off", "timer"} => state.id \in 1..counter
  /\ ~Acts(state) => state.until = 0

\* What a keeper was promised is what the coordinator has.
Promised(k, state) ==
  Acts(state) /\ state.until > ledger =>
    /\ Resource(state.id) \in DOMAIN claims
    /\ claims[Resource(state.id)].keeper = k
    /\ claims[Resource(state.id)].expires_at >= state.until

Claimed == \A k \in Keepers : Promised(k, poll[k])

IInv ==
  /\ SystemTypeOK
  /\ counter \in 0..MaxPolicies
  /\ \A k \in Keepers : PollFits(poll[k])
  /\ Claimed

\* The invariant says what was to be shown.
LEMMA InvClaimExcludes == IInv => ClaimExcludes
<1> SUFFICES ASSUME IInv, NEW k \in Keepers, NEW j \in Keepers, NEW id \in D!Ids,
                    Acting(k, id), Acting(j, id)
             PROVE  k = j
  BY DEF ClaimExcludes
<1>1. claims[Resource(id)].keeper = k /\ claims[Resource(id)].keeper = j
  BY DEF IInv, Claimed, Promised, Acts, Acting
<1> QED
  BY <1>1

\* No claim another keeper has, and that has not run out, is touched.
OthersKept(k) ==
  \A t \in DOMAIN claims :
    claims[t].keeper # k /\ claims[t].expires_at > ledger
      => t \in DOMAIN claims' /\ claims'[t] = claims[t]

\* One keeper moves on: what it was promised has to be shown, what the others were
\* follows.
LEMMA KeeperMoves ==
  ASSUME IInv, NEW k \in Keepers, NEW state,
         poll' = [poll EXCEPT ![k] = state], PollFits(state)', Promised(k, state)',
         ledger' = ledger, OthersKept(k), counter' = counter
  PROVE  poll' \in [Keepers -> PollState] /\ Claimed' /\ \A j \in Keepers : PollFits(poll[j])'
<1>1. poll \in [Keepers -> PollState] /\ state \in PollState
  BY DEF IInv, SystemTypeOK, PollFits
<1>2. poll' \in [Keepers -> PollState]
  BY <1>1
<1>3. poll'[k] = state /\ \A j \in Keepers : j # k => poll'[j] = poll[j]
  BY <1>1
<1>4. ASSUME NEW j \in Keepers
      PROVE  PollFits(poll[j])'
  <2>1. CASE j = k
    BY <1>3, <2>1 DEF PollFits, Acts
  <2>2. CASE j # k
    BY <1>3, <2>2 DEF PollFits, Acts, IInv
  <2> QED
    BY <2>1, <2>2
<1>5. ASSUME NEW j \in Keepers
      PROVE  Promised(j, poll[j])'
  <2>1. CASE j = k
    BY <1>3, <2>1 DEF Promised, Acts
  <2>2. CASE j # k
    <3> SUFFICES ASSUME Acts(poll[j]), poll[j].until > ledger
                 PROVE  /\ Resource(poll[j].id) \in DOMAIN claims'
                        /\ claims'[Resource(poll[j].id)].keeper = j
                        /\ claims'[Resource(poll[j].id)].expires_at >= poll[j].until
      BY <1>3, <2>2 DEF Promised, Acts, Resource
    <3> DEFINE t == Resource(poll[j].id)
    <3>1. t \in DOMAIN claims /\ claims[t].keeper = j /\ claims[t].expires_at >= poll[j].until
      BY DEF IInv, Claimed, Promised
    <3>2. claims[t].expires_at \in Nat /\ poll[j].until \in Nat /\ ledger \in Nat
      BY <3>1, <1>1 DEF IInv, SystemTypeOK, CoordinatorTypeOK, ClaimRecord, PollState
    <3>3. t \in DOMAIN claims' /\ claims'[t] = claims[t]
      BY <2>2, <3>1, <3>2 DEF OthersKept
    <3> QED
      BY <3>1, <3>3
  <2> QED
    BY <2>1, <2>2
<1> QED
  BY <1>2, <1>4, <1>5 DEF Claimed

\* A step in which no keeper moves and claims stay keeps the invariant, if the other
\* variables have their types.
LEMMA NoKeeperMoves ==
  ASSUME IInv, UNCHANGED <<poll, claims>>, ledger' \in Nat, ledger' >= ledger,
         counter' \in Nat, counter' >= counter
  PROVE  Claimed' /\ \A j \in Keepers : PollFits(poll[j])'
<1>1. ASSUME NEW j \in Keepers
      PROVE  PollFits(poll[j])'
  <2>1. 1..counter \subseteq 1..counter'
    BY DEF IInv
  <2> QED
    BY <2>1 DEF PollFits, Acts, IInv
<1>2. ASSUME NEW j \in Keepers
      PROVE  Promised(j, poll[j])'
  <2>1. poll[j].until \in Nat /\ ledger \in Nat
    BY DEF IInv, SystemTypeOK, CoordinatorTypeOK, PollState
  <2>2. poll[j].until > ledger' => poll[j].until > ledger
    BY <2>1
  <2> QED
    BY <2>2 DEF IInv, Claimed, Promised, Acts, Resource
<1> QED
  BY <1>1, <1>2 DEF Claimed

-----------------------------------------------------------------------------
(* What the steps of a poll are made of *)

\* A keeper moves to where it needs no claim,
Rests(k) ==
  \E state : poll' = [poll EXCEPT ![k] = state] /\ PollFits(state) /\ ~Acts(state)

\* or goes on acting on what it was promised already, or without a promise.
GoesOn(k) ==
  \E state :
    /\ poll' = [poll EXCEPT ![k] = state] /\ PollFits(state) /\ Acts(state)
    /\ \/ state.until = 0
       \/ Acts(poll[k]) /\ state.id = poll[k].id /\ state.until = poll[k].until

\* The first needs nothing of the coordinator but that it leaves alone what is the
\* others',
LEMMA RestsKeeps ==
  ASSUME IInv, NEW k \in Keepers, Rests(k), OthersKept(k), ledger' = ledger, counter' = counter
  PROVE  poll' \in [Keepers -> PollState] /\ Claimed' /\ \A j \in Keepers : PollFits(poll[j])'
<1>1. PICK state : poll' = [poll EXCEPT ![k] = state] /\ PollFits(state) /\ ~Acts(state)
  BY DEF Rests
<1>2. PollFits(state)' /\ Promised(k, state)'
  BY <1>1 DEF PollFits, Acts, Promised
<1> QED
  BY <1>1, <1>2, KeeperMoves

\* the second that it leaves alone everything.
LEMMA GoesOnKeeps ==
  ASSUME IInv, NEW k \in Keepers, GoesOn(k), UNCHANGED coordinatorVars, counter' = counter
  PROVE  poll' \in [Keepers -> PollState] /\ Claimed' /\ \A j \in Keepers : PollFits(poll[j])'
<1>1. PICK state :
        /\ poll' = [poll EXCEPT ![k] = state] /\ PollFits(state) /\ Acts(state)
        /\ \/ state.until = 0
           \/ Acts(poll[k]) /\ state.id = poll[k].id /\ state.until = poll[k].until
  BY DEF GoesOn
<1>2. UNCHANGED <<ledger, claims>> /\ OthersKept(k)
  BY DEF coordinatorVars, OthersKept
<1>3. PollFits(state)'
  BY <1>1 DEF PollFits, Acts
<1>4. Promised(k, state)'
  <2>1. CASE state.until = 0
    BY <1>2, <2>1 DEF Promised, IInv, SystemTypeOK, CoordinatorTypeOK
  <2>2. CASE Acts(poll[k]) /\ state.id = poll[k].id /\ state.until = poll[k].until
    BY <1>2, <2>2 DEF IInv, Claimed, Promised, Acts, Resource
  <2> QED
    BY <1>1, <2>1, <2>2
<1> QED
  BY <1>1, <1>2, <1>3, <1>4, KeeperMoves

\* A field that is set to a value of its type leaves the type.
LEMMA StateExcept ==
  ASSUME NEW state \in PollState
  PROVE  /\ \A n \in 0..RetryMax : [state EXCEPT !.attempt = n] \in PollState
         /\ \A b \in BOOLEAN : [state EXCEPT !.fresh = b] \in PollState
         /\ \A b \in BOOLEAN : [state EXCEPT !.failed = b] \in PollState
         /\ \A place \in Places : [state EXCEPT !.at = place] \in PollState
         /\ \A n \in 0..MaxLedger : [state EXCEPT !.seen = n] \in PollState
         /\ \A n \in 0..MaxPolicies : [state EXCEPT !.id = n] \in PollState
         /\ \A n \in Nat : [state EXCEPT !.until = n] \in PollState
<1>1. ASSUME NEW n \in 0..RetryMax PROVE [state EXCEPT !.attempt = n] \in PollState
  BY DEF PollState
<1>2. ASSUME NEW b \in BOOLEAN PROVE [state EXCEPT !.fresh = b] \in PollState
  BY DEF PollState
<1>3. ASSUME NEW b \in BOOLEAN PROVE [state EXCEPT !.failed = b] \in PollState
  BY DEF PollState
<1>4. ASSUME NEW place \in Places PROVE [state EXCEPT !.at = place] \in PollState
  BY DEF PollState
<1>5. ASSUME NEW n \in 0..MaxLedger PROVE [state EXCEPT !.seen = n] \in PollState
  BY DEF PollState
<1>6. ASSUME NEW n \in 0..MaxPolicies PROVE [state EXCEPT !.id = n] \in PollState
  BY DEF PollState
<1>7. ASSUME NEW n \in Nat PROVE [state EXCEPT !.until = n] \in PollState
  BY DEF PollState
<1> QED
  BY <1>1, <1>2, <1>3, <1>4, <1>5, <1>6, <1>7

\* The places a poll has nothing to remember in.
LEMMA AtFits ==
  /\ \A place \in Places : At(place) \in PollState
  /\ PollFits(At("off")) /\ ~Acts(At("off"))
  /\ counter > 0 => PollFits(At("timer")) /\ ~Acts(At("timer"))
<1>1. ASSUME NEW place \in Places PROVE At(place) \in PollState
  <2>1. 0 \in 0..MaxLedger /\ 0 \in 0..MaxPolicies /\ 0 \in 0..RetryMax
    OBVIOUS
  <2> QED
    BY <2>1 DEF PollState, At
<1> QED
  BY <1>1 DEF PollFits, PollState, Acts, At, Places

\* A poll that ends leaves a keeper at its timer,
LEMMA EndPollRests ==
  ASSUME IInv, NEW k \in Keepers, EndPoll(k), poll[k].at # "off"
  PROVE  Rests(k)
BY AtFits DEF EndPoll, MoveTo, Rests, IInv, PollFits

\* and a loop that goes on, at the next policy or, after the last, at its timer.
LEMMA NextPolicyRests ==
  ASSUME IInv, NEW k \in Keepers, NextPolicy(k), poll[k].at \notin {"off", "timer"}
  PROVE  Rests(k)
<1>1. poll[k] \in PollState /\ counter \in 0..MaxPolicies
  BY DEF IInv, SystemTypeOK
<1>2. poll[k].id \in 1..counter /\ counter > 0
  BY DEF IInv, PollFits
<1>3. CASE poll[k].id < counter
  <2> DEFINE state == [At("read") EXCEPT !.seen = poll[k].seen, !.id = poll[k].id + 1]
  <2>1. state.id \in 1..counter /\ state.id \in 0..MaxPolicies
    BY <1>1, <1>2, <1>3 DEF At
  <2>2. state \in PollState
    <3> DEFINE read == [At("read") EXCEPT !.seen = poll[k].seen]
    <3>1. poll[k].seen \in 0..MaxLedger /\ poll[k].id + 1 \in 0..MaxPolicies
      BY <1>1, <1>2, <1>3 DEF PollState
    <3>2. At("read") \in PollState
      BY AtFits DEF Places
    <3>3. read \in PollState
      BY <3>1, <3>2, StateExcept
    <3>4. [read EXCEPT !.id = poll[k].id + 1] \in PollState
      <4> HIDE DEF read
      <4> QED BY <3>1, <3>3, StateExcept
    <3> QED
      BY <3>4
  <2>3. state.at = "read" /\ state.until = 0
    BY DEF At
  <2>4. poll' = [poll EXCEPT ![k] = state]
    BY <1>3 DEF NextPolicy, MoveTo
  <2> HIDE DEF state
  <2> QED
    BY <1>2, <2>1, <2>2, <2>3, <2>4 DEF Rests, PollFits, Acts
<1>4. CASE ~(poll[k].id < counter)
  BY <1>4, EndPollRests DEF NextPolicy
<1> QED
  BY <1>3, <1>4

\* After the action the claim is there to be given back, or there is none.
LEMMA AfterActionMoves ==
  ASSUME IInv, NEW k \in Keepers, NEW failed \in BOOLEAN, AfterAction(k, failed),
         poll[k].at = "act"
  PROVE  Rests(k) \/ GoesOn(k)
<1>1. poll[k] \in PollState /\ poll[k].id \in 1..counter /\ counter > 0
  BY DEF IInv, SystemTypeOK, PollFits
<1>2. CASE Claiming
  <2> DEFINE state == [poll[k] EXCEPT !.at = "release", !.attempt = 0, !.fresh = FALSE,
                                      !.failed = failed]
  <2>1. state \in PollState
    <3> DEFINE one   == [poll[k] EXCEPT !.at = "release"]
               two   == [one EXCEPT !.attempt = 0]
               three == [two EXCEPT !.fresh = FALSE]
    <3>1. one \in PollState
      BY <1>1, StateExcept DEF Places
    <3>2. two \in PollState
      <4> HIDE DEF one
      <4> QED BY <3>1, StateExcept
    <3>3. three \in PollState
      <4> HIDE DEF two
      <4> QED BY <3>2, StateExcept
    <3>4. [three EXCEPT !.failed = failed] \in PollState
      <4> HIDE DEF three
      <4> QED BY <3>3, StateExcept
    <3> QED
      BY <3>4
  <2>2. state.at = "release" /\ state.id = poll[k].id /\ state.until = poll[k].until
    BY <1>1 DEF PollState
  <2>3. poll' = [poll EXCEPT ![k] = state]
    BY <1>2 DEF AfterAction, MoveTo
  <2> HIDE DEF state
  <2> QED
    BY <1>1, <2>1, <2>2, <2>3 DEF GoesOn, PollFits, Acts
<1>3. CASE ~Claiming
  BY <1>3, EndPollRests, NextPolicyRests DEF AfterAction
<1> QED
  BY <1>2, <1>3

\* Another attempt is made under the same claim.
LEMMA RetryMoves ==
  ASSUME IInv, NEW k \in Keepers, NEW refreshed \in BOOLEAN, Retry(k, refreshed),
         poll[k].at = "act"
  PROVE  Rests(k) \/ GoesOn(k)
<1>1. poll[k] \in PollState /\ poll[k].id \in 1..counter /\ counter > 0
  BY DEF IInv, SystemTypeOK, PollFits
<1>2. CASE AttemptsLeft(k)
  <2> DEFINE state == [poll[k] EXCEPT !.attempt = @ + 1, !.fresh = refreshed]
  <2>1. poll[k].attempt + 1 \in 0..RetryMax
    BY <1>1, <1>2 DEF AttemptsLeft, PollState
  <2>2. state \in PollState
    <3> DEFINE next == [poll[k] EXCEPT !.attempt = poll[k].attempt + 1]
    <3>1. next \in PollState
      BY <1>1, <2>1, StateExcept
    <3>2. [next EXCEPT !.fresh = refreshed] \in PollState
      <4> HIDE DEF next
      <4> QED BY <3>1, StateExcept
    <3> QED
      BY <3>2
  <2>3. state.at = "act" /\ state.id = poll[k].id /\ state.until = poll[k].until
    BY <1>1 DEF PollState
  <2>4. poll' = [poll EXCEPT ![k] = state]
    BY <1>2 DEF Retry, MoveTo
  <2> HIDE DEF state
  <2> QED
    BY <1>1, <2>2, <2>3, <2>4 DEF GoesOn, PollFits, Acts
<1>3. CASE ~AttemptsLeft(k)
  BY <1>3, AfterActionMoves DEF Retry
<1> QED
  BY <1>2, <1>3

-----------------------------------------------------------------------------
(* The steps *)

\* At first no process runs and nothing is claimed.
LEMMA InitInv == SystemInit => IInv
<1> SUFFICES ASSUME SystemInit PROVE IInv
  OBVIOUS
<1>1. counter = 0 /\ \A k \in Keepers : poll[k] = At("off")
  BY DEF SystemInit, D!Init
<1>2. At("off") \in PollState /\ PollFits(At("off")) /\ ~Acts(At("off"))
  BY AtFits DEF Places
<1>3. CoordinatorTypeOK
  BY DEF SystemInit, Init, CoordinatorTypeOK
<1>4. poll \in [Keepers -> PollState]
  BY <1>2 DEF SystemInit
<1>5. SystemTypeOK
  BY <1>3, <1>4 DEF SystemInit, SystemTypeOK
<1>6. Claimed /\ \A k \in Keepers : PollFits(poll[k])
  BY <1>1, <1>2 DEF Claimed, Promised
<1> QED
  BY <1>1, <1>5, <1>6 DEF IInv

\* What a process does besides asking the coordinator.
LEMMA ProcessInv ==
  ASSUME IInv, NEW k \in Keepers, Rests(k) \/ GoesOn(k),
         UNCHANGED <<coordinatorVars, counter, mode>>,
         up' \in [Keepers -> {"down", "up", "closing"}],
         pending' \in [Keepers -> D!Ids \cup {NoTx}], faults' \in 0..MaxFaults
  PROVE  IInv'
<1>1. CoordinatorTypeOK' /\ ledger' = ledger /\ OthersKept(k)
  BY DEF coordinatorVars, CoordinatorTypeOK, OthersKept, IInv, SystemTypeOK
<1>2. poll' \in [Keepers -> PollState] /\ Claimed' /\ \A j \in Keepers : PollFits(poll[j])'
  BY <1>1, RestsKeeps, GoesOnKeeps
<1> QED
  BY <1>1, <1>2 DEF IInv, SystemTypeOK, D!Ids

\* What it does when it asks the coordinator and then goes where it needs no claim.
LEMMA AskInv ==
  ASSUME IInv, NEW k \in Keepers, Rests(k), CoordinatorTypeOK', ledger' = ledger, OthersKept(k),
         UNCHANGED <<counter, mode, pending>>,
         up' \in [Keepers -> {"down", "up", "closing"}], faults' \in 0..MaxFaults
  PROVE  IInv'
<1>1. poll' \in [Keepers -> PollState] /\ Claimed' /\ \A j \in Keepers : PollFits(poll[j])'
  BY RestsKeeps
<1> QED
  BY <1>1 DEF IInv, SystemTypeOK, D!Ids

\* A fault is counted up to the bound.
LEMMA FaultType == ASSUME IInv, Fault PROVE faults' \in 0..MaxFaults
BY DEF Fault, IInv, SystemTypeOK

\* Registering and unregistering leave the claims alone.
LEMMA RegistrationKeeps ==
  ASSUME IInv, NEW k \in Keepers, Register(k) \/ Unregister(k) \/ UNCHANGED coordinatorVars
  PROVE  CoordinatorTypeOK' /\ ledger' = ledger /\ OthersKept(k)
<1>1. CoordinatorTypeOK
  BY DEF IInv, SystemTypeOK
<1>2. UNCHANGED <<ledger, claims>>
  BY DEF Register, Unregister, coordinatorVars
<1>3. CoordinatorTypeOK'
  BY <1>1, RegistrationType DEF coordinatorVars, CoordinatorTypeOK
<1> QED
  BY <1>2, <1>3 DEF OthersKept

\* What the owner and the network do to the number of policies and the ledger.
LEMMA OutsideGrows ==
  ASSUME IInv, OwnerCreates \/ OwnerTopsUp \/ OwnerCancels \/ LedgerCloses
  PROVE  /\ UNCHANGED <<registered, claims, keeperVars>>
         /\ counter' \in 0..MaxPolicies /\ counter' >= counter
         /\ ledger' \in 0..MaxLedger /\ ledger' >= ledger
<1>1. counter \in 0..MaxPolicies /\ ledger \in 0..MaxLedger
  BY DEF IInv, SystemTypeOK, CoordinatorTypeOK
<1>2. CASE OwnerCreates
  <2>1. PICK budget \in Budgets :
          D!CreateDCA("owner", "token", "none", "none", "owner", budget, PerSwap, 0, Interval)
    BY <1>2 DEF OwnerCreates
  <2>2. counter' = counter + 1 /\ ledger' = ledger
    BY <2>1 DEF D!CreateDCA
  <2> QED
    BY <1>1, <1>2, <2>2 DEF OwnerCreates
<1>3. CASE OwnerTopsUp
  <2>1. PICK id \in D!Ids, amount \in TopUps : D!TopUp(id, amount)
    BY <1>3 DEF OwnerTopsUp
  <2>2. counter' = counter /\ ledger' = ledger
    BY <2>1 DEF D!TopUp
  <2> QED
    BY <1>1, <1>3, <2>2 DEF OwnerTopsUp
<1>4. CASE OwnerCancels
  <2>1. PICK id \in D!Ids : D!Cancel(id)
    BY <1>4 DEF OwnerCancels
  <2>2. counter' = counter /\ ledger' = ledger
    BY <2>1 DEF D!Cancel
  <2> QED
    BY <1>1, <1>4, <2>2 DEF OwnerCancels
<1>5. CASE LedgerCloses
  BY <1>1, <1>5 DEF LedgerCloses, CloseLedger, contract
<1> QED
  BY <1>2, <1>3, <1>4, <1>5

\* The owner and the network do nothing to keepers or claims; time passes.
LEMMA OutsideInv ==
  ASSUME IInv, OwnerCreates \/ OwnerTopsUp \/ OwnerCancels \/ LedgerCloses
  PROVE  IInv'
<1>1. /\ UNCHANGED <<registered, claims, keeperVars>>
      /\ counter' \in 0..MaxPolicies /\ counter' >= counter
      /\ ledger' \in 0..MaxLedger /\ ledger' >= ledger
  BY OutsideGrows
<1>2. CoordinatorTypeOK'
  BY <1>1 DEF CoordinatorTypeOK, ClaimRecord, IInv, SystemTypeOK
<1>3. Claimed' /\ \A j \in Keepers : PollFits(poll[j])'
  BY <1>1, NoKeeperMoves DEF keeperVars
<1>4. SystemTypeOK'
  <2>1. D!Ids \subseteq D!Ids'
    BY <1>1 DEF D!Ids, IInv
  <2>2. SystemTypeOK
    BY DEF IInv
  <2> QED
    BY <1>1, <1>2, <2>1, <2>2 DEF SystemTypeOK, keeperVars
<1> QED
  BY <1>1, <1>3, <1>4 DEF IInv

\* A transaction is included or expires: the keeper knows its account no better, and
\* is promised what it was.
LEMMA NetworkInv ==
  ASSUME IInv, NEW k \in Keepers, Include(k) \/ Expire(k)
  PROVE  IInv'
<1>1. pending[k] \in D!Ids \cup {NoTx} /\ pending \in [Keepers -> D!Ids \cup {NoTx}]
  BY DEF IInv, SystemTypeOK
<1>2. pending' \in [Keepers -> D!Ids \cup {NoTx}]
  BY <1>1 DEF Include, Expire
<1>3. UNCHANGED <<coordinatorVars, counter, mode, up, faults>>
  <2>1. CASE Include(k)
    BY <2>1 DEF Include, D!ExecuteTransfer, coordinatorVars, contract
  <2>2. CASE Expire(k)
    BY <2>2 DEF Expire, contract
  <2> QED
    BY <2>1, <2>2
<1>4. poll[k] \in PollState /\ PollFits(poll[k]) /\ SystemTypeOK /\ poll \in [Keepers -> PollState]
  BY DEF IInv, SystemTypeOK
<1>5. Rests(k) \/ GoesOn(k)
  <2>1. PICK state : /\ poll' = [poll EXCEPT ![k] = state] /\ state \in PollState
                     /\ state.at = poll[k].at /\ state.id = poll[k].id
                     /\ state.until = poll[k].until
    <3>1. CASE Include(k)
      <4> DEFINE state == [poll[k] EXCEPT !.fresh = FALSE]
      <4>1. state \in PollState /\ state.at = poll[k].at /\ state.id = poll[k].id
            /\ state.until = poll[k].until
        BY <1>4, StateExcept DEF PollState
      <4>2. poll' = [poll EXCEPT ![k] = state]
        BY <3>1 DEF Include
      <4> HIDE DEF state
      <4> QED
        BY <4>1, <4>2
    <3>2. CASE Expire(k)
      <4>1. poll' = [poll EXCEPT ![k] = poll[k]]
        BY <1>4, <3>2 DEF Expire
      <4> QED
        BY <1>4, <4>1
    <3> QED
      BY <3>1, <3>2
  <2>2. PollFits(state) /\ (Acts(state) <=> Acts(poll[k]))
    BY <1>4, <2>1 DEF PollFits, Acts
  <2> QED
    BY <2>1, <2>2 DEF Rests, GoesOn
<1> QED
  BY <1>2, <1>3, <1>4, <1>5, ProcessInv DEF SystemTypeOK

\* Starting, registering, closing down, crashing: no keeper acts afterwards that did
\* not act before.
LEMMA LifeInv ==
  ASSUME IInv, NEW k \in Keepers, Start(k) \/ Crash(k) \/ Shutdown(k) \/ Exit(k)
  PROVE  IInv'
<1>1. UNCHANGED <<counter, mode, pending>>
  BY DEF Start, Crash, Shutdown, Exit, contract
<1>2. up' \in [Keepers -> {"down", "up", "closing"}]
  BY DEF Start, Crash, Shutdown, Exit, IInv, SystemTypeOK
<1>3. faults' \in 0..MaxFaults
  BY FaultType DEF Start, Crash, Shutdown, Exit, IInv, SystemTypeOK
<1>4. CoordinatorTypeOK' /\ ledger' = ledger /\ OthersKept(k)
  BY RegistrationKeeps DEF Start, Crash, Shutdown, Exit
<1>5. CASE Start(k) \/ Crash(k) \/ Exit(k)
  <2>1. Rests(k)
    BY <1>5, AtFits DEF Start, Crash, Exit, Rests
  <2> QED
    BY <1>1, <1>2, <1>3, <1>4, <2>1, AskInv
<1>6. CASE Shutdown(k)
  <2>1. UNCHANGED <<coordinatorVars>>
    BY <1>6 DEF Shutdown
  <2>2. poll' = [poll EXCEPT ![k] = IF poll[k].at = "timer" THEN At("off") ELSE poll[k]]
    BY <1>6 DEF Shutdown
  <2>3. PollFits(poll[k])
    BY DEF IInv
  <2>4. Rests(k) \/ GoesOn(k)
    BY <2>2, <2>3, AtFits DEF Rests, GoesOn
  <2>5. pending' \in [Keepers -> D!Ids \cup {NoTx}]
    BY <1>1 DEF IInv, SystemTypeOK
  <2> QED
    BY <1>1, <1>2, <1>3, <2>1, <2>4, <2>5, ProcessInv
<1> QED
  BY <1>5, <1>6

\* The reads of a poll, and a refusal, take no claim and give none back.
LEMMA ReadInv ==
  ASSUME IInv, NEW k \in Keepers, BeginPoll(k) \/ LookAt(k) \/ ReadThrows(k) \/ Refused(k)
  PROVE  IInv'
<1>1. UNCHANGED <<coordinatorVars, counter, mode, up, pending>>
  BY DEF BeginPoll, LookAt, ReadThrows, Refused, contract
<1>2. faults' \in 0..MaxFaults
  BY FaultType DEF BeginPoll, LookAt, ReadThrows, Refused, IInv, SystemTypeOK
<1>3. poll[k] \in PollState /\ ledger \in 0..MaxLedger /\ counter \in 0..MaxPolicies
  BY DEF IInv, SystemTypeOK, CoordinatorTypeOK
<1>4. ASSUME BeginPoll(k) PROVE Rests(k) \/ GoesOn(k)
  <2> DEFINE read  == [At("read") EXCEPT !.seen = ledger]
             state == [read EXCEPT !.id = 1]
  <2>1. counter > 0
    BY <1>4 DEF IInv, PollFits, BeginPoll
  <2>2. 1 \in 0..MaxPolicies /\ 1 \in 1..counter
    BY <1>3, <2>1
  <2>3. At("read") \in PollState
    BY AtFits DEF Places
  <2>4. read \in PollState
    BY <1>3, <2>3, StateExcept
  <2>5. state \in PollState
    <3> HIDE DEF read
    <3> QED BY <2>2, <2>4, StateExcept
  <2>6. state.at = "read" /\ state.until = 0 /\ state.id = 1
    BY DEF At
  <2>7. poll' = [poll EXCEPT ![k] = state]
    BY <1>4 DEF BeginPoll, MoveTo
  <2> HIDE DEF read, state
  <2> QED
    BY <2>1, <2>2, <2>5, <2>6, <2>7 DEF Rests, PollFits, Acts
<1>5. ASSUME LookAt(k) PROVE Rests(k) \/ GoesOn(k)
  <2>1. CASE ~NextPolicy(k)
    <3> DEFINE place == IF Claiming THEN "claim" ELSE "act"
               there == [poll[k] EXCEPT !.at = place]
               state == [there EXCEPT !.attempt = 1]
    <3>1. poll' = [poll EXCEPT ![k] = state]
      BY <1>5, <2>1 DEF LookAt, MoveTo
    <3>2. place \in Places /\ 1 \in 0..RetryMax
      BY DEF Places
    <3>3. there \in PollState
      BY <1>3, <3>2, StateExcept
    <3>4. state \in PollState
      <4> HIDE DEF there
      <4> QED BY <3>2, <3>3, StateExcept
    <3>5. poll[k].at = "read" /\ PollFits(poll[k])
      BY <1>5 DEF LookAt, IInv
    <3>6. state.at = place /\ state.id = poll[k].id /\ state.until = poll[k].until
      BY <1>3 DEF PollState
    <3>7. PollFits(state) /\ state.until = 0
      <4> HIDE DEF state, place
      <4> QED BY <3>4, <3>5, <3>6 DEF PollFits, Acts
    <3> HIDE DEF state
    <3> QED
      BY <3>1, <3>7 DEF Rests, GoesOn
  <2>2. CASE NextPolicy(k)
    BY <1>5, <2>2, NextPolicyRests DEF LookAt
  <2> QED
    BY <2>1, <2>2
<1>6. ASSUME ReadThrows(k) PROVE Rests(k) \/ GoesOn(k)
  BY <1>6, EndPollRests DEF ReadThrows
<1>7. ASSUME Refused(k) PROVE Rests(k) \/ GoesOn(k)
  BY <1>7, NextPolicyRests DEF Refused
<1>8. Rests(k) \/ GoesOn(k)
  BY <1>4, <1>5, <1>6, <1>7
<1> QED
  BY <1>1, <1>2, <1>8, ProcessInv DEF IInv, SystemTypeOK

\* What a keeper does while it acts, it does under the claim it has or without one.
LEMMA ActInv ==
  ASSUME IInv, NEW k \in Keepers, Sent(k) \/ NotSent(k) \/ AttemptThrows(k) \/ AnswerLost(k)
  PROVE  IInv'
<1>1. UNCHANGED <<coordinatorVars, counter, mode, up>> /\ poll[k].at = "act"
  BY DEF Sent, NotSent, AttemptThrows, AnswerLost, contract
<1>2. SystemTypeOK /\ poll[k].id \in D!Ids
  BY <1>1 DEF IInv, PollFits, D!Ids
<1>3. faults' \in 0..MaxFaults
  BY <1>2, FaultType DEF Sent, NotSent, AttemptThrows, AnswerLost, SystemTypeOK
<1>4. pending' \in [Keepers -> D!Ids \cup {NoTx}]
  BY <1>2 DEF Sent, NotSent, AttemptThrows, AnswerLost, SystemTypeOK
<1>5. Rests(k) \/ GoesOn(k)
  <2>1. ASSUME Sent(k) \/ NotSent(k) PROVE Rests(k) \/ GoesOn(k)
    BY <1>1, <2>1, AfterActionMoves DEF Sent, NotSent
  <2>2. ASSUME AttemptThrows(k) PROVE Rests(k) \/ GoesOn(k)
    BY <1>1, <2>2, RetryMoves DEF AttemptThrows
  <2>3. ASSUME AnswerLost(k) PROVE Rests(k) \/ GoesOn(k)
    BY <1>1, <2>3, RetryMoves DEF AnswerLost
  <2> QED
    BY <2>1, <2>2, <2>3
<1> QED
  BY <1>1, <1>2, <1>3, <1>4, <1>5, ProcessInv DEF SystemTypeOK

\* What another keeper holds, a claim leaves alone, and a release.
LEMMA ClaimKeepsOthers ==
  ASSUME IInv, NEW k \in Keepers, NEW id \in 1..counter,
         Claim(Resource(id), k, LockTtl) \/ Release(Resource(id), k) \/ UNCHANGED coordinatorVars
  PROVE  CoordinatorTypeOK' /\ ledger' = ledger /\ OthersKept(k)
<1>1. CoordinatorTypeOK /\ Resource(id) \in Schedules /\ LockTtl \in Int
  BY DEF IInv, SystemTypeOK
<1>2. CASE Claim(Resource(id), k, LockTtl)
  <2> DEFINE s == Resource(id)
  <2>1. /\ CoordinatorTypeOK' /\ ledger' = ledger
        /\ \A t \in DOMAIN claims : t # s => t \in DOMAIN claims' /\ claims'[t] = claims[t]
    BY <1>1, <1>2, ClaimEffect
  <2>2. s \in DOMAIN claims /\ claims[s].expires_at > ledger => claims[s].keeper = k
    BY <1>2 DEF Claim, HeldByOther, Live
  <2> QED
    BY <2>1, <2>2 DEF OthersKept
<1>3. CASE Release(Resource(id), k)
  BY <1>1, <1>3, ReleaseEffect DEF OthersKept
<1>4. CASE UNCHANGED coordinatorVars
  BY <1>4, RegistrationKeeps
<1> QED
  BY <1>2, <1>3, <1>4

\* The keeper that is granted a claim has it for as long as it asked.
LEMMA GrantedInv ==
  ASSUME IInv, NEW k \in Keepers, Granted(k)
  PROVE  IInv'
<1>1. poll[k] \in PollState /\ PollFits(poll[k]) /\ poll[k].at = "claim" /\ ledger \in Nat
  BY DEF Granted, IInv, SystemTypeOK, CoordinatorTypeOK
<1>2. PICK id \in 1..counter : id = poll[k].id /\ counter > 0
  BY <1>1 DEF PollFits
<1>3. CoordinatorTypeOK' /\ ledger' = ledger /\ OthersKept(k)
  BY <1>2, ClaimKeepsOthers DEF Granted
<1>4. UNCHANGED <<counter, mode, up, pending, faults>>
  BY DEF Granted, contract
<1>5. PICK state :
        /\ poll' = [poll EXCEPT ![k] = state]
        /\ state \in PollState /\ state.at = "act" /\ state.id = id
        /\ state.until = ledger + LockTtl
  <2> DEFINE there == [poll[k] EXCEPT !.at = "act"]
             next  == [there EXCEPT !.until = ledger + LockTtl]
  <2>1. there \in PollState /\ there.at = "act" /\ there.id = id
    BY <1>1, <1>2, StateExcept DEF PollState, Places
  <2>2. ledger + LockTtl \in Nat
    BY <1>1
  <2>3. next \in PollState /\ next.at = "act" /\ next.id = id /\ next.until = ledger + LockTtl
    <3> HIDE DEF there
    <3> QED BY <2>1, <2>2, StateExcept DEF PollState
  <2>4. poll' = [poll EXCEPT ![k] = next]
    BY DEF Granted, MoveTo
  <2> HIDE DEF next
  <2> QED
    BY <2>3, <2>4
<1>6. /\ Resource(id) \in DOMAIN claims'
      /\ claims'[Resource(id)] = [keeper |-> k, expires_at |-> ledger + LockTtl]
  <2>1. Claim(Resource(id), k, LockTtl) /\ Resource(id) \in Schedules /\ CoordinatorTypeOK
    BY <1>2 DEF Granted, IInv, SystemTypeOK
  <2> QED
    BY <2>1, ClaimEffect
<1>7. PollFits(state)'
  BY <1>2, <1>4, <1>5 DEF PollFits, Acts
<1>8. Promised(k, state)'
  <2>1. ledger + LockTtl >= state.until
    BY <1>1, <1>5
  <2> QED
    BY <1>5, <1>6, <2>1 DEF Promised, Resource
<1>9. poll' \in [Keepers -> PollState] /\ Claimed' /\ \A j \in Keepers : PollFits(poll[j])'
  BY <1>3, <1>4, <1>5, <1>7, <1>8, KeeperMoves
<1> QED
  BY <1>3, <1>4, <1>9 DEF IInv, SystemTypeOK, D!Ids

\* A claim whose answer is lost is not acted on, and one that is given back no longer.
LEMMA LetGoInv ==
  ASSUME IInv, NEW k \in Keepers, ClaimThrows(k) \/ GiveBack(k)
  PROVE  IInv'
<1>1. UNCHANGED <<counter, mode, up, pending, faults>> /\ poll[k].at \in {"claim", "release"}
  BY DEF ClaimThrows, GiveBack, contract
<1>2. poll[k].id \in 1..counter
  BY <1>1 DEF IInv, PollFits
<1>3. CoordinatorTypeOK' /\ ledger' = ledger /\ OthersKept(k)
  BY <1>2, ClaimKeepsOthers DEF ClaimThrows, GiveBack
<1>4. Rests(k)
  <2>1. EndPoll(k) \/ NextPolicy(k)
    BY DEF ClaimThrows, GiveBack
  <2> QED
    BY <1>1, <2>1, EndPollRests, NextPolicyRests
<1> QED
  BY <1>1, <1>3, <1>4, AskInv DEF IInv, SystemTypeOK

\* Every step keeps the invariant.
LEMMA StepInv == IInv /\ [SystemNext]_vars => IInv'
<1> SUFFICES ASSUME IInv, [SystemNext]_vars PROVE IInv'
  OBVIOUS
<1>1. CASE OwnerCreates \/ OwnerTopsUp \/ OwnerCancels \/ LedgerCloses
  BY <1>1, OutsideInv
<1>2. ASSUME NEW k \in Keepers, Include(k) \/ Expire(k)
      PROVE  IInv'
  BY <1>2, NetworkInv
<1>3. ASSUME NEW k \in Keepers, Start(k) \/ Crash(k) \/ Shutdown(k) \/ Exit(k)
      PROVE  IInv'
  BY <1>3, LifeInv
<1>4. ASSUME NEW k \in Keepers, PollStep(k)
      PROVE  IInv'
  BY <1>4, ReadInv, ActInv, GrantedInv, LetGoInv DEF PollStep
<1>5. CASE UNCHANGED vars
  <2>1. UNCHANGED <<poll, claims, ledger, registered, counter, mode, up, pending, faults>>
    BY <1>5 DEF vars, keeperVars, contract, coordinatorVars
  <2>2. Claimed' /\ \A j \in Keepers : PollFits(poll[j])'
    BY <2>1, NoKeeperMoves DEF IInv, SystemTypeOK, CoordinatorTypeOK
  <2> QED
    BY <2>1, <2>2 DEF IInv, SystemTypeOK, CoordinatorTypeOK, D!Ids
<1> QED
  BY <1>1, <1>2, <1>3, <1>4, <1>5 DEF SystemNext

\* The invariant holds in every behaviour, whatever fairness there is.
LEMMA AlwaysInv == SystemSpec => []IInv
<1>1. SystemInit => IInv
  BY InitInv
<1>2. IInv /\ [SystemNext]_vars => IInv'
  BY StepInv
<1> QED
  BY <1>1, <1>2, PTL DEF SystemSpec

\* What keepers remember, and the transactions and registrations there are, always
\* have their types: no attempt is made beyond RETRY_MAX_ATTEMPTS, no poll is at a
\* policy beyond the last, and no transaction is for one that is not there.
THEOREM SystemTypes == SystemSpec => []SystemTypeOK
<1>1. IInv => SystemTypeOK
  BY DEF IInv
<1> QED
  BY <1>1, AlwaysInv, PTL

\* No two keepers execute one policy within their claims, however many keepers and
\* policies there are, and however often they crash, restart or lose an answer.
THEOREM ClaimsExclude == SystemSpec => []ClaimExcludes
BY InvClaimExcludes, AlwaysInv, PTL

-----------------------------------------------------------------------------
(* The contract the keepers execute *)

USE PoliciesAssumption

\* What the owner does in the system is a step of the contract's own.
LEMMA OwnerStep ==
  ASSUME IInv, OwnerCreates \/ OwnerTopsUp \/ OwnerCancels
  PROVE  D!Next
<1>1. CASE OwnerCreates
  <2>1. PICK budget \in Budgets :
          D!CreateDCA("owner", "token", "none", "none", "owner", budget, PerSwap, 0, Interval)
    BY <1>1 DEF OwnerCreates
  <2>2. D!Create
    BY <1>1, <2>1 DEF OwnerCreates, D!Create
  <2> QED
    BY <2>2 DEF D!Next
<1>2. CASE OwnerTopsUp
  BY <1>2 DEF OwnerTopsUp, D!Next
<1>3. CASE OwnerCancels
  BY <1>3 DEF OwnerCancels, D!Next
<1> QED
  BY <1>1, <1>2, <1>3

\* A transaction that is included executes the policy it is for, or nothing.
LEMMA IncludeStep ==
  ASSUME IInv, NEW k \in Keepers, Include(k)
  PROVE  [D!Next]_(D!vars)
<1>1. pending[k] \in D!Ids
  BY DEF IInv, SystemTypeOK, Include
<1>2. CASE D!ExecuteTransfer(pending[k])
  BY <1>1, <1>2 DEF D!Next
<1>3. CASE UNCHANGED <<ledger, contract>>
  BY <1>3 DEF contract, D!vars
<1> QED
  BY <1>2, <1>3 DEF Include

\* Nothing else a keeper does, and no fault, reaches the contract.
LEMMA KeeperStutters ==
  ASSUME IInv, NEW k \in Keepers,
         Expire(k) \/ Start(k) \/ Crash(k) \/ Shutdown(k) \/ Exit(k) \/ PollStep(k)
  PROVE  UNCHANGED D!vars
<1>1. UNCHANGED contract
  BY DEF Expire, Start, Crash, Shutdown, Exit, PollStep, BeginPoll, LookAt, ReadThrows,
         Granted, Refused, ClaimThrows, Sent, NotSent, AttemptThrows, AnswerLost, GiveBack
<1>2. ledger' = ledger
  BY DEF Expire, Start, Crash, Shutdown, Exit, PollStep, BeginPoll, LookAt, ReadThrows,
         Granted, Refused, ClaimThrows, Sent, NotSent, AttemptThrows, AnswerLost, GiveBack,
         coordinatorVars, Register, Unregister, Claim, Release
<1> QED
  BY <1>1, <1>2 DEF contract, D!vars

\* Every step of the system is one of the contract, or none.
LEMMA SystemStep == IInv /\ [SystemNext]_vars => [D!Next]_(D!vars)
<1> SUFFICES ASSUME IInv, [SystemNext]_vars PROVE [D!Next]_(D!vars)
  OBVIOUS
<1>1. CASE OwnerCreates \/ OwnerTopsUp \/ OwnerCancels
  BY <1>1, OwnerStep
<1>2. CASE LedgerCloses
  BY <1>2 DEF LedgerCloses, CloseLedger, contract, D!CloseLedger, D!Next
<1>3. ASSUME NEW k \in Keepers, Include(k)
      PROVE  [D!Next]_(D!vars)
  BY <1>3, IncludeStep
<1>4. ASSUME NEW k \in Keepers,
             Expire(k) \/ Start(k) \/ Crash(k) \/ Shutdown(k) \/ Exit(k) \/ PollStep(k)
      PROVE  UNCHANGED D!vars
  BY <1>4, KeeperStutters
<1>5. CASE UNCHANGED vars
  BY <1>5 DEF vars, coordinatorVars, contract, D!vars
<1> QED
  BY <1>1, <1>2, <1>3, <1>4, <1>5 DEF SystemNext

\* Whatever keepers do - two that send for one policy, answers that are lost and
\* calls that are made again, crashes - the contract they share goes through a
\* behaviour of the contract alone.
THEOREM SystemImplementsPolicies == SystemSpec => D!Spec
<1>1. SystemInit => D!Init
  BY DEF SystemInit
<1> QED
  BY <1>1, SystemStep, AlwaysInv, PTL DEF SystemSpec, D!Spec

\* The contract with the theorems about it, whose variables the system has.
DP == INSTANCE DCAPolicyProofs WITH
        Users <- {"owner"}, Routers <- {}, Contract <- "contract", Tokens <- {"token"},
        OutTokens <- {}, SwapAmounts <- {PerSwap}, MinOutputs <- {0}, Outputs <- {},
        Intervals <- {Interval}, None <- "none", MinInterval <- Interval, Approval <- 0,
        MaxHistoryPage <- 1

\* D and DP are one contract.
LEMMA SameContract ==
  /\ D!Init => DP!Init
  /\ [D!Next]_(D!vars) => [DP!Next]_(DP!vars)
<1>1. D!Init => DP!Init
  BY DEF D!Init, DP!Init, D!Accounts, DP!Accounts
<1>2. [D!Next]_(D!vars) => [DP!Next]_(DP!vars)
  BY DEF D!Next, DP!Next, D!vars, DP!vars, D!CloseLedger, DP!CloseLedger, D!Create, DP!Create,
         D!CreateDCA, DP!CreateDCA, D!PayIn, DP!PayIn, D!PayTo, DP!PayTo,
         D!ExecuteTransfer, DP!ExecuteTransfer, D!CanExecute, DP!CanExecute,
         D!RecordExecution, DP!RecordExecution, D!Swaps, DP!Swaps, D!Cancel, DP!Cancel,
         D!TopUp, DP!TopUp, D!ExecuteSwap, DP!ExecuteSwap, D!Ids, DP!Ids,
         D!RouterTakes, DP!RouterTakes, D!Allowed, DP!Allowed
<1> QED
  BY <1>1, <1>2

\* What is proved of the contract alone holds of the one the keepers share: it has
\* all that its policies may still spend, every budget is spent in equal parts,
\* with one record for each, and no policy is executed twice within its interval,
\* however many keepers send a transaction for it.
THEOREM PoliciesHold ==
  SystemSpec => [](DP!Solvency /\ DP!BudgetAccounted /\ DP!ExecutionsSpaced)
<1>1. DP!IsFiniteSet({})
  BY DP!FS_EmptySet
<1>2. SystemInit => DP!IInv
  BY <1>1, DP!InitInv, SameContract DEF SystemInit
<1>3. IInv /\ DP!IInv /\ [SystemNext]_vars => DP!IInv'
  BY <1>1, DP!StepInv, SameContract, SystemStep
<1>4. DP!IInv => DP!Solvency /\ DP!BudgetAccounted /\ DP!ExecutionsSpaced
  BY <1>1, DP!SpacedExecutions DEF DP!IInv
<1> QED
  BY <1>2, <1>3, <1>4, AlwaysInv, PTL DEF SystemSpec

=============================================================================
