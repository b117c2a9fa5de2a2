------------------------------ MODULE Keepers -------------------------------
(***************************************************************************)
(* Keepers (keeper/src) that execute the policies of one DCAPolicy         *)
(* contract, with or without the KeeperCoordinator contract: DCAWatcher,   *)
(* runCoordinated, invokeContract, registration, shutdown, crash and       *)
(* restart.  A keeper is a Node process: what it does between two awaits   *)
(* is one action, and keepers interleave at every await.                 *)
(*                                                                         *)
(* The timer of a watcher is set again when the poll it began has ended;   *)
(* the poll start() begins at once is taken to be over before the timer    *)
(* goes off, so a keeper has one poll in flight.                           *)
(*                                                                         *)
(* Two things the watcher and runCoordinated ask of a client, and the      *)
(* tests of both give them, the client of the source does not have; the    *)
(* model takes it as it is, and with either of them added:                 *)
(*   - readContract answers with the policy itself and not with a list     *)
(*     that has it, and the watcher skips whatever is not a list: at this  *)
(*     commit no keeper executes anything (ListAnswers = FALSE);           *)
(*   - there is no claimExecution and no releaseExecution, so              *)
(*     runCoordinated runs the action unguarded.  In the mode "claiming"   *)
(*     they are calls of the coordinator's claim and release that are      *)
(*     applied at once and whose answer may be lost.                       *)
(*                                                                         *)
(* The network (external): a transaction is accepted if its sequence       *)
(* number is the next one of the keeper's account and the account has no   *)
(* other transaction waiting; it is then included in a ledger, where the   *)
(* contract may refuse it still, or it expires.  A transaction takes its   *)
(* number from the client's copy of the account, and every transaction     *)
(* that is built moves the copy on, the one of a simulated read as well:   *)
(* the number is right only if the account was read just before.           *)
(*                                                                         *)
(* An operator named Faulty... is the one that follows it with a mistake;  *)
(* its comment names the property that finds the mistake.                  *)
(***************************************************************************)
EXTENDS KeeperCoordinator, Sequences

CONSTANTS
  Modes,       \* "alone": COORDINATOR_CONTRACT_ID is not set; "registered": it is;
               \* "claiming": it is, and clients have claimExecution
  ListAnswers, \* readContract answers get_dca with a list, as the watcher expects
  LockTtl,     \* COORDINATOR_LOCK_TTL_LEDGERS
  RetryMax,    \* RETRY_MAX_ATTEMPTS
  MaxFaults,   \* bound: crashes, shutdowns, registrations and reads that fail
  Budgets, PerSwap, Interval, TopUps, Supply, MaxPolicies  \* of the policies

ASSUME KeepersAssumption ==
  LockTtl \in 1..MaxLockTtl /\ RetryMax \in Nat \ {0} /\ ListAnswers \in BOOLEAN

VARIABLES
  counter, policies, ownerIndex, records, balance, allowance,  \* DCAPolicy
  mode,        \* how far keepers coordinate, the same for all
  up,          \* what each process does: "down", "up" or "closing"
  poll,        \* where its poll is
  pending,     \* the policy its transaction in the network is for, or NoTx
  faults       \* how many of the MaxFaults faults there were

contract == <<counter, policies, ownerIndex, records, balance, allowance>>
keeperVars == <<mode, up, poll, pending, faults>>
vars == <<coordinatorVars, contract, keeperVars>>

D == INSTANCE DCAPolicy WITH
       Users <- {"owner"}, Routers <- {}, Contract <- "contract", Tokens <- {"token"},
       OutTokens <- {}, SwapAmounts <- {PerSwap}, MinOutputs <- {0}, Outputs <- {},
       Intervals <- {Interval}, None <- "none", MinInterval <- Interval, Approval <- 0,
       MaxHistoryPage <- 1

Configured == mode \in {"registered", "claiming"}
Claiming   == mode = "claiming"

NoTx == 0
Resource(id) == <<"dca", id>>

ASSUME SchedulesAssumption == \A id \in 1..MaxPolicies : Resource(id) \in Schedules
ASSUME PolicyBoundsAssumption == MaxPolicies \in Nat /\ MaxFaults \in Nat
ASSUME PoliciesAssumption ==
  Budgets \cup TopUps \cup {PerSwap} \subseteq Int /\ Interval \in Nat \ {0} /\ Supply \in Nat

\* Where a poll is: not there, waiting for the timer, reading the next policy,
\* claiming it, in an attempt to execute it, or giving the claim back.
Places == {"off", "timer", "read", "claim", "act", "release"}

\* seen is currentSeq, id the policy the loop is at, and failed whether the
\* action threw.  fresh: sourceAccount.sequence is that of the account.  until is
\* where the claim ends, which a keeper never looks at.
PollState ==
  [at : Places, seen : 0..MaxLedger, id : 0..MaxPolicies, attempt : 0..RetryMax,
   fresh : BOOLEAN, until : Nat, failed : BOOLEAN]

At(place) ==
  [at |-> place, seen |-> 0, id |-> 0, attempt |-> 0, fresh |-> FALSE, until |-> 0,
   failed |-> FALSE]

SystemInit ==
  /\ Init
  /\ D!Init
  /\ mode \in Modes
  /\ up = [k \in Keepers |-> "down"]
  /\ poll = [k \in Keepers |-> At("off")]
  /\ pending = [k \in Keepers |-> NoTx]
  /\ faults = 0

-----------------------------------------------------------------------------
(* The contract, its owner and the network                                  *)

\* Policies are made and topped up before a keeper runs, and cancelled at any time.
NoneRuns == ledger = 0 /\ \A k \in Keepers : up[k] = "down"

OwnerCreates ==
  /\ NoneRuns /\ counter < MaxPolicies
  /\ \E budget \in Budgets :
       D!CreateDCA("owner", "token", "none", "none", "owner", budget, PerSwap, 0, Interval)
  /\ UNCHANGED <<registered, claims, keeperVars>>

OwnerTopsUp ==
  /\ NoneRuns
  /\ \E id \in D!Ids, amount \in TopUps : D!TopUp(id, amount)
  /\ UNCHANGED <<registered, claims, keeperVars>>

OwnerCancels ==
  /\ \E id \in D!Ids : D!Cancel(id)
  /\ UNCHANGED <<registered, claims, keeperVars>>

LedgerCloses == CloseLedger /\ UNCHANGED <<contract, keeperVars>>

\* The account's sequence number moves, whether or not the contract accepts.
Include(k) ==
  /\ pending[k] # NoTx
  /\ \/ D!ExecuteTransfer(pending[k])
     \/ ~D!CanExecute(policies[pending[k]]) /\ UNCHANGED <<ledger, contract>>
  /\ pending' = [pending EXCEPT ![k] = NoTx]
  /\ poll' = [poll EXCEPT ![k].fresh = FALSE]
  /\ UNCHANGED <<registered, claims, mode, up, faults>>

\* The transaction was not included within the 30 seconds of setTimeout(30).
Expire(k) ==
  /\ pending[k] # NoTx
  /\ pending' = [pending EXCEPT ![k] = NoTx]
  /\ UNCHANGED <<coordinatorVars, contract, mode, up, poll, faults>>

-----------------------------------------------------------------------------
(* The process                                                              *)

\* There is room for a fault.  A claim that is left behind ends while ledgers
\* still close.
Fault == faults < MaxFaults /\ ledger + LockTtl <= MaxLedger /\ faults' = faults + 1

\* main(): the account is read, the keeper registered, a failure to register is
\* logged, and the watcher started.
Start(k) ==
  /\ up[k] = "down"
  /\ counter > 0
  /\ up' = [up EXCEPT ![k] = "up"]
  /\ poll' = [poll EXCEPT ![k] = At("timer")]
  /\ \/ /\ IF Configured THEN Register(k) ELSE UNCHANGED coordinatorVars
        /\ UNCHANGED faults
     \/ /\ Configured /\ k \notin registered
        /\ Fault
        /\ UNCHANGED coordinatorVars
  /\ UNCHANGED <<contract, mode, pending>>

Crash(k) ==
  /\ up[k] # "down"
  /\ Fault
  /\ up' = [up EXCEPT ![k] = "down"]
  /\ poll' = [poll EXCEPT ![k] = At("off")]
  /\ UNCHANGED <<coordinatorVars, contract, mode, pending>>

\* shutdown(): the timer is cleared; a poll in flight goes on, and sets it again.
Shutdown(k) ==
  /\ up[k] = "up"
  /\ Fault
  /\ up' = [up EXCEPT ![k] = "closing"]
  /\ poll' = [poll EXCEPT ![k] = IF @.at = "timer" THEN At("off") ELSE @]
  /\ UNCHANGED <<coordinatorVars, contract, mode, pending>>

\* unregisterKeeper, when there is a coordinator, and process.exit.  The first
\* fails or takes too long, or not.
Exit(k) ==
  /\ up[k] = "closing"
  /\ up' = [up EXCEPT ![k] = "down"]
  /\ poll' = [poll EXCEPT ![k] = At("off")]
  /\ (Configured /\ Unregister(k)) \/ UNCHANGED coordinatorVars
  /\ UNCHANGED <<contract, mode, pending, faults>>

-----------------------------------------------------------------------------
(* A poll                                                                   *)

MoveTo(k, state) == poll' = [poll EXCEPT ![k] = state]

\* The timer is set again when the poll it began ends, however it ends.
EndPoll(k) == MoveTo(k, At("timer"))

\* The loop goes on, or is over.
NextPolicy(k) ==
  IF poll[k].id < counter
  THEN MoveTo(k, [At("read") EXCEPT !.seen = poll[k].seen, !.id = poll[k].id + 1])
  ELSE EndPoll(k)

\* The count and the ledger are read.
BeginPoll(k) ==
  /\ poll[k].at = "timer"
  /\ MoveTo(k, [At("read") EXCEPT !.seen = ledger, !.id = 1])
  /\ UNCHANGED <<coordinatorVars, contract, mode, up, pending, faults>>

\* A policy is read and skipped, whatever it is if the answer is not a list, or
\* found to be due at the ledger that was read.
LookAt(k) ==
  LET s == poll[k]
  IN  /\ s.at = "read"
      /\ IF /\ ListAnswers
            /\ policies[s.id].status = "Active"
            /\ s.seen >= policies[s.id].next_execution_ledger
         THEN MoveTo(k, [s EXCEPT !.at = IF Claiming THEN "claim" ELSE "act",
                                     !.attempt = 1])
         ELSE NextPolicy(k)
      /\ UNCHANGED <<coordinatorVars, contract, mode, up, pending, faults>>

\* The read failed.
ReadThrows(k) ==
  /\ poll[k].at = "read"
  /\ Fault
  /\ EndPoll(k)
  /\ UNCHANGED <<coordinatorVars, contract, mode, up, pending>>

\* claimExecution answers true,
Granted(k) ==
  /\ poll[k].at = "claim"
  /\ Claim(Resource(poll[k].id), k, LockTtl)
  /\ MoveTo(k, [poll[k] EXCEPT !.at = "act", !.until = ledger + LockTtl])
  /\ UNCHANGED <<contract, mode, up, pending, faults>>

\* or false,
Refused(k) ==
  /\ poll[k].at = "claim"
  /\ MayClaim(k, LockTtl)
  /\ HeldByOther(Resource(poll[k].id), k)
  /\ NextPolicy(k)
  /\ UNCHANGED <<coordinatorVars, contract, mode, up, pending, faults>>

\* or throws, perhaps after the claim was made, which ends the poll.
ClaimThrows(k) ==
  /\ poll[k].at = "claim"
  /\ Claim(Resource(poll[k].id), k, LockTtl) \/ UNCHANGED coordinatorVars
  /\ EndPoll(k)
  /\ UNCHANGED <<contract, mode, up, pending, faults>>

\* The action is over: the claim is given back, when there is one, and then the
\* loop goes on or, if the action threw, the poll ends.
AfterAction(k, failed) ==
  IF Claiming
  THEN MoveTo(k, [poll[k] EXCEPT !.at = "release", !.attempt = 0, !.fresh = FALSE,
                                 !.failed = failed])
  ELSE IF failed THEN EndPoll(k) ELSE NextPolicy(k)

\* invokeContract builds a transaction and simulates it; sendTransaction answers
\* PENDING.  getTransaction is asked once, and whatever it answers is returned.
Sent(k) ==
  LET id == poll[k].id
  IN  /\ poll[k].at = "act"
      /\ D!CanExecute(policies[id])
      /\ poll[k].fresh /\ pending[k] = NoTx
      /\ pending' = [pending EXCEPT ![k] = id]
      /\ AfterAction(k, FALSE)
      /\ UNCHANGED <<coordinatorVars, contract, mode, up, faults>>

\* sendTransaction answers TRY_AGAIN_LATER: returned like a success.
NotSent(k) ==
  /\ poll[k].at = "act"
  /\ D!CanExecute(policies[poll[k].id])
  /\ pending[k] # NoTx
  /\ AfterAction(k, FALSE)
  /\ UNCHANGED <<coordinatorVars, contract, mode, up, pending, faults>>

\* SystemTypeOK: one attempt more than RETRY_MAX_ATTEMPTS is made.
FaultyAttemptsLeft(k) == poll[k].attempt <= RetryMax

AttemptsLeft(k) == poll[k].attempt < RetryMax

\* DueIsExecuted: the account is not read again, so every attempt has the number
\* that follows those of the reads.
FaultyRetry(k, refreshed) ==
  IF AttemptsLeft(k)
  THEN MoveTo(k, [poll[k] EXCEPT !.attempt = @ + 1, !.fresh = FALSE])
  ELSE AfterAction(k, TRUE)

\* After an attempt that threw the account is read again, and the next attempt
\* is made unless that was the last.
Retry(k, refreshed) ==
  IF AttemptsLeft(k)
  THEN MoveTo(k, [poll[k] EXCEPT !.attempt = @ + 1, !.fresh = refreshed])
  ELSE AfterAction(k, TRUE)

\* The attempt throws: the simulation fails, the sequence number is wrong, or
\* the network does not answer.
AttemptThrows(k) ==
  /\ poll[k].at = "act"
  /\ \/ Retry(k, TRUE) /\ UNCHANGED faults
     \/ Retry(k, FALSE) /\ Fault
  /\ UNCHANGED <<coordinatorVars, contract, mode, up, pending>>

\* The transaction was accepted and the answer is lost: it is tried again.
AnswerLost(k) ==
  LET id == poll[k].id
  IN  /\ poll[k].at = "act"
      /\ D!CanExecute(policies[id])
      /\ poll[k].fresh /\ pending[k] = NoTx
      /\ pending' = [pending EXCEPT ![k] = id]
      /\ Retry(k, TRUE)
      /\ UNCHANGED <<coordinatorVars, contract, mode, up, faults>>

\* releaseExecution, whose failure is ignored.
GiveBack(k) ==
  LET s == poll[k]
  IN  /\ s.at = "release"
      /\ Release(Resource(s.id), k) \/ UNCHANGED coordinatorVars
      /\ IF s.failed THEN EndPoll(k) ELSE NextPolicy(k)
      /\ UNCHANGED <<contract, mode, up, pending, faults>>

PollStep(k) ==
  \/ BeginPoll(k) \/ LookAt(k) \/ ReadThrows(k)
  \/ Granted(k) \/ Refused(k) \/ ClaimThrows(k)
  \/ Sent(k) \/ NotSent(k) \/ AttemptThrows(k) \/ AnswerLost(k)
  \/ GiveBack(k)

SystemNext ==
  \/ OwnerCreates \/ OwnerTopsUp \/ OwnerCancels
  \/ LedgerCloses
  \/ \E k \in Keepers :
        \/ Include(k) \/ Expire(k)
        \/ Start(k) \/ Crash(k) \/ Shutdown(k) \/ Exit(k)
        \/ PollStep(k)

\* The network closes ledgers, answers those who keep asking, and includes some
\* transaction of a keeper who keeps sending; a process that went down is started
\* again (Restart=always); an await that can end, ends.
Fairness ==
  /\ WF_vars(LedgerCloses)
  /\ \A k \in Keepers :
       /\ WF_vars(Start(k) \/ Exit(k) \/ PollStep(k))
       /\ SF_vars(Granted(k) \/ Refused(k))
       /\ SF_vars(Sent(k))
       /\ SF_vars(Include(k))

SystemSpec == SystemInit /\ [][SystemNext]_vars /\ Fairness

-----------------------------------------------------------------------------
(* Properties *)

SystemTypeOK ==
  /\ CoordinatorTypeOK
  /\ mode \in Modes
  /\ up \in [Keepers -> {"down", "up", "closing"}]
  /\ poll \in [Keepers -> PollState]
  /\ pending \in [Keepers -> D!Ids \cup {NoTx}]
  /\ faults \in 0..MaxFaults

\* The keeper is executing the policy, and its claim has not run out.
Acting(k, id) ==
  /\ poll[k].at \in {"act", "release"}
  /\ poll[k].id = id
  /\ poll[k].until > ledger

\* Two keepers never execute one policy at a time, as long as neither outstays
\* its claim: whoever crashed, was restarted, closed down, renewed its claim or
\* lost an answer before.
ClaimExcludes ==
  \A k, j \in Keepers, id \in D!Ids :
    Acting(k, id) /\ Acting(j, id) => k = j

Due(id) ==
  /\ id \in D!Ids
  /\ policies[id].status = "Active"
  /\ ledger >= policies[id].next_execution_ledger

Stuck(id) == Due(id) /\ policies[id].remaining_budget < policies[id].amount_per_swap

\* "The keeper bot watches for vaults, streams, and DCA policies that become due
\* for execution on-chain, then submits the transactions": what is due is executed
\* in the end, whatever crashes, unless the owner cancels it, or a policy with a
\* lower id is due and cannot be executed, whose action throws and ends every poll
\* before its turn comes.  It takes a client that answers with lists: with the one
\* of the source every policy is skipped and nothing is executed.
DueIsExecuted ==
  \A id \in 1..MaxPolicies : Due(id) ~> ~Due(id) \/ \E j \in 1..id : Stuck(j)

=============================================================================
