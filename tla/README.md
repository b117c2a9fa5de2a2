# ChronoStar in TLA+

Specifications of the ChronoStar protocol: three Soroban contracts that hold
money and pay it out by ledger sequence, a contract and a daemon that make the
payments happen, and a backend that reports them. The modules are translated
from the source of the repository; `PROJECT.json` maps every definition to the
lines it stands for and lists components, runs, hazards and theorems.

## 1. The system

| component | state | operations | who calls |
|---|---|---|---|
| **ScheduleVault** (`contract/schedule-vault/src/lib.rs`) | counter, vaults, two lists of ids per address, its account in every token | `create_vault`, `create_vaults`, `release`, `cancel`, `transfer_ownership`, `pause`, `resume`, `reclaim` | owners; anybody `release` |
| **RecurringStream** (`contract/recurring-stream/src/lib.rs`) | counter, streams, splits, lists, its account | `create_stream`, `create_split_stream`, `claim`, `tick`, `pause`, `resume`, `cancel`, `change_recipient` | owners; recipients `claim`; anybody `tick` |
| **DCAPolicy** (`contract/dca-policy/src/lib.rs`) | counter, policies, execution records, list by owner, its account and the allowances of routers | `create_dca`, `create_dca_swap`, `execute_swap`, `cancel`, `top_up`, `get_execution_history` | owners; anybody `execute_swap` |
| **KeeperCoordinator** (`contract/keeper-coordinator/src/lib.rs`) | registered keepers, claims with an expiry ledger | `register`, `unregister`, `claim`, `release` | keepers |
| **Keeper** (`keeper/src`) | per watcher a timer and polls in flight; the sequence number of its account | polling, `runCoordinated`, `invokeContract` with retries, registration, shutdown | timers, signals |
| **Event store** (`backend/src/store.js`, `routes/events.js`) | the events in memory and in a file, a queue of writes | `load`, `append`, `list` | HTTP requests |
| **Live stream** (`backend/src/routes/live-stream.js`, `frontend/src/lib/streamConsumer.ts`) | replay buffer, next id, connections; last id seen by a client | publish, connect with replay, close; reconnect | timers, clients |
| Read routes, middleware, frontend pages, configuration, scripts | none of their own | simulate a read of a contract and pass it on | HTTP requests |

Contracts never call each other. They share the token contracts, in which each
has one account per token for all its vaults, streams or policies, and the
ledger sequence. A keeper reads a contract's counter, ledger and entries one
by one and sends `release`, `tick` or `execute_swap` for those that are due,
around a claim of the coordinator. The backend reads the same way and never
writes to a contract.

What is hard:

* *Money in one account.* Everything a contract holds for everybody is one
  balance. No call checks that a vault, stream or policy is paid out of its
  own money; this follows, or does not, from the order of all calls.
* *Copies.* The lists by owner and recipient repeat what the entries say and
  are edited by hand in several places.
* *Arithmetic of ledgers.* Release, expiry, grace, start delay and pauses meet
  at boundaries; vesting is worked out anew from sums of pauses.
* *Three transactions.* Claim, action and release of a keeper are separate
  transactions between which ledgers close, claims expire and keepers crash.
* *Callbacks in one thread.* Node interleaves requests and timers at every
  `await`: loads, appends, polls and reconnections overlap.

`PROJECT.json` lists these as hazards at their lines, with the properties that
cover them.

What makes each part correct: for the contracts, solvency (the account covers
what all entries still have to pay), each entry paid out once and to those it
is for, lists that agree with the entries, and dates that are respected; for
the coordinator, one live claim per schedule; for the keeper, that what is due
is executed in the end whatever crashes, and not twice while a claim holds;
for the event store, that an answered append survives a restart and no key
occurs twice; for the live stream, that a client sees every event once and in
order, or is told of the gap.

## 2. Modules

| module | what it is |
|---|---|
| `ScheduleVault` | the vault contract |
| `Escrow` | what it promises: deposits that are paid or refunded once |
| `ScheduleVaultProofs` | the theorems about it |
| `RecurringStream` | the stream contract |
| `StreamHistory` | the same with counts of the ledgers each stream really ran, and was paused before its start |
| `Drawdown` | what it promises: funds that are drawn from and closed |
| `RecurringStreamProofs`, `StreamHistoryProofs` | the theorems about those two |
| `DCAPolicy` | the policy contract |
| `DCAPolicyProofs` | the theorems about it |
| `KeeperCoordinator` | the contract in which keepers register and claim |
| `Keepers` | keepers composed with `DCAPolicy` (by `INSTANCE`), `KeeperCoordinator` (by `EXTENDS`) and a network |
| `KeepersProofs` | the theorems about the last two |
| `EventStore` | the event store of the backend, its file, and overlapping requests |
| `EventStoreProofs` | the theorems about it |
| `LiveStream` | the live stream of the backend and its consumers |
| `LiveStreamProofs` | the theorems about it |
| `Totals`, `Indexes` | sums over ids and over sets, the lists of ids |
| `BookkeepingTheorems` | the theorems about those |
| `MC...` | instances for TLC |

### From code to model

* **One action per entry point.** A Soroban invocation is a transaction: it
  runs alone, and an error, a panic or a token transfer that fails rolls all of
  it back. So an entry point is one action, its checks are the guards, and a
  call that fails is a stuttering step.
* **Authorisation.** An action the code guards with `owner.require_auth()` is
  taken by that owner, so it has no caller of its own. `claim` names its caller,
  because the code compares it.
* **Storage.** Each `DataKey` is a variable: `Counter` is `counter`, `Vault(id)`
  is `vaults[id]`, and so on. An absent list is the empty list: the code reads
  it with `unwrap_or(Vec::new)`.
* **Token contracts and the network are external.** `balance` holds what they
  keep, `allowance` what routers may take; a transfer needs the money to be
  there. `CloseLedger` moves the ledger and is the only step that does.
* **Not modelled:** labels beyond being accepted or not, emitted events and the
  time-to-live of storage entries (no operation reads them back), i128 overflow
  outside `RecurringStream` (amounts are small), the allowances owners give the contracts (an owner who
  gives none is a call that fails), and accounts that name the contract itself
  as owner, recipient or receiver.
* **u32 overflow** panics, because the release profile has `overflow-checks`.
  In `RecurringStream` the sums of ledgers are guarded by `MaxU32`; in the
  other two contracts they are far from it. The products of amounts in
  `RecurringStream`, with ledgers and with shares, are guarded by `MaxI128` (`VestingFits`, `SharesFit`): of a
  stream that is too large `claim` and `cancel` panic.
* **Routers** are other people's contracts. `ExecuteSwap` lets the router take
  any part of its allowance and answer anything; `RouterTakes` lets it come back
  until the allowance ends. Soroban refuses reentrant calls, so a router does
  not call the contract back.

### How source that does not compile is read

At this commit two merges are broken. `recurring-stream/src/lib.rs`:
`claimable_amount` lacks the body of its first `if` (line 113), read as
`return 0` as the comment at 597 says; the `StreamEntry` of a split stream lacks
three fields (304-317), read as zero; `unwrap_or()` at 234 is read as an empty
list, as in the other places. `dca-policy/src/lib.rs`: the event type at 74 lacks
its closing brace, which changes no behaviour.
`keeper-coordinator/src/lib.rs` uses a `DataKey` that is not there, with the
variants `Keeper(Address)` and `Claim(Symbol, u64)` by its uses.

### What the keeper does at this commit: nothing

The watchers take what `readContract` answers for an array whose first element is the
entry, and skip anything else (`dca-watcher.js:58`, `vault-watcher.js:62`,
`stream-watcher.js:52`). `readContract` answers with `scValToNative` of what the contract
returned (`soroban-client.js:65`), which for an `Option` of a struct is `null` or a plain
object. So a keeper polls, reads every entry, skips it, and never sends `release`, `tick`
or `execute_swap`. The tests of the watchers give them arrays and do not see it. This is
finding 5, the run `keepers_objects`, with `ListAnswers = FALSE`. What the rest of the
keeper does once it gets a list is worth checking too, and is checked with
`ListAnswers = TRUE`: what `keepers` shows of liveness, it shows of a client that answers
as the watcher expects, and not of the one of the source. The safety theorems hold for
both.

### ScheduleVault

`create_vault` and `create_vaults` share `OpenVaults`, which checks, takes the
money and appends the new vaults to the owner's list; `CreateVault` adds the
recipient's list, `CreateVaults` does not, as in the code. `Settle` is what
`release`, `cancel` and `reclaim` do after their checks `CanRelease`,
`CanCancel` and `CanReclaim`.

### RecurringStream

`OpenStream` is what both ways to create a stream share. `claimable_amount` and
`active_ledgers` are the functions of `StreamEntry` for a stream that is Active
or taken to be: `cancel` asks them of a copy of a paused stream with the status
set to Active. `PayOut` shares an amount out as `claim` and `cancel` do: every
part rounded down (`Portion`), the last one the rest. `tick` has a branch for
streams that were claimed completely, which never is taken: `claim` has
completed those already. The 10000 basis points of a whole are the constant
`BasisPoints`, so that a run can count shares in tenths, and `MaxI128` is the largest
amount: a small one makes the products overflow.

`StreamHistory` counts, in two history variables, the ledgers a stream ran in (`ran`)
and those before its start in which it was paused (`early`). `VestingExact` says of
streams for which `early` is zero that `active_ledgers` is what its comment
(`lib.rs:91-92`) says, the ledgers the stream was active in. Of the others it is not true,
which is among the differences at the end of section 3.

### DCAPolicy

`CreateDCA` is both ways to create a policy. `execute_swap` is two actions, a
plain transfer and a swap by a router, with the checks (`CanExecute`) and the
record (`RecordExecution`) in common. `HistoryPage` is
`get_execution_history`.

### KeeperCoordinator

`register`, `unregister`, `claim` and `release` are an action each. `claims` has
an entry for every schedule that has one, expired ones included, as the storage
does. `unregister` leaves them, though `docs/architecture/keeper-coordination.md:39`
and `registration.js` speak of no waiting for the time to live: another keeper
waits for the claim to expire as it would after a crash.

### Keepers

A keeper is a Node process, and what it does between two awaits is one action.
`poll[k]` is where `DCAWatcher.poll` of keeper `k` is:

    timer -> read -> (claim ->) act -> (release ->) read ... -> timer

`BeginPoll` reads the counter and the ledger, once for the whole poll; `LookAt`
reads a policy and, if the answer is a list (`ListAnswers`), compares it with that
ledger; otherwise it skips the policy. `Granted`, `Refused` and
`ClaimThrows` are what `claimExecution` may answer; `Sent`, `NotSent`,
`AttemptThrows` and `AnswerLost` are the ways one attempt of `invokeContract` ends,
`Retry` and `AfterAction` what follows; `GiveBack` is the `finally` of
`runCoordinated`. `Start`, `Crash`, `Shutdown` and `Exit` are the process, `Include`
and `Expire` what the network does with a transaction, which runs `execute_swap` of
`DCAPolicy` or is refused by it.

* **Three modes.** Without a coordinator configured ("alone") nothing is claimed.
  With one ("registered") the keeper registers, and still claims nothing:
  `SorobanClient` has no `claimExecution`, so `runCoordinated` runs the action at
  once (`coordination.js:2`), against `keeper-coordination.md:21-23`. The mode "claiming"
  is the client `runCoordinated` is written for, with claim and release applied at once
  and answers that may be lost. There `invokeContract` returns while the transaction is
  pending (`soroban-client.js:134`), and the claim is given back (`coordination.js:6`), so
  that another keeper can send one for the same policy. At this commit neither can be
  observed, because every policy is skipped before; a keeper that reads its policies right
  would meet both. The properties do not catch them: `ClaimExcludes` is about keepers
  within their claims.
* **Sequence numbers.** `TransactionBuilder.build` moves on the number of the
  account the client keeps, for a simulated read as well, so after the reads of a
  poll the first attempt has the wrong number, throws, and has the account read
  again. `fresh` says whether the number is right. It follows that
  `RETRY_MAX_ATTEMPTS = 1` never executes anything.
* **Errors.** An attempt that throws for the last time ends the whole poll, and with
  it the turn of all later policies: `DueIsExecuted` makes an exception (`Stuck`).
  A registration that failed is not tried again while the process runs: in the
  mode "claiming" such a keeper can claim nothing, and there have to be more keepers
  than faults.
* **Left out:** `VaultWatcher` and `StreamWatcher`, which run the same loop over the
  other two contracts; two polls of one watcher at a time (`start` polls at once and
  sets a timer; the model takes the first poll to be over when it goes off. If it
  were not, one poll could release what the other claimed); the time between a
  process that failed and its restart; and what the other watchers of a keeper do to its
number. All watchers of a keeper have one client with one copy of the account: what one
of them reads or sends between the refresh and the next attempt of another costs that
attempt, and can cost all of them. That a transaction of one who sends again and again is
included is assumed of a keeper whose watchers do not always disturb each other.

### EventStore

`request[r]` is where a request is: not there, opening the file, reading it, or
waiting for its write. `append` awaits `load` before it adds, also when the events are
loaded already: two appends that begin in one tick would both add to the same list, and
one addition would be lost. `GET /api/events` is the only caller and appends when an answer of the
network has arrived, each in a tick of its own, so `Arrive` adds at once. `Arrive`, `Open`, `Load` and `LoadFails` are `load` and the
part of `append` before its write; `BeginWrite`, `WriteDone` and `WriteFails` are the
queue; `Crash` forgets everything but the file. Two requests that find the events
not loaded both read the file, and the one that ends last replaces the list the other
has already added to. `reloaded` is a history variable that names this, and the
properties say that there is no other way for memory and file to come apart. That an
event is known whose write is still going on, and that a request which brings it
again is answered before it is saved, is as in the code. The in-memory driver, and
the stubs for Postgres and SQLite that fall back to it, are `Add` without a file.

### LiveStream

`Publish` and `Published` are the two halves of `publish`, before and after the
statistics are read. `Join` is the request of a client: replay, or a new event if the
client names none or one that has not been. `Leave` is a connection that breaks, of
which the server learns by `CloseSeen`. `Subscribe`, `Unsubscribe`, `Receive`,
`OnError` and `Reconnect` are the consumer. `run` is a history variable, how often
the server was started: events carry it and the code does not see it.

Two things the code does are part of the properties. A client that names an event of
an earlier run whose number the new server has passed already gets what follows that
number, and misses the events before it without being told (the comment at
`live-stream.js:28-30` speaks of numbers that are ahead only); `ReplayExact` therefore
compares events of one run. And the gap that the server announces is a comment in the
stream, which an `EventSource` passes over.

## 3. Runs

`tlc -workers 2 -config <cfg> <module>`. The runs of the contracts and of the keepers
take `CHECK_DEADLOCK FALSE`, because those models stop where their bounds stop them:
when the last ledger is closed and everything is settled nothing is left to do. `store`
and `live` check for deadlock.

| run | what it checks | result |
|---|---|---|
| `vault` (`MCScheduleVault`) | types, `Solvency`, `OwnerIndexExact`, `RecipientIndexSound`, `ActiveHasWayOut`, `RecipientWindow`, `ImplementsEscrow` | hold, 298,532 states |
| `vault_index` | `RecipientIndexComplete` | violated, finding 1 |
| `stream` (`MCStreamHistory`) | types, `ClaimedIsEarned`, `VestingExact`, `CanBeCancelled`, `ImplementsDrawdown` | hold, 277,569 states |
| `streams` (`MCRecurringStream`) | `Solvency`, `CanBeCancelled`, `PlainRecipientIndexed`, `SplitRecipientIndexed` | hold, 1,593,399 states |
| `stream_cancel` | `CancelPaysActiveOnly` | violated, finding 2 |
| `stream_stranded` | `NothingStranded` | violated, finding 3 |
| `dca` (`MCDCAPolicy`) | types, `Solvency`, `BudgetAccounted`, `ExecutionsSpaced`, `HistoryPaged` | hold, 625,926 states |
| `dca_topup` | `DueIsFunded` | violated, finding 4 |
| `keepers` (`MCKeepers`) | types, `ClaimExcludes`, `DueIsExecuted` | hold, 110,578 states |
| `keepers_objects` | `DueIsExecuted` | violated, finding 5 |
| `store` (`MCEventStore`) | types, `NoDuplicates`, `KnownIsSaved`, `SavedStays`, `AppendIsAnswered` | hold, 8,590 states |
| `live` (`MCLiveStream`) | types, `ReplayExact`, `NothingMissed`, `PollsWhileConnected`, `EventsArrive`, `SubscriberReconnects` | hold, 70,827 states |

**Bounds.** `MaxVaults`, `MaxStreams`, `MaxPolicies` and `MaxLedger` bound the
number of entries and of ledgers; the smallest duration, interval and page are
constants so that their boundaries lie within those bounds.

* `vault`: two users, two vaults, ledgers 0 to 3, release at 1 or 2, expiry 2.
  Enough for a batch of two and one that is too long, a batch and a single
  vault of the same recipient, owner and recipient the same or not, transfer to
  and fro, and ledgers before, at and after release and expiry. Two units of
  supply let the second vault be one the owner cannot pay.
* `stream`: one stream, seven ledgers, durations 2 and 4 (1 is refused),
  amounts 3 and 5 that leave rests when divided by them and by shares of 40 and
  60 percent, a start delay, a grace period; long enough for two pauses, one
  over the end ledger and one before the start, and for `end + grace` to
  overflow the `MaxU32` of the model. `MaxI128` is 18: everything that is worked out for
  an amount of 3 fits, and for 5 what is worked out in four ledgers, or for the share of
  40 percent, overflows once enough has vested.
* `streams`: two streams of 3 in three ledgers, plain and split in two halves
  (to one user or to two), which share the one account. Nothing overflows. One of the
  two at most is paused (`OnePaused`); longer and repeated pauses are in `stream`.
* `dca`: two policies of 2 or 4 in swaps of 2, topped up by 3 (so that a part of
  a swap remains and an exhausted policy starts again), one router, an allowance
  that lasts for two ledgers, pages of one and two records.
* `dca_topup`: one policy of two users, top-ups of 1 and 2.
* `keepers`: two keepers in all three modes, a client that answers with lists, one policy with or without a top-up that
  leaves it stuck, two attempts, three ledgers with claims that last for one, and one
  fault of any kind at any place: a crash between claim, action and release, with a
  transaction in the network or not, and the other keeper anywhere. One policy is
  enough for what two keepers do to each other; the loop over several is in the
  proof (two policies are more than TLC explores in the time of a run). `Fault` keeps as many ledgers to spare as a claim lasts, so that what a crash
  leaves behind can expire before the bound.
* `keepers_objects`: the same with the client of the source and the two modes it knows.
* `store`: two requests, three events, room for two; batches that are empty, that have
  one event twice, that have two and that evict.
* `live`: two consumers, a buffer of two, four events in each of two runs, two
  connections the server does not know to be closed: gaps, ids that are ahead of a
  restarted server and ids that it has passed.

Users are interchangeable in the runs that say `SYMMETRY` (nothing but equality
is asked of an address), and none of these checks liveness. The
runs that do say no `SYMMETRY`.

**Fairness.** The contracts do nothing of themselves, and their specifications have
none. `Keepers`: ledgers close; an await of a process that can end, ends, and a
process that went down is started again (`Restart=always` in the unit file of
the operations runbook), which is weak
fairness of each keeper; of a keeper who asks again and again the coordinator
answers once, a transaction is accepted once, and of one who sends again and
again a transaction is included once, which is strong fairness, because errors and
expiry come in between. Faults are bounded and never forced. `EventStore`: an
operation on the file ends, well or not. `LiveStream`: timers go off, statistics
are read or given up, what is written to a connection that stays arrives, a
connection to a server that is gone is noticed, and a consumer that tries again
and again reaches the server once (strong, because each attempt may fail).

**Mutants.** An operator `Faulty...` is the operation after it with one
plausible mistake; with it in the operation's place the property its comment
names fails, and only that keeps the property on the list.

### Findings

1. `create_vaults` never writes the recipient's list, so
   `get_vaults_by_recipient`, and the route of the backend that promises "all
   vaults where the address is either the owner or the recipient", miss the
   vaults of a batch.
2. `cancel` of a paused stream counts the pause that is going on as running
   time, and pays the recipient for it; the documentation says the refund is
   computed over active intervals only.
3. After a pause not everything has vested at the end ledger, and `claim` then
   completes the stream regardless. The rest can be paid to nobody any more:
   `tick` and `cancel` refuse a completed stream. The documentation says that
   `resume` moves the end ledger, which would avoid it, and that Completed means
   that all tokens are claimed.
4. `top_up` takes amounts that are no multiple of a swap; the policy ends
   Active, due and unable to swap.
5. The watcher skips every policy, because it expects a list and its client answers with
   the entry: what is due is read in every poll and never executed, which is what the
   README says a keeper is for.

Besides these the code and its documents differ in `MAX_BATCH_SIZE` (50 in the
code, 32 in `docs/src/content/docs/contracts/schedule-vault.md:62`) and in what `tick`
does: it pays what has vested and was not claimed back to the owner, at the end ledger if
there is no grace period, where `recurring-stream.md:97` has it wait until everything is
claimed. `change_recipient` of a split stream changes a recipient that nobody is paid by
and edits the lists all the same: done twice, it takes the stream from the list of somebody
who still has a share, which is why `SplitRecipientIndexed` says who is in the lists and not
that all who are paid are. A pause before the start of a delayed stream counts from where it
began, so `active_ledgers` takes ledgers off that had not started, and the recipient vests
for fewer than the stream was active in: `lib.rs:91-92` says "Number of ledgers the stream
has been active (excluding paused intervals)" and `recurring-stream.md:26` "accrual is
computed over active intervals only". `VestingExact` leaves those streams out; without its
condition on `early` the run `stream` violates it. (`recurring-stream.md:26` and `111` also
say that `resume` extends the end ledger, which it does not, as in finding 3.) A keeper with
a coordinator configured registers and never claims, and `unregister` leaves claims, both
against `docs/architecture/keeper-coordination.md` (see Keepers and KeeperCoordinator above).

## 4. Proofs

`tlapm <module>.tla` proves, for every value of the constants the assumptions of
the modules allow (whatever users, tokens, keepers, amounts, ledgers and bounds there
are):

| module | theorem | statement |
|---|---|---|
| `ScheduleVaultProofs` | `InvariantHolds` | `Spec => []IInv` |
| | `TypeCorrect`, `SolvencyHolds`, `OwnerIndexCorrect`, `RecipientIndexCorrect` | the conjuncts of `IInv` |
| | `NeverStuck` | `Spec => []ActiveHasWayOut` |
| | `WindowRespected` | `Spec => RecipientWindow` |
| | `VaultImplementsEscrow` | `Spec => ImplementsEscrow` |
| `RecurringStreamProofs` | `TypeCorrect`, `Solvent`, `RecipientIndexCorrect`, `SplitIndexCorrect`, `NeverLocked` | `Spec => []TypeOK`, `[]Solvency`, `[]PlainRecipientIndexed`, `[]SplitRecipientIndexed`, `[]CanBeCancelled` |
| | `StreamImplementsDrawdown` | `Spec => ImplementsDrawdown` |
| `StreamHistoryProofs` | `ClaimsEarned`, `VestingCounted` | `HSpec => []ClaimedIsEarned`, `[]VestingExact` |
| `DCAPolicyProofs` | `TypeCorrect`, `Solvent`, `BudgetSpent`, `ExecutionsApart`, `HistoryRead` | `Spec => []TypeOK`, `[]Solvency`, `[]BudgetAccounted`, `[]ExecutionsSpaced`, `[]HistoryPaged` |
| `KeepersProofs` | `CoordinatorTypes`, `SystemTypes`, `ClaimsExclude` | `Spec => []CoordinatorTypeOK`, `SystemSpec => []SystemTypeOK`, `[]ClaimExcludes` |
| | `SystemImplementsPolicies`, `PoliciesHold` | `SystemSpec => D!Spec`, `[](Solvency /\ BudgetAccounted /\ ExecutionsSpaced)` of the contract in the system |
| `EventStoreProofs` | `TypeCorrect`, `NeverTwice`, `HealthyIsSaved` | `Spec => []TypeOK`, `[]NoDuplicates`, `[]KnownIsSaved` |
| | `NothingSavedIsLost` | `Spec => SavedStays` |
| `LiveStreamProofs` | `TypeCorrect`, `PollerRuns`, `ReplayIsExact`, `NothingIsMissed` | `Spec => []TypeOK`, `[]PollsWhileConnected`, `[]ReplayExact`, `[]NothingMissed` |
| `BookkeepingTheorems` | | what sums and lists become |

The assumptions are those the modules name: the contract is no user, those who share
streams and the routers are finitely many, amounts are
integers, ledgers and bounds naturals, `None` is no integer, users, routers and
contract differ, a claim lasts for at least one ledger and no longer than the
coordinator allows, the basis points are a positive number. `MaxI128` may be any
natural number no amount exceeds.

**Sums and lists.** Solvency speaks of a sum over all entries, defined by a recursive
function in `Totals`. The provers know nothing of recursion, so `BookkeepingTheorems`
first shows that there is exactly one sequence of partial sums (by the least number
principle, not by the library's induction theorems, which take an operator as a
parameter), and from it what a sum becomes when one summand changes (`TotalChange`),
when summands are appended (`TotalExtend`), that it covers each summand
(`TotalCovers`) and grows with its summands (`TotalMonotone`). A sum
over a finite set counts its members in an order that nobody knows (`SetToSeq`), and
`TotalByReceiver` says that the order is no matter: what the entries of a list come to is
what its receivers get. Of lists it says what appending to one, taking an id out of it
(`ListsOnceRemove`) and copying it without an id (`WithoutLeaves`) do to what it lists, and
that `FlattenSeq`, a fold of the library, is appending part after part (`FlattenSteps`).

**ScheduleVault.** `IInv` is `TypeOK /\ Solvency /\ OwnerIndexExact /\
RecipientIndexSound`, all four of which TLC checks in the run `vault`. That balances
stay naturals when a vault is settled needs the transfer's guard; that the guard does
not stand in the way, which is `NeverStuck`, needs `Solvency` and `TotalCovers`; the
lists need each other's ids to be ids. Each action has a lemma that it keeps `IInv`.
Settling a vault is `TotalChange`, opening a batch `TotalExtend`, and
`transfer_ownership` the two theorems about lists. *Refinement:* `Escrow` forgets
ledgers, indexes, statuses and the contract's account; the mapping takes a vault to a
deposit that is held, paid or refunded. `StepImplementsEscrow` takes each action to a
step of the escrow (`OpenVaultsIsOpen`, `SettleIsPayout`, `TransferOwnershipIsReassign`),
and pause, resume and the closing of ledgers to nothing (`InvisibleSteps`).

**RecurringStream.** `IInv` is `TypeOK /\ SharesWhole /\ Solvency /\
PlainRecipientIndexed`. `SharesWhole`, that the shares of a split stream make up the
whole, is what the types need: the last share is what is left of an amount, and that
it is not negative follows because shares that are rounded down one by one are
together no more than the amount (`RoundedShares`, from `TotalMonotone`). What an
account is paid is a sum of such portions. `NeverLocked` is about streams whose total
fits when it is multiplied by their duration and by their shares (`Modest`). That nothing
overflows follows because active ledgers are no more than the duration and what is
claimable no more than the total (`ModestFits`, from `ProductGrows`); that the money is
there follows from `Solvency` and `TotalCovers`: the account covers what one stream has
left, since it covers them all.
`SplitRecipientIndexed` is inductive next to `IInv`: what each action does to the lists is
`AppendContains`, `CopiesContains` and `WithoutLeaves`, and no list has an id that was not
given out (`NewIdUnlisted`). *Refinement:* `Drawdown` knows of a stream who owns it, whom it
pays and what is left, and what users have; it forgets rates, ledgers, pauses, indexes and
the contract's account. `StepImplementsDrawdown` takes creation to `Open`, `claim` to `Draw`,
`cancel` and the `tick` that ends a stream to `Close`, and `change_recipient` to `Redirect`;
the rest is invisible. A draw has to reach the payees in full: the portions a payment is
divided into make it up (`PortionsWhole`), and by `TotalByReceiver` the users receive
together what the shares pay (`PaidToAll`), with several shares for one user too. None of
it may return to the contract's own account, which needs an invariant of its own,
`PlainPaysUser`: a stream that is not split pays a user.

**StreamHistory.** Neither property is inductive: they say nothing of a paused stream,
from which the next Active one comes. `Fits` relates a stream to the time it ran:
`Unpaused`, the time up to now or to the pause that is going on, without the
pauses that are over, is the time it ran without the time it was paused early, less
what is left until the start. While a stream runs both sides grow by one; `resume` takes
off exactly what was not run; a pause before the start or over the end is why there are
minima in it. Without early pauses the two sides say that `active_ledgers` is the time
the stream ran (`CountedTime`), which is `VestingExact`. What
`claim` pays is at most the vested part of that time (a division whose remainder is
dropped), which is `ClaimedIsEarned`.

**DCAPolicy.** `Solvency` adds up what policies have left and what routers may still
take. An execution by a router moves an amount from one sum to the other, `RouterTakes`
takes it out of the second. `ExecutionsSpaced` is about records; that the next one is an
interval later is what the contract checks against the policy's `next_execution_ledger`.
The invariant therefore says that policy and records agree on the last execution
(`Times`) and that records are as many as executions (`History`). `HistoryPaged` follows from
`History` in every single state: since no record is missing, page `k` of size `m` is the
records from `1 + (k - 1) m` on (`HistoryPageIs`), and the pages, of which the last ones may be
short or empty, make up the whole (`PagesAreHistory`, by `FlattenSteps`).

**Keepers.** `ClaimExcludes` is about what keepers do. `Claimed` says why it holds: a
keeper that acts within its claim is the one the coordinator has for the policy, and
until no earlier a ledger than the keeper was promised. Another's claim needs the old
one to have run out, and a release takes the holder: so each step of one keeper leaves
what the others were promised (`KeeperMoves`). `PollFits` keeps polls at policies there are.
*Composition:* a transaction in the network is for a policy there is (`SystemTypeOK`), so
its inclusion is an `execute_swap` of the contract or changes nothing; what the owner does
and the closing of a ledger are steps of the contract; nothing else reaches it
(`SystemStep`). So retries, lost answers, crashes and keepers that race for one policy only
choose among the contract's behaviours, and `PoliciesHold` takes over the invariants
proved in `DCAPolicyProofs`, through an instance of that module.

**EventStore.** A write puts into the file what it took from memory before others added
to it, and a load puts into memory what it read before others wrote; so neither
`KnownIsSaved` nor `SavedStays` can be seen from one step. `Chain` relates the three copies
there are in between: memory covers what is being written, what is being written covers
the file (`Covers`: it has every event of the other, or is full), the last write in the queue is of
memory as it is, and as long as nothing was loaded a request that is about to load has read
the file as it is. All of it holds
until two loads overlap (`reloaded`), and types and `NoDuplicates` beyond that.
That no event is listed twice is `AdditionsAreNew`, by induction along the batch.

**LiveStream.** `ReplayExact` compares neighbours in what a client received and has on
its way, and does not say where that ends, so nothing is known of the next event that is
added. `Follows` says it: the ids on the way are the last ones up to some id, and follow
on the one received last (or on a gap). For a client that is connected that id is `Newest`,
the last event that was published and not merely numbered, which is `NothingMissed` too;
what is on its way to another is from an earlier run. That `Join` puts a client in this
state (`FollowsReplay`) is what the filter of the replay computes on a buffer of ids that
follow each other (`AboveOfRecent`, by induction along the buffer); broadcasts and
receptions keep it (`FollowsAppend`, `FollowsReceive`).

Every invariant, action property and refinement that a run expects to hold is proved.

**Model-checked only:** liveness, which is `DueIsExecuted`, `AppendIsAnswered`,
`EventsArrive` and `SubscriberReconnects`. Liveness under fairness and `ENABLED` are out of
the prover's reach. So are the properties of the runs that expect a violation, which do not
hold.

## 5. Not modelled

The vault and stream watchers, polls of one watcher that overlap, a keeper with several
policies in a run, appends to the event store that begin in one tick, the backend's read
routes and middleware (stateless: they simulate a read and pass it on; what
`schedules.js` promises is `RecipientIndexComplete`), the pages of the frontend, the
wallet, configuration, logging, health, metrics, scripts and monitoring (no
protocol of their own). `PROJECT.json` lists them.

What could be added, in this order: two polls of one watcher at a time, with the claims
they take from each other; the three watchers of a keeper and the number they share; the
stream watcher composed with `RecurringStream`, where `tick` and a late `claim` meet.
