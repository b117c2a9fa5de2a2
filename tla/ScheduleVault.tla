--------------------------- MODULE ScheduleVault ----------------------------
(***************************************************************************)
(* The ScheduleVault contract (contract/schedule-vault/src/lib.rs): tokens *)
(* locked until a release ledger.  Each entry point is one action, because *)
(* a Soroban invocation is one transaction: it runs alone, and when it     *)
(* returns an error, panics or a token transfer fails, every write it made *)
(* is rolled back.  A failing call is therefore a stuttering step and has  *)
(* no action.                                                              *)
(*                                                                         *)
(* Authorisation: require_auth names the account that must have signed, so *)
(* in every action below that the code guards with vault.owner             *)
(* .require_auth() the caller IS the current owner.  release has no such   *)
(* guard: anybody (the keeper, in practice) calls it.                      *)
(*                                                                         *)
(* Not in the state: label and created_ledger, which no operation reads,   *)
(* the emitted events, and storage time-to-live.                           *)
(*                                                                         *)
(* An operator named Faulty... is the operation that follows it with one   *)
(* plausible mistake.  No action uses it: put in the operation's place, it *)
(* makes the property named in its comment fail.                           *)
(***************************************************************************)
EXTENDS Integers, Sequences, Totals, Indexes

CONSTANTS
  Users,      \* the accounts that own vaults and are paid by them
  Contract,   \* the account of the contract itself
  Tokens,     \* the assets vaults are made in
  Amounts,    \* the amounts callers ask for, acceptable or not
  ReleaseLedgers, \* the release ledgers callers ask for
  Expiries,   \* the expiry ledgers callers ask for, besides None
  None,       \* Option::None
  Supply,     \* what every user has of every token at first
  MaxBatch,   \* MAX_BATCH_SIZE
  MaxVaults,  \* bound: no more vaults are created than this
  MaxLedger   \* bound: the ledger sequence stops here

ASSUME ContractAssumption == Contract \notin Users
ASSUME AmountsAssumption  == Amounts \subseteq Int
ASSUME LedgersAssumption  == ReleaseLedgers \subseteq Nat /\ Expiries \subseteq Nat
ASSUME NoneAssumption     == None \notin Int
ASSUME SupplyAssumption   == Supply \in Nat
ASSUME BoundsAssumption   == MaxBatch \in Nat /\ MaxVaults \in Nat /\ MaxLedger \in Nat

VARIABLES
  ledger,          \* env.ledger().sequence()
  counter,         \* DataKey::Counter, the last id given out
  vaults,          \* DataKey::Vault(id)
  ownerIndex,      \* DataKey::VaultsByOwner(address)
  recipientIndex,  \* DataKey::VaultsByRecipient(address)
  balance          \* the token contracts: what each account has of each token

vars == <<ledger, counter, vaults, ownerIndex, recipientIndex, balance>>
storage == <<counter, vaults, ownerIndex, recipientIndex>>

Accounts == Users \cup {Contract}
Statuses == {"Active", "Released", "Cancelled", "Paused", "Reclaimed"}

\* What the label checks tell apart: an ordinary label, one with no characters,
\* one of white space only, and one of more than MAX_LABEL_LEN characters.
Labels == {"plain", "empty", "blank", "long"}

VaultEntry ==
  [owner : Users, recipient : Users, token : Tokens, amount : Nat \ {0},
   release_ledger : Nat, expires_after_ledger : Nat \cup {None},
   paused_at_ledger : Nat \cup {None}, status : Statuses]

Ids == 1..counter

-----------------------------------------------------------------------------
(* The token contract, as the vault uses it: a transfer fails, and with it  *)
(* the whole call, when the payer does not have the amount.                 *)

CanTransfer(token, from, amount) == amount <= balance[token][from]

Transfer(token, from, to, amount) ==
  balance' = [balance EXCEPT ![token][from] = @ - amount, ![token][to] = @ + amount]

-----------------------------------------------------------------------------
Init ==
  /\ ledger = 0
  /\ counter = 0
  /\ vaults = <<>>
  /\ ownerIndex = [u \in Users |-> <<>>]
  /\ recipientIndex = [u \in Users |-> <<>>]
  /\ balance = [t \in Tokens |-> [a \in Accounts |-> IF a = Contract THEN 0 ELSE Supply]]

NewVault(owner, recipient, token, amount, release_ledger, expiry) ==
  [owner |-> owner, recipient |-> recipient, token |-> token, amount |-> amount,
   release_ledger |-> release_ledger, expires_after_ledger |-> expiry,
   paused_at_ledger |-> None, status |-> "Active"]

\* Solvency: a batch is charged for one vault.
FaultyOpenVaults(owner, recipients, token, amount, release_ledger, expiry) ==
  LET count == Len(recipients)
      ids   == counter + 1 .. counter + count
  IN  /\ amount > 0
      /\ release_ledger > ledger
      /\ CanTransfer(token, owner, amount)
      /\ Transfer(token, owner, Contract, amount)
      /\ counter' = counter + count
      /\ vaults' = [id \in Ids \cup ids |->
                      IF id \in ids
                      THEN NewVault(owner, recipients[id - counter], token, amount,
                                    release_ledger, expiry)
                      ELSE vaults[id]]
      /\ ownerIndex' = [ownerIndex EXCEPT ![owner] = @ \o [i \in 1..count |-> counter + i]]
      /\ UNCHANGED ledger

\* What create_vault and create_vaults have in common: one new vault per element
\* of recipients, all of them paid for by the owner and entered in the owner's
\* index.  checked_mul on the total cannot fail where the transfer does not, as
\* the owner's balance is an i128 as well.
OpenVaults(owner, recipients, token, amount, release_ledger, expiry) ==
  LET count == Len(recipients)
      ids   == counter + 1 .. counter + count
  IN  /\ amount > 0
      /\ release_ledger > ledger
      /\ CanTransfer(token, owner, amount * count)
      /\ Transfer(token, owner, Contract, amount * count)
      /\ counter' = counter + count
      /\ vaults' = [id \in Ids \cup ids |->
                      IF id \in ids
                      THEN NewVault(owner, recipients[id - counter], token, amount,
                                    release_ledger, expiry)
                      ELSE vaults[id]]
      /\ ownerIndex' = [ownerIndex EXCEPT ![owner] = @ \o [i \in 1..count |-> counter + i]]
      /\ UNCHANGED ledger

\* RecipientIndexSound: the id is pushed on the owner's list a second time.
FaultyCreateVault(owner, recipient, token, amount, release_ledger, label, expiry) ==
  /\ OpenVaults(owner, <<recipient>>, token, amount, release_ledger, expiry)
  /\ label = "plain"
  /\ recipientIndex' = [recipientIndex EXCEPT ![owner] = Append(@, counter + 1)]

CreateVault(owner, recipient, token, amount, release_ledger, label, expiry) ==
  /\ label = "plain"
  /\ expiry # None => expiry > release_ledger
  /\ OpenVaults(owner, <<recipient>>, token, amount, release_ledger, expiry)
  /\ recipientIndex' = [recipientIndex EXCEPT ![recipient] = Append(@, counter + 1)]

\* The batch is entered in the index of its owner and not in those of its
\* recipients, and its vaults never expire.
CreateVaults(owner, recipients, token, amount, release_ledger, label_prefix) ==
  /\ label_prefix # "long"
  /\ recipients # <<>>
  /\ Len(recipients) <= MaxBatch
  /\ OpenVaults(owner, recipients, token, amount, release_ledger, None)
  /\ UNCHANGED recipientIndex

\* The guards of release, cancel and reclaim, and what these three share: the
\* new status is written and the whole amount goes to one account.
\* ActiveHasWayOut: at the release ledger itself the vault is neither cancellable
\* nor releasable.
FaultyCanRelease(id) ==
  /\ vaults[id].status = "Active"
  /\ ledger > vaults[id].release_ledger
  /\ CanTransfer(vaults[id].token, Contract, vaults[id].amount)

CanRelease(id) ==
  /\ vaults[id].status = "Active"
  /\ ledger >= vaults[id].release_ledger
  /\ CanTransfer(vaults[id].token, Contract, vaults[id].amount)

\* RecipientWindow: the owner can still cancel at the release ledger.
FaultyCanCancel(id) ==
  /\ vaults[id].status = "Active"
  /\ ledger <= vaults[id].release_ledger
  /\ CanTransfer(vaults[id].token, Contract, vaults[id].amount)

CanCancel(id) ==
  /\ vaults[id].status = "Active"
  /\ ledger < vaults[id].release_ledger
  /\ CanTransfer(vaults[id].token, Contract, vaults[id].amount)

\* ImplementsEscrow: a vault that was already settled can be reclaimed.
FaultyCanReclaim(id) ==
  /\ vaults[id].expires_after_ledger # None
  /\ ledger > vaults[id].expires_after_ledger
  /\ CanTransfer(vaults[id].token, Contract, vaults[id].amount)

CanReclaim(id) ==
  /\ vaults[id].status = "Active"
  /\ vaults[id].expires_after_ledger # None
  /\ ledger > vaults[id].expires_after_ledger
  /\ CanTransfer(vaults[id].token, Contract, vaults[id].amount)

Settle(id, status, account) ==
  /\ vaults' = [vaults EXCEPT ![id].status = status]
  /\ Transfer(vaults[id].token, Contract, account, vaults[id].amount)
  /\ UNCHANGED <<ledger, counter, ownerIndex, recipientIndex>>

Release(id) == CanRelease(id) /\ Settle(id, "Released", vaults[id].recipient)
Cancel(id)  == CanCancel(id)  /\ Settle(id, "Cancelled", vaults[id].owner)
Reclaim(id) == CanReclaim(id) /\ Settle(id, "Reclaimed", vaults[id].owner)

\* OwnerIndexExact: both lists are read before either is written.
FaultyTransferOwnership(id, new_owner) ==
  LET old_owner == vaults[id].owner
  IN  /\ vaults[id].status = "Active"
      /\ ownerIndex' = [ownerIndex EXCEPT ![old_owner] = RemoveFirst(@, id),
                                         ![new_owner] = Append(ownerIndex[new_owner], id)]
      /\ vaults' = [vaults EXCEPT ![id].owner = new_owner]
      /\ UNCHANGED <<ledger, counter, recipientIndex, balance>>

\* The id leaves the old owner's list before it enters the new one's, which
\* may be the same list.
TransferOwnership(id, new_owner) ==
  LET old_owner == vaults[id].owner
      without   == [ownerIndex EXCEPT ![old_owner] = RemoveFirst(@, id)]
  IN  /\ vaults[id].status = "Active"
      /\ ownerIndex' = [without EXCEPT ![new_owner] = Append(@, id)]
      /\ vaults' = [vaults EXCEPT ![id].owner = new_owner]
      /\ UNCHANGED <<ledger, counter, recipientIndex, balance>>

\* There is no guard on the ledger: an owner can pause a vault that is already
\* due, as long as nobody has released it.
Pause(id) ==
  /\ vaults[id].status = "Active"
  /\ vaults' = [vaults EXCEPT ![id].status = "Paused", ![id].paused_at_ledger = ledger]
  /\ UNCHANGED <<ledger, counter, ownerIndex, recipientIndex, balance>>

\* TypeOK: paused_at_ledger survives the pause.
FaultyResume(id) ==
  /\ vaults[id].status = "Paused"
  /\ vaults' = [vaults EXCEPT ![id].status = "Active"]
  /\ UNCHANGED <<ledger, counter, ownerIndex, recipientIndex, balance>>

Resume(id) ==
  /\ vaults[id].status = "Paused"
  /\ vaults' = [vaults EXCEPT ![id].status = "Active", ![id].paused_at_ledger = None]
  /\ UNCHANGED <<ledger, counter, ownerIndex, recipientIndex, balance>>

\* The network closes a ledger.
CloseLedger ==
  /\ ledger < MaxLedger
  /\ ledger' = ledger + 1
  /\ UNCHANGED <<storage, balance>>

-----------------------------------------------------------------------------
(* A batch has from no recipients to one too many.                          *)

Batches == UNION {[1..n -> Users] : n \in 0..MaxBatch + 1}

Create ==
  \E owner \in Users, token \in Tokens, amount \in Amounts,
     release_ledger \in ReleaseLedgers, label \in Labels :
    \/ /\ counter < MaxVaults
       /\ \E recipient \in Users, expiry \in Expiries \cup {None} :
            CreateVault(owner, recipient, token, amount, release_ledger, label, expiry)
    \/ \E recipients \in Batches :
         /\ counter + Len(recipients) <= MaxVaults
         /\ CreateVaults(owner, recipients, token, amount, release_ledger, label)

Next ==
  \/ CloseLedger
  \/ Create
  \/ \E id \in Ids :
        \/ Release(id)
        \/ Cancel(id)
        \/ Reclaim(id)
        \/ Pause(id)
        \/ Resume(id)
        \/ \E new_owner \in Users : TransferOwnership(id, new_owner)

Spec == Init /\ [][Next]_vars

-----------------------------------------------------------------------------
(* Properties *)

\* Every variable has its type; the ids given out are exactly those stored; a
\* vault has a pause ledger exactly while it is paused.
TypeOK ==
  /\ ledger \in Nat
  /\ counter \in Nat
  /\ vaults \in [Ids -> VaultEntry]
  /\ ownerIndex \in [Users -> Seq(Ids)]
  /\ recipientIndex \in [Users -> Seq(Ids)]
  /\ balance \in [Tokens -> [Accounts -> Nat]]
  /\ \A id \in Ids : vaults[id].status = "Paused" <=> vaults[id].paused_at_ledger # None

Held(id) == vaults[id].status \in {"Active", "Paused"}
Owed(token) ==
  [id \in Ids |-> IF Held(id) /\ vaults[id].token = token THEN vaults[id].amount ELSE 0]

\* The contract's account has, of every token, exactly what the vaults that are
\* neither released nor given back add up to.  No order of create, batch,
\* pause, transfer_ownership and the three ways out leaves one vault to be
\* paid with another's money, or money that belongs to no vault.
Solvency ==
  \A token \in Tokens : balance[token][Contract] = Total(Owed(token), counter)

OwnedBy(u)  == {id \in Ids : vaults[id].owner = u}
PayableTo(u) == {id \in Ids : vaults[id].recipient = u}

\* VaultsByOwner is the inverse of vault.owner whatever was transferred, and to
\* whom: a vault is listed once by its current owner and by nobody else.
OwnerIndexExact ==
  \A u \in Users : ListsOnce(ownerIndex[u], OwnedBy(u))

\* VaultsByRecipient never lists a vault that pays somebody else, nor one twice.
RecipientIndexSound ==
  \A u \in Users : \E S \in SUBSET PayableTo(u) : ListsOnce(recipientIndex[u], S)

\* What get_vaults_by_recipient is read for: no vault that pays a user is
\* missing from that user's list.  create_vaults does not keep it.
RecipientIndexComplete ==
  \A u \in Users : PayableTo(u) \subseteq Range(recipientIndex[u])

\* An Active vault is never stuck: at every ledger either cancel or release
\* passes all its checks, the token transfer out of the contract included.
ActiveHasWayOut ==
  \A id \in Ids : vaults[id].status = "Active" => CanRelease(id) \/ CanCancel(id)

\* The recipient's window: from the release ledger until the expiry, or for
\* ever when there is none, no call sends a held vault's money back, and
\* before the release ledger none sends it to the recipient.
RecipientWindow ==
  [][\A id \in Ids :
       LET v == vaults[id]
           due == ledger >= v.release_ledger
           expired == v.expires_after_ledger # None /\ ledger > v.expires_after_ledger
       IN  Held(id) =>
             /\ vaults'[id].status \in {"Cancelled", "Reclaimed"} => ~due \/ expired
             /\ vaults'[id].status = "Released" => due]_vars

\* The escrow this contract implements: deposits are the vaults, the wallets
\* are what the users have outside the contract.
EscrowState(status) ==
  CASE status = "Released" -> "paid"
    [] status \in {"Cancelled", "Reclaimed"} -> "refunded"
    [] OTHER -> "held"

EscrowDeposits ==
  [id \in Ids |-> [owner |-> vaults[id].owner, payee |-> vaults[id].recipient,
                   token |-> vaults[id].token, amount |-> vaults[id].amount,
                   state |-> EscrowState(vaults[id].status)]]

EscrowWallets == [t \in Tokens |-> [u \in Users |-> balance[t][u]]]

E == INSTANCE Escrow WITH deposits <- EscrowDeposits, wallet <- EscrowWallets

\* Whatever the contract does to its vaults, its indexes and its own account,
\* each vault's money is given out once and whole, to its recipient or to the
\* owner of that moment.
ImplementsEscrow == E!Spec

=============================================================================
