------------------------ MODULE ScheduleVaultProofs -------------------------
(***************************************************************************)
(* Theorems about ScheduleVault, for every set of users, tokens and        *)
(* amounts, every supply and every bound.                                  *)
(*                                                                         *)
(* The invariant of TLC's runs is inductive only as a whole: the type of   *)
(* the owner index after transfer_ownership needs OwnerIndexExact (the id  *)
(* taken out is really there), and the type of the balances after a        *)
(* payout needs the guard of the token transfer.  Solvency is about a sum  *)
(* over all vaults; BookkeepingTheorems says how it changes when one is    *)
(* settled and when a batch is added.                                      *)
(***************************************************************************)
EXTENDS ScheduleVault, BookkeepingTheorems

IInv == TypeOK /\ Solvency /\ OwnerIndexExact /\ RecipientIndexSound

USE ContractAssumption, AmountsAssumption, LedgersAssumption, NoneAssumption,
    SupplyAssumption, BoundsAssumption

-----------------------------------------------------------------------------
(* The parts actions are made of *)

\* A transfer moves the amount between two accounts of one token and touches
\* no other balance.
LEMMA TransferEffect ==
  ASSUME balance \in [Tokens -> [Accounts -> Nat]],
         NEW token \in Tokens, NEW from \in Accounts, NEW to \in Accounts, from # to,
         NEW amount \in Nat, CanTransfer(token, from, amount),
         Transfer(token, from, to, amount)
  PROVE  /\ balance' \in [Tokens -> [Accounts -> Nat]]
         /\ balance'[token][from] = balance[token][from] - amount
         /\ balance'[token][to] = balance[token][to] + amount
         /\ \A t \in Tokens, a \in Accounts :
              t # token \/ a \notin {from, to} => balance'[t][a] = balance[t][a]
<1>1. balance[token][from] - amount \in Nat /\ balance[token][to] + amount \in Nat
  BY DEF CanTransfer
<1> QED
  BY <1>1 DEF Transfer

\* What an owed sum is made of: natural numbers, and of an Active vault's own
\* token its whole amount.
LEMMA OwedType ==
  ASSUME TypeOK, NEW token \in Tokens
  PROVE  \A id \in 1..counter :
           /\ Owed(token)[id] \in Nat
           /\ Owed(token)[id] =
                IF Held(id) /\ vaults[id].token = token THEN vaults[id].amount ELSE 0
BY DEF TypeOK, VaultEntry, Owed, Ids

\* The vaults after an opening: the old ones, and the new ones behind them.
LEMMA OpenVaultsEffect ==
  ASSUME TypeOK,
         NEW owner \in Users, NEW recipients \in Seq(Users), NEW token \in Tokens,
         NEW amount \in Amounts, NEW release_ledger \in Nat, NEW expiry \in Nat \cup {None},
         OpenVaults(owner, recipients, token, amount, release_ledger, expiry)
  PROVE  /\ amount \in Nat \ {0}
         /\ counter' = counter + Len(recipients)
         /\ counter' \in Nat /\ Len(recipients) \in Nat
         /\ vaults' \in [Ids' -> VaultEntry]
         /\ \A id \in Ids : vaults'[id] = vaults[id]
         /\ \A id \in counter + 1 .. counter' :
              /\ id - counter \in 1..Len(recipients)
              /\ vaults'[id] = NewVault(owner, recipients[id - counter], token, amount,
                                        release_ledger, expiry)
<1>1. amount \in Nat \ {0}
  BY DEF OpenVaults
<1>2. Len(recipients) \in Nat /\ counter \in Nat /\ counter' = counter + Len(recipients)
  BY DEF OpenVaults, TypeOK
<1> DEFINE new(id) == NewVault(owner, recipients[id - counter], token, amount,
                               release_ledger, expiry)
           ids == counter + 1 .. counter + Len(recipients)
<1>3. ASSUME NEW id \in ids
      PROVE  id - counter \in 1..Len(recipients) /\ new(id) \in VaultEntry
  <2>1. id - counter \in 1..Len(recipients)
    BY <1>2
  <2>2. recipients[id - counter] \in Users
    BY <2>1
  <2> QED
    BY <1>1, <2>1, <2>2 DEF NewVault, VaultEntry, Statuses
<1>4. vaults' = [id \in Ids \cup ids |-> IF id \in ids THEN new(id) ELSE vaults[id]]
  BY DEF OpenVaults
<1>5. Ids' = Ids \cup ids /\ Ids \cap ids = {}
  BY <1>2 DEF Ids
<1>6. ASSUME NEW id \in Ids
      PROVE  vaults'[id] = vaults[id]
  BY <1>4, <1>5
<1>7. ASSUME NEW id \in ids
      PROVE  vaults'[id] = new(id)
  BY <1>4
<1>8. vaults' \in [Ids' -> VaultEntry]
  <2>1. ASSUME NEW id \in Ids'
        PROVE  (IF id \in ids THEN new(id) ELSE vaults[id]) \in VaultEntry
    BY <1>3, <1>5 DEF TypeOK
  <2> HIDE DEF new
  <2> QED
    BY <1>4, <1>5, <2>1
<1> QED
  BY <1>1, <1>2, <1>3, <1>6, <1>7, <1>8

-----------------------------------------------------------------------------
(* The initial state *)

\* Nothing is listed in an empty index.
LEMMA EmptyIndex == ListsOnce(<<>>, {})
BY DEF ListsOnce, IsInjective, Range

\* An index lists no id that was not given out, whatever else changes.
LEMMA IndexWidens ==
  ASSUME TypeOK, counter' \in Nat, counter' >= counter
  PROVE  ownerIndex \in [Users -> Seq(Ids')] /\ recipientIndex \in [Users -> Seq(Ids')]
<1>1. Ids \subseteq Ids'
  BY DEF Ids, TypeOK
<1>2. Seq(Ids) \subseteq Seq(Ids')
  BY <1>1
<1> QED
  BY <1>2 DEF TypeOK

\* The invariant holds of the contract that was just deployed.
LEMMA InitInv == Init => IInv
<1> SUFFICES ASSUME Init PROVE IInv
  OBVIOUS
<1>1. counter = 0 /\ Ids = {}
  BY DEF Init, Ids
<1>2. TypeOK
  <2>1. Contract \in Accounts
    BY DEF Accounts
  <2>2. vaults \in [Ids -> VaultEntry]
    BY <1>1 DEF Init
  <2>3. ownerIndex \in [Users -> Seq(Ids)] /\ recipientIndex \in [Users -> Seq(Ids)]
    BY DEF Init
  <2>4. balance \in [Tokens -> [Accounts -> Nat]]
    BY DEF Init
  <2> QED
    BY <1>1, <2>2, <2>3, <2>4 DEF Init, TypeOK
<1>3. Solvency
  <2>1. ASSUME NEW token \in Tokens
        PROVE  balance[token][Contract] = 0 /\ Total(Owed(token), counter) = 0
    <3>1. Total(Owed(token), 0) = 0
      BY TotalRecursion
    <3> QED
      BY <1>1, <3>1 DEF Init, Accounts
  <2> QED
    BY <2>1 DEF Solvency
<1>4. OwnerIndexExact /\ RecipientIndexSound
  <2>1. ASSUME NEW u \in Users
        PROVE  /\ OwnedBy(u) = {} /\ ownerIndex[u] = <<>> /\ recipientIndex[u] = <<>>
               /\ {} \in SUBSET PayableTo(u)
    BY <1>1 DEF Init, OwnedBy
  <2> QED
    BY <2>1, EmptyIndex DEF OwnerIndexExact, RecipientIndexSound
<1> QED
  BY <1>2, <1>3, <1>4 DEF IInv

-----------------------------------------------------------------------------
(* Opening vaults *)

\* The new vaults owe what the owner was charged for them.
LEMMA OpenVaultsSolvent ==
  ASSUME TypeOK, Solvency,
         NEW owner \in Users, NEW recipients \in Seq(Users), NEW token \in Tokens,
         NEW amount \in Amounts, NEW release_ledger \in Nat, NEW expiry \in Nat \cup {None},
         OpenVaults(owner, recipients, token, amount, release_ledger, expiry)
  PROVE  Solvency' /\ balance' \in [Tokens -> [Accounts -> Nat]]
<1> DEFINE count == Len(recipients)
<1>1. /\ amount \in Nat \ {0}
      /\ counter' = counter + count /\ counter' \in Nat /\ count \in Nat
      /\ \A id \in Ids : vaults'[id] = vaults[id]
      /\ \A id \in counter + 1 .. counter' :
           /\ id - counter \in 1..count
           /\ vaults'[id] = NewVault(owner, recipients[id - counter], token, amount,
                                     release_ledger, expiry)
  BY OpenVaultsEffect
<1>2. amount * count \in Nat
  BY <1>1
<1>3. owner \in Accounts /\ Contract \in Accounts /\ owner # Contract
  BY DEF Accounts
<1>4. /\ balance' \in [Tokens -> [Accounts -> Nat]]
      /\ balance'[token][Contract] = balance[token][Contract] + amount * count
      /\ \A t \in Tokens, a \in Accounts :
           t # token => balance'[t][a] = balance[t][a]
  <2>1. /\ CanTransfer(token, owner, amount * count)
        /\ Transfer(token, owner, Contract, amount * count)
        /\ balance \in [Tokens -> [Accounts -> Nat]]
    BY DEF OpenVaults, TypeOK
  <2> HIDE DEF count
  <2> QED
    BY <1>2, <1>3, <2>1, TransferEffect
<1>5. ASSUME NEW t \in Tokens
      PROVE  balance'[t][Contract] = Total(Owed(t)', counter')
  <2> DEFINE a == IF t = token THEN amount ELSE 0
             f == Owed(t)
             g == Owed(t)'
  <2>1. \A i \in 1..counter : f[i] \in Nat
    BY OwedType
  <2>2. \A i \in 1..counter : g[i] = f[i]
    BY <1>1 DEF Owed, Held, Ids, TypeOK
  <2>3. ASSUME NEW i \in counter + 1 .. counter'
        PROVE  g[i] = a
    <3>1. vaults'[i].status = "Active" /\ vaults'[i].token = token /\ vaults'[i].amount = amount
      <4>1. vaults'[i] = NewVault(owner, recipients[i - counter], token, amount,
                                  release_ledger, expiry)
        BY <1>1, Zenon
      <4> QED
        BY <4>1 DEF NewVault
    <3>2. i \in Ids'
      BY <1>1 DEF TypeOK, Ids
    <3>3. g[i] = IF Held(i)' /\ vaults'[i].token = t THEN vaults'[i].amount ELSE 0
      BY <3>2 DEF Owed
    <3> QED
      BY <3>1, <3>3 DEF Held
  <2>4. ASSUME NEW i \in 1..counter'
        PROVE  g[i] \in Int
    <3>1. i \in 1..counter \/ i \in counter + 1 .. counter'
      BY <1>1 DEF TypeOK
    <3>2. CASE i \in 1..counter
      <4> HIDE DEF f, g
      <4> QED
        BY <2>1, <2>2, <3>2
    <3>3. CASE i \in counter + 1 .. counter'
      BY <1>1, <2>3, <3>3
    <3> QED
      BY <3>1, <3>2, <3>3
  <2>5. counter \in 0..counter' /\ a \in Int /\ counter \in Nat /\ counter' - counter = count
    BY <1>1 DEF TypeOK
  <2> HIDE DEF f, g, a, count
  <2>6. Total(g, counter') = Total(g, counter) + a * (counter' - counter)
    BY <1>1, <2>3, <2>4, <2>5, TotalExtend
  <2>7. Total(g, counter) = Total(f, counter)
    <3>1. \A i \in 1..counter : f[i] \in Int
      BY <2>1
    <3> QED
      BY <2>2, <2>5, <3>1, TotalSame
  <2>8. balance[t][Contract] = Total(f, counter)
    BY DEF Solvency, f
  <2>9. balance'[t][Contract] = balance[t][Contract] + a * count
    <3>1. CASE t = token
      BY <1>4, <3>1 DEF a
    <3>2. CASE t # token
      <4>1. balance[t][Contract] \in Nat /\ a * count = 0
        BY <1>1, <1>3, <3>2 DEF a, TypeOK
      <4> QED
        BY <1>3, <1>4, <3>2, <4>1
    <3> QED
      BY <3>1, <3>2
  <2>10. balance'[t][Contract] = Total(g, counter')
    BY <2>5, <2>6, <2>7, <2>8, <2>9
  <2> QED
    BY <2>10 DEF g
<1> QED
  BY <1>4, <1>5 DEF Solvency

\* The new ids go to the end of the owner's list, and the owner owns them.
LEMMA OpenVaultsOwnerIndex ==
  ASSUME TypeOK, OwnerIndexExact,
         NEW owner \in Users, NEW recipients \in Seq(Users), NEW token \in Tokens,
         NEW amount \in Amounts, NEW release_ledger \in Nat, NEW expiry \in Nat \cup {None},
         OpenVaults(owner, recipients, token, amount, release_ledger, expiry)
  PROVE  OwnerIndexExact' /\ ownerIndex' \in [Users -> Seq(Ids')]
<1> DEFINE count == Len(recipients)
           new == counter + 1 .. counter'
           newList == [i \in 1..count |-> counter + i]
<1>1. /\ counter' = counter + count /\ counter' \in Nat /\ count \in Nat
      /\ \A id \in Ids : vaults'[id] = vaults[id]
      /\ \A id \in new : vaults'[id].owner = owner
  <2>1. /\ counter' = counter + count /\ counter' \in Nat /\ count \in Nat
        /\ \A id \in Ids : vaults'[id] = vaults[id]
        /\ \A id \in new :
             vaults'[id] = NewVault(owner, recipients[id - counter], token, amount,
                                    release_ledger, expiry)
    BY OpenVaultsEffect
  <2>2. ASSUME NEW id \in new
        PROVE  vaults'[id].owner = owner
    <3>1. vaults'[id] = NewVault(owner, recipients[id - counter], token, amount,
                                 release_ledger, expiry)
      BY <2>1, Zenon
    <3> QED
      BY <3>1 DEF NewVault
  <2> QED
    BY <2>1, <2>2
<1>2. counter \in Nat /\ Ids' = Ids \cup new /\ Ids \cap new = {}
  BY <1>1 DEF TypeOK, Ids
<1>3. newList \in Seq(Ids') /\ ListsOnce(newList, new)
  <2>1. \A i \in 1..count : counter + i \in new /\ counter + i \in Ids'
    BY <1>1, <1>2
  <2>2. newList \in Seq(Ids') /\ DOMAIN newList = 1..count
    BY <1>1, <2>1
  <2>3. \A i, j \in 1..count : newList[i] = newList[j] => i = j
    BY <1>1, <1>2
  <2>4. ASSUME NEW id \in new
        PROVE  \E i \in 1..count : newList[i] = id
    <3>1. id - counter \in 1..count /\ counter + (id - counter) = id
      BY <1>1, <1>2
    <3> QED
      BY <3>1
  <2>5. \A i \in 1..count : newList[i] \in new
    BY <2>1
  <2> HIDE DEF newList, new, count
  <2> QED
    BY <2>2, <2>3, <2>4, <2>5 DEF ListsOnce, IsInjective, Range
<1>4. ownerIndex' = [ownerIndex EXCEPT ![owner] = @ \o newList]
  BY DEF OpenVaults
<1>5. ownerIndex \in [Users -> Seq(Ids')]
  BY <1>1, <1>2, IndexWidens
<1>6. ASSUME NEW u \in Users
      PROVE  ListsOnce(ownerIndex'[u], OwnedBy(u)') /\ ownerIndex'[u] \in Seq(Ids')
  <2>1. ListsOnce(ownerIndex[u], OwnedBy(u)) /\ ownerIndex[u] \in Seq(Ids')
    BY <1>5 DEF OwnerIndexExact
  <2>2. CASE u = owner
    <3>1. OwnedBy(u)' = OwnedBy(u) \cup new /\ OwnedBy(u) \cap new = {}
      BY <1>1, <1>2, <2>2 DEF OwnedBy
    <3>2. ownerIndex'[u] = ownerIndex[u] \o newList
      BY <1>4, <1>5, <2>2
    <3> HIDE DEF newList, new
    <3>3. /\ ownerIndex[u] \o newList \in Seq(Ids')
          /\ ListsOnce(ownerIndex[u] \o newList, OwnedBy(u) \cup new)
      BY <1>3, <2>1, <3>1, ListsOnceConcat, Zenon
    <3> QED
      BY <3>1, <3>2, <3>3
  <2>3. CASE u # owner
    <3>1. OwnedBy(u)' = OwnedBy(u)
      BY <1>1, <1>2, <2>3 DEF OwnedBy
    <3>2. ownerIndex'[u] = ownerIndex[u]
      BY <1>4, <1>5, <2>3
    <3> QED
      BY <2>1, <3>1, <3>2
  <2> QED
    BY <2>2, <2>3
<1> QED
  <2>1. DOMAIN ownerIndex' = Users /\ ownerIndex' = [u \in Users |-> ownerIndex'[u]]
    BY <1>4, <1>5
  <2>2. ownerIndex' \in [Users -> Seq(Ids')]
    BY <1>6, <2>1
  <2> QED
    BY <1>6, <2>2 DEF OwnerIndexExact

\* A vault that is opened is Active and not paused.
LEMMA OpenVaultsType ==
  ASSUME TypeOK, OwnerIndexExact, Solvency,
         NEW owner \in Users, NEW recipients \in Seq(Users), NEW token \in Tokens,
         NEW amount \in Amounts, NEW release_ledger \in Nat, NEW expiry \in Nat \cup {None},
         OpenVaults(owner, recipients, token, amount, release_ledger, expiry),
         recipientIndex' \in [Users -> Seq(Ids')]
  PROVE  TypeOK'
<1>1. /\ counter' \in Nat /\ vaults' \in [Ids' -> VaultEntry]
      /\ \A id \in Ids : vaults'[id] = vaults[id]
      /\ \A id \in counter + 1 .. counter' :
           vaults'[id] = NewVault(owner, recipients[id - counter], token, amount,
                                  release_ledger, expiry)
  BY OpenVaultsEffect
<1>2. ownerIndex' \in [Users -> Seq(Ids')]
  BY OpenVaultsOwnerIndex
<1>3. balance' \in [Tokens -> [Accounts -> Nat]]
  BY OpenVaultsSolvent
<1>4. ledger' \in Nat
  BY DEF OpenVaults, TypeOK
<1>5. ASSUME NEW id \in Ids'
      PROVE  vaults'[id].status = "Paused" <=> vaults'[id].paused_at_ledger # None
  <2>1. CASE id \in Ids
    BY <1>1, <2>1 DEF TypeOK
  <2>2. CASE id \notin Ids
    <3>1. id \in counter + 1 .. counter'
      BY <1>1, <2>2 DEF Ids, TypeOK
    <3>2. vaults'[id] = NewVault(owner, recipients[id - counter], token, amount,
                                 release_ledger, expiry)
      BY <1>1, <3>1, Zenon
    <3> QED
      BY <3>2 DEF NewVault
  <2> QED
    BY <2>1, <2>2
<1> QED
  BY <1>1, <1>2, <1>3, <1>4, <1>5 DEF TypeOK

\* Who is paid by what, after an opening: nobody loses a vault.
LEMMA OpenVaultsPayable ==
  ASSUME TypeOK,
         NEW owner \in Users, NEW recipients \in Seq(Users), NEW token \in Tokens,
         NEW amount \in Amounts, NEW release_ledger \in Nat, NEW expiry \in Nat \cup {None},
         OpenVaults(owner, recipients, token, amount, release_ledger, expiry)
  PROVE  \A u \in Users : PayableTo(u) \subseteq PayableTo(u)'
<1>1. /\ counter' = counter + Len(recipients) /\ Len(recipients) \in Nat
      /\ \A id \in Ids : vaults'[id] = vaults[id]
  BY OpenVaultsEffect
<1> QED
  BY <1>1 DEF PayableTo, Ids, TypeOK

\* create_vault: the one new id is listed for the recipient it pays.
LEMMA CreateVaultKeepsInv ==
  ASSUME IInv,
         NEW owner \in Users, NEW recipient \in Users, NEW token \in Tokens,
         NEW amount \in Amounts, NEW release_ledger \in ReleaseLedgers, NEW label,
         NEW expiry \in Expiries \cup {None},
         CreateVault(owner, recipient, token, amount, release_ledger, label, expiry)
  PROVE  IInv'
<1> DEFINE id == counter + 1
           one == <<recipient>>
<1>1. /\ OpenVaults(owner, one, token, amount, release_ledger, expiry)
      /\ recipientIndex' = [recipientIndex EXCEPT ![recipient] = Append(@, id)]
  BY DEF CreateVault
<1>2. /\ one \in Seq(Users) /\ Len(one) = 1 /\ one[1] = recipient
      /\ release_ledger \in Nat /\ expiry \in Nat \cup {None}
  OBVIOUS
<1>3. TypeOK /\ Solvency /\ OwnerIndexExact /\ RecipientIndexSound
  BY DEF IInv
<1> HIDE DEF one
<1>4. Solvency'
  BY <1>1, <1>2, <1>3, OpenVaultsSolvent
<1>5. OwnerIndexExact'
  BY <1>1, <1>2, <1>3, OpenVaultsOwnerIndex
<1>6. counter \in Nat /\ counter' = counter + 1 /\ Ids' = Ids \cup {id} /\ id \notin Ids
  <2>1. counter' = counter + 1
    BY <1>1, <1>2, <1>3, OpenVaultsEffect
  <2> QED
    BY <1>3, <2>1 DEF Ids, TypeOK
<1>7. vaults'[id].recipient = recipient
  <2>1. /\ id \in counter + 1 .. counter'
        /\ \A i \in counter + 1 .. counter' :
              vaults'[i] = NewVault(owner, one[i - counter], token, amount,
                                    release_ledger, expiry)
    BY <1>1, <1>2, <1>3, <1>6, OpenVaultsEffect
  <2>2. id - counter = 1
    BY <1>6
  <2>3. vaults'[id] = NewVault(owner, one[1], token, amount, release_ledger, expiry)
    BY <2>1, <2>2
  <2> QED
    BY <1>2, <2>3 DEF NewVault
<1>8. recipientIndex \in [Users -> Seq(Ids')]
  BY <1>3, <1>6, IndexWidens
<1>9. ASSUME NEW u \in Users
      PROVE  /\ recipientIndex'[u] \in Seq(Ids')
             /\ \E S \in SUBSET PayableTo(u)' : ListsOnce(recipientIndex'[u], S)
  <2>1. PICK S \in SUBSET PayableTo(u) : ListsOnce(recipientIndex[u], S)
    BY <1>3 DEF RecipientIndexSound
  <2>2. S \subseteq PayableTo(u)'
    BY <1>1, <1>2, <1>3, <2>1, OpenVaultsPayable
  <2>3. CASE u = recipient
    <3>1. id \notin S /\ id \in Ids' /\ S \cup {id} \subseteq PayableTo(u)'
      BY <1>6, <1>7, <2>2, <2>3 DEF PayableTo
    <3>2. recipientIndex[u] \in Seq(Ids') /\ recipientIndex'[u] = Append(recipientIndex[u], id)
      BY <1>1, <1>8, <2>3
    <3> HIDE DEF id
    <3>3. /\ Append(recipientIndex[u], id) \in Seq(Ids')
          /\ ListsOnce(Append(recipientIndex[u], id), S \cup {id})
      BY <2>1, <3>1, <3>2, ListsOnceAppend, Zenon
    <3> QED
      BY <3>1, <3>2, <3>3
  <2>4. CASE u # recipient
    BY <1>1, <1>8, <2>1, <2>2, <2>4
  <2> QED
    BY <2>3, <2>4
<1>10. recipientIndex' \in [Users -> Seq(Ids')]
  <2>1. recipientIndex' = [u \in Users |-> recipientIndex'[u]]
    BY <1>1, <1>8
  <2> QED
    BY <1>9, <2>1
<1>11. RecipientIndexSound'
  BY <1>9 DEF RecipientIndexSound
<1>12. TypeOK'
  BY <1>1, <1>2, <1>3, <1>10, OpenVaultsType
<1> QED
  BY <1>4, <1>5, <1>11, <1>12 DEF IInv

\* create_vaults: the lists of the recipients stay as they are.
LEMMA CreateVaultsKeepsInv ==
  ASSUME IInv,
         NEW owner \in Users, NEW recipients \in Batches, NEW token \in Tokens,
         NEW amount \in Amounts, NEW release_ledger \in ReleaseLedgers, NEW label,
         CreateVaults(owner, recipients, token, amount, release_ledger, label)
  PROVE  IInv'
<1>1. /\ OpenVaults(owner, recipients, token, amount, release_ledger, None)
      /\ UNCHANGED recipientIndex
  BY DEF CreateVaults
<1>2. recipients \in Seq(Users) /\ release_ledger \in Nat /\ None \in Nat \cup {None}
  <2>1. PICK n \in 0..MaxBatch + 1 : recipients \in [1..n -> Users]
    BY DEF Batches
  <2> QED
    BY <2>1
<1>3. TypeOK /\ Solvency /\ OwnerIndexExact /\ RecipientIndexSound
  BY DEF IInv
<1>4. Solvency'
  BY <1>1, <1>2, <1>3, OpenVaultsSolvent
<1>5. OwnerIndexExact'
  BY <1>1, <1>2, <1>3, OpenVaultsOwnerIndex
<1>6. counter' \in Nat /\ counter' >= counter
  <2>1. counter' = counter + Len(recipients) /\ Len(recipients) \in Nat /\ counter' \in Nat
    BY <1>1, <1>2, <1>3, OpenVaultsEffect
  <2> QED
    BY <1>3, <2>1 DEF TypeOK
<1>7. recipientIndex' \in [Users -> Seq(Ids')]
  BY <1>1, <1>3, <1>6, IndexWidens
<1>8. RecipientIndexSound'
  <2>1. \A u \in Users : PayableTo(u) \subseteq PayableTo(u)'
    BY <1>1, <1>2, <1>3, OpenVaultsPayable
  <2> QED
    BY <1>1, <1>3, <2>1 DEF RecipientIndexSound
<1>9. TypeOK'
  BY <1>1, <1>2, <1>3, <1>7, OpenVaultsType
<1> QED
  BY <1>4, <1>5, <1>8, <1>9 DEF IInv

-----------------------------------------------------------------------------
(* Settling a vault *)

\* The vault is no longer owed, the contract no longer has its amount, and
\* who owns and is paid by what is as before.
LEMMA SettleKeepsInv ==
  ASSUME IInv, NEW id \in Ids, vaults[id].status = "Active",
         CanTransfer(vaults[id].token, Contract, vaults[id].amount),
         NEW status \in {"Released", "Cancelled", "Reclaimed"},
         NEW account \in Users, Settle(id, status, account)
  PROVE  IInv'
<1> DEFINE v == vaults[id]
<1>1. TypeOK /\ Solvency /\ OwnerIndexExact /\ RecipientIndexSound
  BY DEF IInv
<1>2. /\ vaults' = [vaults EXCEPT ![id].status = status]
      /\ Transfer(v.token, Contract, account, v.amount)
      /\ UNCHANGED <<ledger, counter, ownerIndex, recipientIndex>>
  BY DEF Settle
<1>3. v \in VaultEntry /\ v.token \in Tokens /\ v.amount \in Nat \ {0} /\ v.paused_at_ledger = None
  BY <1>1 DEF TypeOK, VaultEntry
<1>4. /\ vaults' \in [Ids -> VaultEntry]
      /\ \A i \in Ids : i # id => vaults'[i] = vaults[i]
      /\ vaults'[id] = [v EXCEPT !.status = status]
  BY <1>1, <1>2, <1>3 DEF TypeOK, VaultEntry, Statuses
<1>5. Ids' = Ids
  BY <1>2 DEF Ids
<1>6. /\ balance' \in [Tokens -> [Accounts -> Nat]]
      /\ balance'[v.token][Contract] = balance[v.token][Contract] - v.amount
      /\ \A t \in Tokens : t # v.token => balance'[t][Contract] = balance[t][Contract]
  <2>1. Contract \in Accounts /\ account \in Accounts /\ Contract # account
    BY DEF Accounts
  <2>2. balance \in [Tokens -> [Accounts -> Nat]]
    BY <1>1 DEF TypeOK
  <2> HIDE DEF v
  <2>3. v.amount \in Nat /\ v.token \in Tokens /\ CanTransfer(v.token, Contract, v.amount)
    BY <1>3 DEF v
  <2> QED
    BY <1>2, <2>1, <2>2, <2>3, TransferEffect
<1>7. TypeOK'
  <2>1. vaults'[id].status # "Paused" /\ vaults'[id].paused_at_ledger = None
    <3>1. v.status = "Active" /\ v.paused_at_ledger = None
      BY <1>1, <1>3 DEF TypeOK
    <3> QED
      BY <1>3, <1>4, <3>1 DEF VaultEntry
  <2>2. \A i \in Ids : vaults'[i].status = "Paused" <=> vaults'[i].paused_at_ledger # None
    BY <1>1, <1>4, <2>1 DEF TypeOK
  <2> QED
    BY <1>1, <1>2, <1>4, <1>5, <1>6, <2>2 DEF TypeOK
<1>8. Solvency'
  <2>1. ASSUME NEW t \in Tokens
        PROVE  balance'[t][Contract] = Total(Owed(t)', counter)
    <3> DEFINE f == Owed(t)
               g == Owed(t)'
               d == IF t = v.token THEN - v.amount ELSE 0
    <3>1. counter \in Nat /\ id \in 1..counter
      BY <1>1 DEF TypeOK, Ids
    <3>2. \A i \in 1..counter : f[i] \in Nat /\ f[i] \in Int
      BY <1>1, OwedType
    <3>3. \A i \in 1..counter : i # id => g[i] = f[i]
      BY <1>4, <1>5 DEF Owed, Held, Ids
    <3>4. g[id] = f[id] + d
      <4>1. f[id] = IF v.token = t THEN v.amount ELSE 0
        BY DEF Owed, Held
      <4>2. g[id] = 0
        <5>1. vaults'[id].status \notin {"Active", "Paused"}
          BY <1>3, <1>4 DEF VaultEntry
        <5> QED
          BY <1>5, <5>1 DEF Owed, Held
      <4> QED
        BY <1>3, <4>1, <4>2
    <3>5. d \in Int
      BY <1>3
    <3>6. balance[t][Contract] = Total(f, counter)
      BY <1>1 DEF Solvency
    <3>7. balance'[t][Contract] = balance[t][Contract] + d
      <4>1. CASE t = v.token
        <5>1. balance[t][Contract] \in Nat
          BY <1>1 DEF TypeOK, Accounts
        <5> QED
          BY <1>3, <1>6, <4>1, <5>1
      <4>2. CASE t # v.token
        <5>1. balance[t][Contract] \in Nat
          BY <1>1 DEF TypeOK, Accounts
        <5> QED
          BY <1>6, <4>2, <5>1
      <4> QED
        BY <4>1, <4>2
    <3> HIDE DEF f, g, d
    <3>8. Total(g, counter) = Total(f, counter) + d
      BY <3>1, <3>2, <3>3, <3>4, <3>5, TotalChange
    <3>9. balance'[t][Contract] = Total(g, counter)
      BY <3>6, <3>7, <3>8
    <3> QED
      BY <3>9 DEF g
  <2> QED
    BY <1>2, <2>1 DEF Solvency
<1>9. \A u \in Users : OwnedBy(u)' = OwnedBy(u) /\ PayableTo(u)' = PayableTo(u)
  <2>1. \A i \in Ids : vaults'[i].owner = vaults[i].owner /\ vaults'[i].recipient = vaults[i].recipient
    BY <1>3, <1>4 DEF VaultEntry
  <2> QED
    BY <1>5, <2>1 DEF OwnedBy, PayableTo
<1>10. OwnerIndexExact' /\ RecipientIndexSound'
  BY <1>1, <1>2, <1>9 DEF OwnerIndexExact, RecipientIndexSound
<1> QED
  BY <1>7, <1>8, <1>10 DEF IInv

-----------------------------------------------------------------------------
(* Changing the owner, pausing, resuming *)

\* What these three leave alone is enough to keep Solvency and the indexes of
\* recipients: what a vault holds, whom it pays, and the balances.
LEMMA SameObligations ==
  ASSUME IInv, UNCHANGED <<counter, recipientIndex, balance>>,
         \A i \in Ids : /\ vaults'[i].recipient = vaults[i].recipient
                        /\ vaults'[i].token = vaults[i].token
                        /\ vaults'[i].amount = vaults[i].amount
                        /\ Held(i)' <=> Held(i)
  PROVE  Solvency' /\ RecipientIndexSound'
<1>1. TypeOK /\ Solvency /\ RecipientIndexSound /\ Ids' = Ids
  BY DEF IInv, Ids
<1>2. \A t \in Tokens : Owed(t)' = Owed(t)
  BY <1>1 DEF Owed
<1>3. \A u \in Users : PayableTo(u)' = PayableTo(u)
  BY <1>1 DEF PayableTo
<1>4. Solvency'
  <2>1. ASSUME NEW t \in Tokens
        PROVE  balance'[t][Contract] = Total(Owed(t)', counter')
    <3>1. balance[t][Contract] = Total(Owed(t), counter)
      BY <1>1 DEF Solvency
    <3> QED
      BY <1>2, <3>1
  <2> QED
    BY <2>1 DEF Solvency
<1>5. RecipientIndexSound'
  BY <1>1, <1>3 DEF RecipientIndexSound
<1> QED
  BY <1>4, <1>5

\* Pause and resume change the status and the pause ledger together.
LEMMA PauseResumeKeepsInv ==
  ASSUME IInv, NEW id \in Ids, Pause(id) \/ Resume(id)
  PROVE  IInv'
<1> DEFINE status == IF Pause(id) THEN "Paused" ELSE "Active"
           paused == IF Pause(id) THEN ledger ELSE None
<1>1. TypeOK /\ OwnerIndexExact
  BY DEF IInv
<1>2. /\ vaults' = [vaults EXCEPT ![id].status = status, ![id].paused_at_ledger = paused]
      /\ vaults[id].status \in {"Active", "Paused"}
      /\ UNCHANGED <<ledger, counter, ownerIndex, recipientIndex, balance>>
  BY DEF Pause, Resume
<1>3. /\ status \in {"Active", "Paused"} /\ paused \in Nat \cup {None}
      /\ status = "Paused" <=> paused # None
  BY <1>1 DEF TypeOK
<1> HIDE DEF status, paused
<1>4. Ids' = Ids
  BY <1>2 DEF Ids
<1>5. vaults[id] \in VaultEntry
  BY <1>1 DEF TypeOK
<1>6. /\ vaults' \in [Ids -> VaultEntry]
      /\ \A i \in Ids : i # id => vaults'[i] = vaults[i]
      /\ vaults'[id] = [vaults[id] EXCEPT !.status = status, !.paused_at_ledger = paused]
  BY <1>1, <1>2, <1>3, <1>5 DEF TypeOK, VaultEntry, Statuses
<1>7. /\ vaults'[id].status = status /\ vaults'[id].paused_at_ledger = paused
      /\ vaults'[id].owner = vaults[id].owner /\ vaults'[id].recipient = vaults[id].recipient
      /\ vaults'[id].token = vaults[id].token /\ vaults'[id].amount = vaults[id].amount
  BY <1>5, <1>6 DEF VaultEntry
<1>8. TypeOK'
  <2>1. \A i \in Ids : vaults'[i].status = "Paused" <=> vaults'[i].paused_at_ledger # None
    <3>1. \A i \in Ids : vaults[i].status = "Paused" <=> vaults[i].paused_at_ledger # None
      BY <1>1, Zenon DEF TypeOK
    <3> SUFFICES ASSUME NEW i \in Ids
                 PROVE  vaults'[i].status = "Paused" <=> vaults'[i].paused_at_ledger # None
      OBVIOUS
    <3>2. CASE i = id
      BY <1>3, <1>7, <3>2, Zenon
    <3>3. CASE i # id
      BY <1>6, <3>1, <3>3, Zenon
    <3> QED
      BY <3>2, <3>3
  <2>2. /\ ledger' \in Nat /\ counter' \in Nat
        /\ ownerIndex' \in [Users -> Seq(Ids')] /\ recipientIndex' \in [Users -> Seq(Ids')]
        /\ balance' \in [Tokens -> [Accounts -> Nat]]
    BY <1>1, <1>2, <1>4, Zenon DEF TypeOK
  <2> QED
    BY <1>4, <1>6, <2>1, <2>2, Zenon DEF TypeOK
<1>9. Solvency' /\ RecipientIndexSound'
  <2>1. \A i \in Ids : /\ vaults'[i].recipient = vaults[i].recipient
                       /\ vaults'[i].token = vaults[i].token
                       /\ vaults'[i].amount = vaults[i].amount
                       /\ Held(i)' <=> Held(i)
    BY <1>2, <1>3, <1>6, <1>7 DEF Held
  <2> QED
    BY <1>2, <2>1, SameObligations
<1>10. OwnerIndexExact'
  <2>1. \A u \in Users : OwnedBy(u)' = OwnedBy(u)
    BY <1>4, <1>6, <1>7 DEF OwnedBy
  <2> QED
    BY <1>1, <1>2, <2>1 DEF OwnerIndexExact
<1> QED
  BY <1>8, <1>9, <1>10 DEF IInv

\* The id moves from one list to the other, or to the end of the same list.
LEMMA TransferOwnershipKeepsInv ==
  ASSUME IInv, NEW id \in Ids, NEW new_owner \in Users, TransferOwnership(id, new_owner)
  PROVE  IInv'
<1> DEFINE old_owner == vaults[id].owner
           without == [ownerIndex EXCEPT ![old_owner] = RemoveFirst(@, id)]
<1>1. TypeOK /\ OwnerIndexExact
  BY DEF IInv
<1>2. /\ vaults' = [vaults EXCEPT ![id].owner = new_owner]
      /\ ownerIndex' = [without EXCEPT ![new_owner] = Append(@, id)]
      /\ UNCHANGED <<ledger, counter, recipientIndex, balance>>
  BY DEF TransferOwnership
<1>3. vaults[id] \in VaultEntry /\ old_owner \in Users /\ Ids' = Ids
  BY <1>1, <1>2 DEF TypeOK, VaultEntry, Ids
<1>4. /\ vaults' \in [Ids -> VaultEntry]
      /\ \A i \in Ids : i # id => vaults'[i] = vaults[i]
      /\ vaults'[id] = [vaults[id] EXCEPT !.owner = new_owner]
  BY <1>1, <1>2, <1>3 DEF TypeOK, VaultEntry
<1>5. /\ vaults'[id].owner = new_owner /\ vaults'[id].status = vaults[id].status
      /\ vaults'[id].paused_at_ledger = vaults[id].paused_at_ledger
      /\ vaults'[id].recipient = vaults[id].recipient
      /\ vaults'[id].token = vaults[id].token /\ vaults'[id].amount = vaults[id].amount
  BY <1>3, <1>4 DEF VaultEntry
<1>6. ownerIndex \in [Users -> Seq(Ids)] /\ \A u \in Users : ListsOnce(ownerIndex[u], OwnedBy(u))
  BY <1>1 DEF TypeOK, OwnerIndexExact
<1>7. ASSUME NEW u \in Users
      PROVE  without[u] \in Seq(Ids) /\ ListsOnce(without[u], OwnedBy(u) \ {id})
  <2>1. CASE u = old_owner
    <3>1. id \in OwnedBy(u) /\ without[u] = RemoveFirst(ownerIndex[u], id)
      BY <1>3, <1>6, <2>1 DEF OwnedBy
    <3>2. ownerIndex[u] \in Seq(Ids) /\ ListsOnce(ownerIndex[u], OwnedBy(u))
      BY <1>6
    <3>3. /\ RemoveFirst(ownerIndex[u], id) \in Seq(Ids)
          /\ ListsOnce(RemoveFirst(ownerIndex[u], id), OwnedBy(u) \ {id})
      BY <3>1, <3>2, ListsOnceRemove, Zenon
    <3> QED
      BY <3>1, <3>3, Zenon
  <2>2. CASE u # old_owner
    <3>1. OwnedBy(u) \ {id} = OwnedBy(u)
      BY <2>2 DEF OwnedBy
    <3> QED
      BY <1>3, <1>6, <2>2, <3>1
  <2> QED
    BY <2>1, <2>2
<1>8. DOMAIN without = Users
  BY <1>6
<1>9. ASSUME NEW u \in Users
      PROVE  ownerIndex'[u] \in Seq(Ids) /\ ListsOnce(ownerIndex'[u], OwnedBy(u)')
  <2>1. without[u] \in Seq(Ids) /\ ListsOnce(without[u], OwnedBy(u) \ {id})
    BY <1>7
  <2> HIDE DEF without
  <2>2. CASE u = new_owner
    <3>1. ownerIndex'[u] = Append(without[u], id)
      BY <1>2, <1>8, <2>2
    <3>2. OwnedBy(u)' = (OwnedBy(u) \ {id}) \cup {id}
      BY <1>3, <1>4, <1>5, <2>2 DEF OwnedBy
    <3>3. /\ Append(without[u], id) \in Seq(Ids)
          /\ ListsOnce(Append(without[u], id), (OwnedBy(u) \ {id}) \cup {id})
      BY <2>1, ListsOnceAppend
    <3> QED
      BY <3>1, <3>2, <3>3
  <2>3. CASE u # new_owner
    <3>1. ownerIndex'[u] = without[u]
      BY <1>2, <1>8, <2>3
    <3>2. OwnedBy(u)' = OwnedBy(u) \ {id}
      BY <1>3, <1>4, <1>5, <2>3 DEF OwnedBy
    <3> QED
      BY <2>1, <3>1, <3>2
  <2> QED
    BY <2>2, <2>3
<1>10. TypeOK'
  <2>1. ownerIndex' \in [Users -> Seq(Ids)]
    <3>1. DOMAIN ownerIndex' = Users /\ ownerIndex' = [u \in Users |-> ownerIndex'[u]]
      BY <1>2, <1>8
    <3> QED
      BY <1>9, <3>1
  <2>2. \A i \in Ids : vaults'[i].status = "Paused" <=> vaults'[i].paused_at_ledger # None
    <3>1. \A i \in Ids : vaults[i].status = "Paused" <=> vaults[i].paused_at_ledger # None
      BY <1>1, Zenon DEF TypeOK
    <3> SUFFICES ASSUME NEW i \in Ids
                 PROVE  vaults'[i].status = "Paused" <=> vaults'[i].paused_at_ledger # None
      OBVIOUS
    <3>2. CASE i = id
      BY <1>5, <3>1, <3>2, Zenon
    <3>3. CASE i # id
      BY <1>4, <3>1, <3>3, Zenon
    <3> QED
      BY <3>2, <3>3
  <2>3. /\ ledger' \in Nat /\ counter' \in Nat
        /\ recipientIndex' \in [Users -> Seq(Ids')]
        /\ balance' \in [Tokens -> [Accounts -> Nat]]
    BY <1>1, <1>2, <1>3, Zenon DEF TypeOK
  <2> QED
    BY <1>3, <1>4, <2>1, <2>2, <2>3, Zenon DEF TypeOK
<1>11. OwnerIndexExact'
  BY <1>9 DEF OwnerIndexExact
<1>12. Solvency' /\ RecipientIndexSound'
  <2>1. \A i \in Ids : /\ vaults'[i].recipient = vaults[i].recipient
                       /\ vaults'[i].token = vaults[i].token
                       /\ vaults'[i].amount = vaults[i].amount
                       /\ Held(i)' <=> Held(i)
    BY <1>4, <1>5 DEF Held
  <2> QED
    BY <1>2, <2>1, SameObligations
<1> QED
  BY <1>10, <1>11, <1>12 DEF IInv

\* A ledger close, and a stuttering step, touch nothing the invariant is about.
LEMMA CloseLedgerKeepsInv ==
  ASSUME IInv, CloseLedger \/ UNCHANGED vars
  PROVE  IInv'
<1>1. UNCHANGED <<counter, vaults, ownerIndex, recipientIndex, balance>>
  BY DEF CloseLedger, vars, storage
<1>2. ledger' \in Nat
  BY DEF IInv, TypeOK, CloseLedger, vars
<1> QED
  BY <1>1, <1>2 DEF IInv, TypeOK, Solvency, OwnerIndexExact, RecipientIndexSound,
                    Ids, Owed, Held, OwnedBy, PayableTo

-----------------------------------------------------------------------------
(* The theorems *)

\* The statuses the three ways out write are the ones SettleKeepsInv is about.
LEMMA StepKeepsInv == IInv /\ [Next]_vars => IInv'
<1> SUFFICES ASSUME IInv, [Next]_vars PROVE IInv'
  OBVIOUS
<1>1. CASE CloseLedger \/ UNCHANGED vars
  BY <1>1, CloseLedgerKeepsInv
<1>2. CASE Create
  <2>1. ASSUME NEW owner \in Users, NEW token \in Tokens, NEW amount \in Amounts,
               NEW release_ledger \in ReleaseLedgers, NEW label \in Labels,
               NEW recipient \in Users, NEW expiry \in Expiries \cup {None},
               CreateVault(owner, recipient, token, amount, release_ledger, label, expiry)
        PROVE  IInv'
    BY <2>1, CreateVaultKeepsInv
  <2>2. ASSUME NEW owner \in Users, NEW token \in Tokens, NEW amount \in Amounts,
               NEW release_ledger \in ReleaseLedgers, NEW label \in Labels,
               NEW recipients \in Batches,
               CreateVaults(owner, recipients, token, amount, release_ledger, label)
        PROVE  IInv'
    BY <2>2, CreateVaultsKeepsInv
  <2> QED
    BY <1>2, <2>1, <2>2 DEF Create
<1>3. ASSUME NEW id \in Ids, Release(id) \/ Cancel(id) \/ Reclaim(id)
      PROVE  IInv'
  <2>1. vaults[id].recipient \in Users /\ vaults[id].owner \in Users
    BY DEF IInv, TypeOK, VaultEntry
  <2>2. CASE Release(id)
    <3>1. Settle(id, "Released", vaults[id].recipient)
      BY <2>2 DEF Release
    <3> QED
      BY <2>1, <2>2, <3>1, SettleKeepsInv DEF Release, CanRelease
  <2>3. CASE Cancel(id)
    <3>1. Settle(id, "Cancelled", vaults[id].owner)
      BY <2>3 DEF Cancel
    <3> QED
      BY <2>1, <2>3, <3>1, SettleKeepsInv DEF Cancel, CanCancel
  <2>4. CASE Reclaim(id)
    <3>1. Settle(id, "Reclaimed", vaults[id].owner)
      BY <2>4 DEF Reclaim
    <3> QED
      BY <2>1, <2>4, <3>1, SettleKeepsInv DEF Reclaim, CanReclaim
  <2> QED
    BY <1>3, <2>2, <2>3, <2>4
<1>4. ASSUME NEW id \in Ids, Pause(id) \/ Resume(id)
      PROVE  IInv'
  BY <1>4, PauseResumeKeepsInv
<1>5. ASSUME NEW id \in Ids, NEW new_owner \in Users, TransferOwnership(id, new_owner)
      PROVE  IInv'
  BY <1>5, TransferOwnershipKeepsInv
<1> QED
  BY <1>1, <1>2, <1>3, <1>4, <1>5 DEF Next

\* In every reachable state the four parts of the invariant hold together.
THEOREM InvariantHolds == Spec => []IInv
BY InitInv, StepKeepsInv, PTL DEF Spec

\* TypeOK: every entry and both indexes keep their type, no balance, the
\* contract's included, ever becomes negative, and a vault has a pause ledger
\* exactly while it is paused.
THEOREM TypeCorrect == Spec => []TypeOK
<1>1. IInv => TypeOK
  BY DEF IInv
<1> QED
  BY <1>1, InvariantHolds, PTL

\* Solvency: the contract has of every token what its vaults are owed, no more
\* and no less.
THEOREM SolvencyHolds == Spec => []Solvency
<1>1. IInv => Solvency
  BY DEF IInv
<1> QED
  BY <1>1, InvariantHolds, PTL

\* OwnerIndexExact: get_vaults_by_owner answers exactly the vaults a user owns,
\* each once.
THEOREM OwnerIndexCorrect == Spec => []OwnerIndexExact
<1>1. IInv => OwnerIndexExact
  BY DEF IInv
<1> QED
  BY <1>1, InvariantHolds, PTL

\* RecipientIndexSound: what get_vaults_by_recipient answers does pay that user.
THEOREM RecipientIndexCorrect == Spec => []RecipientIndexSound
<1>1. IInv => RecipientIndexSound
  BY DEF IInv
<1> QED
  BY <1>1, InvariantHolds, PTL

\* One Active vault's amount is part of what the contract owes, and so is there.
LEMMA ActiveIsFunded ==
  ASSUME IInv, NEW id \in Ids, vaults[id].status = "Active"
  PROVE  CanTransfer(vaults[id].token, Contract, vaults[id].amount)
<1> DEFINE token == vaults[id].token
<1>1. TypeOK /\ Solvency
  BY DEF IInv
<1>2. token \in Tokens /\ id \in 1..counter /\ counter \in Nat
  BY <1>1 DEF TypeOK, VaultEntry, Ids
<1>3. \A i \in 1..counter : Owed(token)[i] \in Nat
  BY <1>1, <1>2, OwedType
<1>4. Owed(token)[id] = vaults[id].amount
  BY <1>2 DEF Owed, Held
<1> HIDE DEF token
<1>5. Owed(token)[id] <= Total(Owed(token), counter)
  BY <1>2, <1>3, TotalCovers
<1>6. balance[token][Contract] = Total(Owed(token), counter)
  BY <1>1, <1>2 DEF Solvency
<1> QED
  BY <1>4, <1>5, <1>6 DEF CanTransfer, token

\* ActiveHasWayOut: whatever happened to the other vaults, an Active one can be
\* cancelled before its release ledger and released from then on; the transfer
\* this needs does not fail.
THEOREM NeverStuck == Spec => []ActiveHasWayOut
<1>1. IInv => ActiveHasWayOut
  <2> SUFFICES ASSUME IInv, NEW id \in Ids, vaults[id].status = "Active"
               PROVE  CanRelease(id) \/ CanCancel(id)
    BY DEF ActiveHasWayOut
  <2>1. CanTransfer(vaults[id].token, Contract, vaults[id].amount)
    BY ActiveIsFunded
  <2>2. ledger \in Nat /\ vaults[id].release_ledger \in Nat
    BY DEF IInv, TypeOK, VaultEntry
  <2> QED
    BY <2>1, <2>2 DEF CanRelease, CanCancel
<1> QED
  BY <1>1, InvariantHolds, PTL

\* Both ways to create open the vaults of a list of recipients.
LEMMA CreateIsOpening ==
  ASSUME Create
  PROVE  \E owner \in Users, token \in Tokens, amount \in Amounts,
            recipients \in Seq(Users), release_ledger \in Nat, expiry \in Nat \cup {None} :
           OpenVaults(owner, recipients, token, amount, release_ledger, expiry)
<1>1. PICK owner \in Users, token \in Tokens, amount \in Amounts,
           release_ledger \in ReleaseLedgers, label \in Labels :
        \/ \E recipient \in Users, expiry \in Expiries \cup {None} :
             CreateVault(owner, recipient, token, amount, release_ledger, label, expiry)
        \/ \E recipients \in Batches :
             CreateVaults(owner, recipients, token, amount, release_ledger, label)
  BY DEF Create
<1>2. release_ledger \in Nat
  OBVIOUS
<1>3. CASE \E recipient \in Users, expiry \in Expiries \cup {None} :
             CreateVault(owner, recipient, token, amount, release_ledger, label, expiry)
  <2>1. PICK recipient \in Users, expiry \in Expiries \cup {None} :
          OpenVaults(owner, <<recipient>>, token, amount, release_ledger, expiry)
    BY <1>3 DEF CreateVault
  <2>2. <<recipient>> \in Seq(Users) /\ expiry \in Nat \cup {None}
    OBVIOUS
  <2> QED
    BY <1>2, <2>1, <2>2
<1>4. CASE \E recipients \in Batches :
             CreateVaults(owner, recipients, token, amount, release_ledger, label)
  <2>1. PICK recipients \in Batches :
          OpenVaults(owner, recipients, token, amount, release_ledger, None)
    BY <1>4 DEF CreateVaults
  <2>2. recipients \in Seq(Users)
    BY DEF Batches
  <2> QED
    BY <1>2, <2>1, <2>2
<1> QED
  BY <1>1, <1>3, <1>4

\* RecipientWindow: no step takes a due vault from its recipient before it
\* expires, and none pays it before it is due.
THEOREM WindowRespected == Spec => RecipientWindow
<1> DEFINE Window ==
      \A id \in Ids :
        LET v == vaults[id]
            due == ledger >= v.release_ledger
            expired == v.expires_after_ledger # None /\ ledger > v.expires_after_ledger
        IN  Held(id) =>
              /\ vaults'[id].status \in {"Cancelled", "Reclaimed"} => ~due \/ expired
              /\ vaults'[id].status = "Released" => due
<1>1. ASSUME IInv, [Next]_vars PROVE [Window]_vars
  <2>1. TypeOK /\ \A id \in Ids : vaults[id] \in VaultEntry
    BY <1>1 DEF IInv, TypeOK
  <2>2. ASSUME \A i \in Ids : vaults'[i].status = vaults[i].status
        PROVE  Window
    BY <2>2 DEF Held
  <2>3. CASE CloseLedger \/ UNCHANGED vars
    BY <2>2, <2>3 DEF CloseLedger, storage, vars
  <2>4. CASE Create
    <3>1. PICK owner \in Users, token \in Tokens, amount \in Amounts,
               recipients \in Seq(Users), release_ledger \in Nat, expiry \in Nat \cup {None} :
            OpenVaults(owner, recipients, token, amount, release_ledger, expiry)
      BY <2>4, CreateIsOpening
    <3>2. \A i \in Ids : vaults'[i] = vaults[i]
      BY <2>1, <3>1, OpenVaultsEffect
    <3> QED
      BY <2>2, <3>2
  <2>5. ASSUME NEW i \in Ids, NEW status, NEW account, Settle(i, status, account),
               \/ status = "Released" /\ CanRelease(i)
               \/ status = "Cancelled" /\ CanCancel(i)
               \/ status = "Reclaimed" /\ CanReclaim(i)
        PROVE  Window
    <3>1. \A id \in Ids : vaults'[id].status = IF id = i THEN status ELSE vaults[id].status
      BY <2>1, <2>5 DEF Settle, TypeOK, VaultEntry
    <3>2. ledger \in Nat /\ vaults[i].release_ledger \in Nat
      BY <2>1 DEF TypeOK, VaultEntry
    <3> QED
      BY <2>5, <3>1, <3>2 DEF CanRelease, CanCancel, CanReclaim, Held
  <2>6. ASSUME NEW i \in Ids, Pause(i) \/ Resume(i)
        PROVE  Window
    <3>1. CASE Pause(i)
      <4>1. \A id \in Ids : vaults'[id].status \in {vaults[id].status, "Paused"}
        BY <2>1, <3>1 DEF Pause, TypeOK, VaultEntry
      <4> QED
        BY <4>1 DEF Held
    <3>2. CASE Resume(i)
      <4>1. \A id \in Ids : vaults'[id].status \in {vaults[id].status, "Active"}
        BY <2>1, <3>2 DEF Resume, TypeOK, VaultEntry
      <4> QED
        BY <4>1 DEF Held
    <3> QED
      BY <2>6, <3>1, <3>2
  <2>7. ASSUME NEW i \in Ids, NEW u \in Users, TransferOwnership(i, u)
        PROVE  Window
    <3>1. \A id \in Ids : vaults'[id].status = vaults[id].status
      BY <2>1, <2>7 DEF TransferOwnership, TypeOK, VaultEntry
    <3> QED
      BY <2>2, <3>1
  <2> HIDE DEF Window
  <2> QED
    BY <1>1, <2>3, <2>4, <2>5, <2>6, <2>7 DEF Next, Release, Cancel, Reclaim
<1> QED
  BY <1>1, InvariantHolds, PTL DEF Spec, RecipientWindow

-----------------------------------------------------------------------------
(* The contract implements the escrow *)

\* Before anything was created the escrow is empty.
LEMMA EscrowInit == Init => E!Init
<1> SUFFICES ASSUME Init PROVE E!Init
  OBVIOUS
<1>1. EscrowDeposits = <<>>
  <2>1. Ids = {}
    BY DEF Init, Ids
  <2> QED
    BY <2>1 DEF EscrowDeposits
<1>2. EscrowWallets \in [Tokens -> [Users -> Nat]]
  <2>1. balance \in [Tokens -> [Accounts -> Nat]]
    BY DEF Init
  <2> QED
    BY <2>1 DEF EscrowWallets, Accounts
<1> QED
  BY <1>1, <1>2 DEF E!Init

\* What a vault looks like from outside.
LEMMA DepositOfVault ==
  /\ DOMAIN EscrowDeposits = Ids
  /\ \A id \in Ids :
       EscrowDeposits[id] =
         [owner |-> vaults[id].owner, payee |-> vaults[id].recipient,
          token |-> vaults[id].token, amount |-> vaults[id].amount,
          state |-> EscrowState(vaults[id].status)]
BY DEF EscrowDeposits

\* Changing one user's wallet of one token, seen from the contract's balances.
LEMMA WalletChange ==
  ASSUME NEW token \in Tokens, NEW user \in Users, NEW d,
         \A t \in Tokens, u \in Users :
           balance'[t][u] = IF t = token /\ u = user THEN d ELSE balance[t][u]
  PROVE  EscrowWallets' = [EscrowWallets EXCEPT ![token][user] = d]
<1>1. /\ EscrowWallets = [t \in Tokens |-> [u \in Users |-> balance[t][u]]]
      /\ EscrowWallets' = [t \in Tokens |-> [u \in Users |-> balance'[t][u]]]
  BY DEF EscrowWallets
<1>2. ASSUME NEW t \in Tokens
      PROVE  [u \in Users |-> balance'[t][u]] =
               IF t = token THEN [EscrowWallets[token] EXCEPT ![user] = d] ELSE EscrowWallets[t]
  <2>1. EscrowWallets[t] = [u \in Users |-> balance[t][u]]
    BY <1>1
  <2> QED
    BY <2>1
<1> QED
  BY <1>1, <1>2

\* What the escrow sees of a vault is decided by its status: held while it is
\* Active or Paused, paid when Released, refunded otherwise.
LEMMA StatesOfVaults ==
  /\ EscrowState("Active") = "held" /\ EscrowState("Paused") = "held"
  /\ EscrowState("Released") = "paid"
  /\ EscrowState("Cancelled") = "refunded" /\ EscrowState("Reclaimed") = "refunded"
BY DEF EscrowState

\* Opening vaults is opening as many deposits.
LEMMA OpenVaultsIsOpen ==
  ASSUME IInv,
         NEW owner \in Users, NEW recipients \in Seq(Users), Len(recipients) > 0,
         NEW token \in Tokens, NEW amount \in Amounts, NEW release_ledger \in Nat,
         NEW expiry \in Nat \cup {None},
         OpenVaults(owner, recipients, token, amount, release_ledger, expiry)
  PROVE  E!Open(owner, token, amount)
<1> DEFINE count == Len(recipients)
           new == counter + 1 .. counter'
<1>1. TypeOK
  BY DEF IInv
<1>2. /\ amount \in Nat \ {0}
      /\ counter' = counter + count /\ counter' \in Nat /\ count \in Nat
      /\ \A id \in Ids : vaults'[id] = vaults[id]
      /\ \A id \in new :
           /\ id - counter \in 1..count
           /\ vaults'[id] = NewVault(owner, recipients[id - counter], token, amount,
                                     release_ledger, expiry)
  BY <1>1, OpenVaultsEffect
<1>3. counter \in Nat /\ Ids' = Ids \cup new /\ Ids \cap new = {} /\ new # {}
  <2>1. counter \in Nat /\ count > 0
    BY <1>1 DEF TypeOK
  <2>2. counter + 1 \in new
    BY <1>2, <2>1
  <2> QED
    BY <1>2, <2>1, <2>2 DEF Ids
<1>4. Cardinality(new) = count
  <2>1. counter + 1 \in Int /\ counter' \in Int /\ counter' - (counter + 1) + 1 = count
        /\ ~ (counter + 1 > counter')
    <3>1. counter' = counter + count /\ counter \in Nat /\ count \in Nat /\ count > 0
      BY <1>2, <1>3
    <3> HIDE DEF count
    <3> QED
      BY <3>1
  <2> HIDE DEF count
  <2> QED
    BY <2>1, FS_Interval
<1>5. DOMAIN EscrowDeposits = Ids /\ DOMAIN EscrowDeposits' = Ids \cup new
  BY <1>3, DepositOfVault DEF EscrowDeposits
<1>6. DOMAIN EscrowDeposits' \ DOMAIN EscrowDeposits = new
  BY <1>3, <1>5
<1>7. \A id \in Ids : EscrowDeposits'[id] = EscrowDeposits[id]
  BY <1>2, <1>3 DEF EscrowDeposits, EscrowState
<1>8. ASSUME NEW id \in new
      PROVE  EscrowDeposits'[id] \in E!HeldDeposit(owner, token, amount)
  <2>1. vaults'[id] = NewVault(owner, recipients[id - counter], token, amount,
                               release_ledger, expiry)
    BY <1>2, Zenon
  <2>2. recipients[id - counter] \in Users
    BY <1>2
  <2>3. EscrowDeposits'[id] = [owner |-> owner, payee |-> recipients[id - counter],
                               token |-> token, amount |-> amount, state |-> "held"]
    BY <1>3, <2>1, StatesOfVaults DEF EscrowDeposits, NewVault
  <2> QED
    BY <2>2, <2>3 DEF E!HeldDeposit
<1>9. /\ amount * count <= EscrowWallets[token][owner]
      /\ EscrowWallets' = [EscrowWallets EXCEPT ![token][owner] = @ - amount * count]
  <2>1. /\ CanTransfer(token, owner, amount * count)
        /\ Transfer(token, owner, Contract, amount * count)
    BY DEF OpenVaults
  <2>2. balance \in [Tokens -> [Accounts -> Nat]] /\ Users \subseteq Accounts /\ Contract \in Accounts
    BY <1>1 DEF TypeOK, Accounts
  <2> HIDE DEF count
  <2>3. amount * count <= EscrowWallets[token][owner]
    BY <2>1, <2>2 DEF CanTransfer, EscrowWallets
  <2>4. ASSUME NEW t \in Tokens, NEW u \in Users
        PROVE  balance'[t][u] =
                 IF t = token /\ u = owner
                 THEN EscrowWallets[token][owner] - amount * count ELSE balance[t][u]
    <3>1. u # Contract /\ EscrowWallets[token][owner] = balance[token][owner]
      BY DEF EscrowWallets
    <3> QED
      BY <2>1, <2>2, <3>1 DEF Transfer
  <2>5. EscrowWallets' =
          [EscrowWallets EXCEPT ![token][owner] = EscrowWallets[token][owner] - amount * count]
    <3> DEFINE d == EscrowWallets[token][owner] - amount * count
    <3>1. \A t \in Tokens, u \in Users :
            balance'[t][u] = IF t = token /\ u = owner THEN d ELSE balance[t][u]
      BY <2>4
    <3> HIDE DEF d
    <3>2. EscrowWallets' = [EscrowWallets EXCEPT ![token][owner] = d]
      BY <3>1, WalletChange
    <3> QED
      BY <3>2 DEF d
  <2> QED
    BY <2>3, <2>5
<1> QED
  <2> HIDE DEF count
  <2>1. E!Cardinality(new) = Cardinality(new)
    BY DEF E!Cardinality, Cardinality
  <2>2. /\ amount * E!Cardinality(new) <= EscrowWallets[token][owner]
        /\ EscrowWallets' =
             [EscrowWallets EXCEPT ![token][owner] = @ - amount * E!Cardinality(new)]
    BY <1>4, <1>9, <2>1
  <2>3. amount > 0 /\ new # {}
    BY <1>2, <1>3
  <2>4. /\ DOMAIN EscrowDeposits \subseteq DOMAIN EscrowDeposits'
        /\ \A d \in DOMAIN EscrowDeposits : EscrowDeposits'[d] = EscrowDeposits[d]
        /\ \A d \in new : EscrowDeposits'[d] \in E!HeldDeposit(owner, token, amount)
    BY <1>5, <1>7, <1>8
  <2> HIDE DEF new
  <2> QED
    BY <1>6, <2>2, <2>3, <2>4 DEF E!Open

\* A payout is one deposit paid or refunded.
LEMMA SettleIsPayout ==
  ASSUME IInv, NEW id \in Ids, vaults[id].status = "Active",
         NEW status \in {"Released", "Cancelled", "Reclaimed"},
         NEW account,
         account = IF status = "Released" THEN vaults[id].recipient ELSE vaults[id].owner,
         Settle(id, status, account)
  PROVE  E!Pay(id) \/ E!Refund(id)
<1>1. TypeOK /\ vaults[id] \in VaultEntry /\ account \in Users /\ account # Contract
  BY DEF IInv, TypeOK, VaultEntry
<1>2. /\ vaults' = [vaults EXCEPT ![id].status = status]
      /\ Transfer(vaults[id].token, Contract, account, vaults[id].amount)
      /\ counter' = counter
  BY DEF Settle
<1>3. EscrowDeposits' = [EscrowDeposits EXCEPT ![id].state = EscrowState(status)]
  <2>1. Ids' = Ids
    BY <1>2 DEF Ids
  <2>2. \A i \in Ids : vaults'[i] = IF i = id THEN [vaults[id] EXCEPT !.status = status] ELSE vaults[i]
    BY <1>1, <1>2 DEF TypeOK
  <2>3. /\ vaults'[id].owner = vaults[id].owner /\ vaults'[id].recipient = vaults[id].recipient
        /\ vaults'[id].token = vaults[id].token /\ vaults'[id].amount = vaults[id].amount
        /\ vaults'[id].status = status
    BY <1>1, <2>2 DEF VaultEntry
  <2>4. EscrowDeposits'[id] = [EscrowDeposits[id] EXCEPT !.state = EscrowState(status)]
    BY <2>1, <2>3, DepositOfVault DEF EscrowDeposits, EscrowState
  <2>5. \A i \in Ids : i # id => EscrowDeposits'[i] = EscrowDeposits[i]
    BY <2>1, <2>2 DEF EscrowDeposits, EscrowState
  <2>6. /\ EscrowDeposits = [i \in Ids |-> EscrowDeposits[i]]
        /\ EscrowDeposits' = [i \in Ids |-> EscrowDeposits'[i]]
    BY <2>1 DEF EscrowDeposits, EscrowState
  <2> QED
    BY <2>4, <2>5, <2>6, Zenon
<1>4. EscrowWallets' = [EscrowWallets EXCEPT ![vaults[id].token][account] = @ + vaults[id].amount]
  <2> DEFINE token == vaults[id].token
             d == EscrowWallets[token][account] + vaults[id].amount
  <2>1. balance \in [Tokens -> [Accounts -> Nat]] /\ Users \subseteq Accounts /\ Contract \in Accounts
    BY <1>1 DEF TypeOK, Accounts
  <2>2. token \in Tokens
    BY <1>1 DEF VaultEntry
  <2>3. EscrowWallets[token][account] = balance[token][account]
    BY <1>1, <2>2 DEF EscrowWallets
  <2>4. ASSUME NEW t \in Tokens, NEW u \in Users
        PROVE  balance'[t][u] = IF t = token /\ u = account THEN d ELSE balance[t][u]
    <3>1. u # Contract
      OBVIOUS
    <3> QED
      BY <1>1, <1>2, <2>1, <2>2, <2>3, <3>1 DEF Transfer
  <2> HIDE DEF token, d
  <2>5. EscrowWallets' = [EscrowWallets EXCEPT ![token][account] = d]
    BY <1>1, <2>2, <2>4, WalletChange
  <2> QED
    BY <2>5 DEF token, d
<1>5. /\ EscrowDeposits[id].state = "held"
      /\ EscrowDeposits[id].payee = vaults[id].recipient
      /\ EscrowDeposits[id].owner = vaults[id].owner
      /\ EscrowDeposits[id].token = vaults[id].token
      /\ EscrowDeposits[id].amount = vaults[id].amount
  BY DepositOfVault, StatesOfVaults
<1>6. CASE status = "Released"
  BY <1>3, <1>4, <1>5, <1>6, StatesOfVaults DEF E!Pay, E!Credit
<1>7. CASE status \in {"Cancelled", "Reclaimed"}
  BY <1>3, <1>4, <1>5, <1>7, StatesOfVaults DEF E!Refund, E!Credit
<1> QED
  BY <1>6, <1>7

\* A change of owner is the deposit's, and moves no money.
LEMMA TransferOwnershipIsReassign ==
  ASSUME IInv, NEW id \in Ids, NEW new_owner \in Users, TransferOwnership(id, new_owner)
  PROVE  E!Reassign(id, new_owner)
<1>1. TypeOK /\ vaults[id] \in VaultEntry
  BY DEF IInv, TypeOK
<1>2. /\ vaults' = [vaults EXCEPT ![id].owner = new_owner]
      /\ vaults[id].status = "Active" /\ counter' = counter /\ balance' = balance
  BY DEF TransferOwnership
<1>3. Ids' = Ids
  BY <1>2 DEF Ids
<1>4. \A i \in Ids : vaults'[i] = IF i = id THEN [vaults[id] EXCEPT !.owner = new_owner] ELSE vaults[i]
  BY <1>1, <1>2 DEF TypeOK
<1>5. /\ vaults'[id].owner = new_owner /\ vaults'[id].recipient = vaults[id].recipient
      /\ vaults'[id].token = vaults[id].token /\ vaults'[id].amount = vaults[id].amount
      /\ vaults'[id].status = vaults[id].status
  BY <1>1, <1>4 DEF VaultEntry
<1>6. EscrowDeposits' = [EscrowDeposits EXCEPT ![id].owner = new_owner]
  <2>1. EscrowDeposits'[id] = [EscrowDeposits[id] EXCEPT !.owner = new_owner]
    BY <1>3, <1>5, DepositOfVault DEF EscrowDeposits, EscrowState
  <2>2. \A i \in Ids : i # id => EscrowDeposits'[i] = EscrowDeposits[i]
    BY <1>3, <1>4 DEF EscrowDeposits, EscrowState
  <2>3. /\ EscrowDeposits = [i \in Ids |-> EscrowDeposits[i]]
        /\ EscrowDeposits' = [i \in Ids |-> EscrowDeposits'[i]]
    BY <1>3 DEF EscrowDeposits, EscrowState
  <2> QED
    BY <2>1, <2>2, <2>3, Zenon
<1>7. EscrowWallets' = EscrowWallets
  BY <1>2 DEF EscrowWallets
<1>8. EscrowDeposits[id].state = "held"
  BY <1>2, DepositOfVault, StatesOfVaults
<1> QED
  BY <1>6, <1>7, <1>8 DEF E!Reassign

\* Pausing, resuming and the passing of ledgers cannot be seen from outside.
LEMMA InvisibleSteps ==
  ASSUME IInv, CloseLedger \/ UNCHANGED vars \/ \E id \in Ids : Pause(id) \/ Resume(id)
  PROVE  UNCHANGED <<EscrowDeposits, EscrowWallets>>
<1>1. CASE CloseLedger \/ UNCHANGED vars
  BY <1>1 DEF CloseLedger, storage, vars, EscrowDeposits, EscrowWallets, EscrowState, Ids
<1>2. ASSUME NEW id \in Ids, Pause(id) \/ Resume(id)
      PROVE  UNCHANGED <<EscrowDeposits, EscrowWallets>>
  <2>1. TypeOK /\ vaults[id] \in VaultEntry /\ Ids' = Ids
    BY <1>2 DEF IInv, TypeOK, Pause, Resume, Ids
  <2>2. /\ \A i \in Ids : i # id => vaults'[i] = vaults[i]
        /\ vaults'[id].owner = vaults[id].owner /\ vaults'[id].recipient = vaults[id].recipient
        /\ vaults'[id].token = vaults[id].token /\ vaults'[id].amount = vaults[id].amount
        /\ vaults[id].status \in {"Active", "Paused"} /\ vaults'[id].status \in {"Active", "Paused"}
    BY <1>2, <2>1 DEF Pause, Resume, TypeOK, VaultEntry
  <2>3. EscrowState(vaults'[id].status) = EscrowState(vaults[id].status)
    BY <2>2, StatesOfVaults
  <2>4. EscrowDeposits' = EscrowDeposits
    <3>1. \A i \in Ids :
            [owner |-> vaults'[i].owner, payee |-> vaults'[i].recipient,
             token |-> vaults'[i].token, amount |-> vaults'[i].amount,
             state |-> EscrowState(vaults'[i].status)] = EscrowDeposits[i]
      BY <2>2, <2>3, DepositOfVault
    <3>2. EscrowDeposits' = [i \in Ids |->
            [owner |-> vaults'[i].owner, payee |-> vaults'[i].recipient,
             token |-> vaults'[i].token, amount |-> vaults'[i].amount,
             state |-> EscrowState(vaults'[i].status)]]
      BY <2>1 DEF EscrowDeposits, EscrowState
    <3>3. EscrowDeposits = [i \in Ids |-> EscrowDeposits[i]]
      BY DEF EscrowDeposits
    <3> QED
      BY <3>1, <3>2, <3>3
  <2>5. EscrowWallets' = EscrowWallets
    BY <1>2 DEF Pause, Resume, EscrowWallets
  <2> QED
    BY <2>4, <2>5
<1> QED
  BY <1>1, <1>2

\* Every step of the contract is a step of the escrow or is invisible to it.
LEMMA StepImplementsEscrow ==
  ASSUME IInv, [Next]_vars
  PROVE  [E!Next]_(E!vars)
<1>1. CASE CloseLedger \/ UNCHANGED vars \/ \E id \in Ids : Pause(id) \/ Resume(id)
  BY <1>1, InvisibleSteps DEF E!vars
<1>2. CASE Create
  <2>1. ASSUME NEW owner \in Users, NEW token \in Tokens, NEW amount \in Amounts,
               NEW recipients \in Seq(Users), Len(recipients) > 0,
               NEW release_ledger \in Nat, NEW expiry \in Nat \cup {None},
               OpenVaults(owner, recipients, token, amount, release_ledger, expiry)
        PROVE  E!Next
    BY <2>1, OpenVaultsIsOpen DEF E!Next
  <2>2. ASSUME NEW owner \in Users, NEW token \in Tokens, NEW amount \in Amounts,
               NEW release_ledger \in ReleaseLedgers, NEW label \in Labels,
               NEW recipient \in Users, NEW expiry \in Expiries \cup {None},
               CreateVault(owner, recipient, token, amount, release_ledger, label, expiry)
        PROVE  E!Next
    <3>1. <<recipient>> \in Seq(Users) /\ Len(<<recipient>>) > 0
      OBVIOUS
    <3> QED
      BY <2>1, <2>2, <3>1 DEF CreateVault
  <2>3. ASSUME NEW owner \in Users, NEW token \in Tokens, NEW amount \in Amounts,
               NEW release_ledger \in ReleaseLedgers, NEW label \in Labels,
               NEW recipients \in Batches,
               CreateVaults(owner, recipients, token, amount, release_ledger, label)
        PROVE  E!Next
    <3>1. recipients \in Seq(Users) /\ Len(recipients) > 0
      <4>1. recipients \in Seq(Users)
        BY DEF Batches
      <4> QED
        BY <2>3, <4>1 DEF CreateVaults
    <3> QED
      BY <2>1, <2>3, <3>1 DEF CreateVaults
  <2> QED
    BY <1>2, <2>2, <2>3 DEF Create
<1>3. ASSUME NEW id \in Ids, Release(id) \/ Cancel(id) \/ Reclaim(id)
      PROVE  E!Next
  <2>1. PICK status \in {"Released", "Cancelled", "Reclaimed"} :
          /\ vaults[id].status = "Active"
          /\ Settle(id, status,
                    IF status = "Released" THEN vaults[id].recipient ELSE vaults[id].owner)
    BY <1>3 DEF Release, Cancel, Reclaim, CanRelease, CanCancel, CanReclaim
  <2>2. E!Pay(id) \/ E!Refund(id)
    BY <2>1, SettleIsPayout
  <2> QED
    BY <2>2, DepositOfVault DEF E!Next
<1>4. ASSUME NEW id \in Ids, NEW new_owner \in Users, TransferOwnership(id, new_owner)
      PROVE  E!Next
  <2>1. E!Reassign(id, new_owner)
    BY <1>4, TransferOwnershipIsReassign
  <2> QED
    BY <2>1, DepositOfVault DEF E!Next
<1> QED
  BY <1>1, <1>2, <1>3, <1>4 DEF Next

\* ImplementsEscrow: seen through its vaults and the users' wallets, the
\* contract is an escrow that gives each deposit out once and in whole.
THEOREM VaultImplementsEscrow == Spec => ImplementsEscrow
<1>1. Init => E!Init
  BY EscrowInit
<1>2. IInv /\ [Next]_vars => [E!Next]_(E!vars)
  BY StepImplementsEscrow
<1> QED
  BY <1>1, <1>2, InvariantHolds, PTL DEF Spec, ImplementsEscrow, E!Spec

=============================================================================
