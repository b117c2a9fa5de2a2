--------------------------- MODULE DCAPolicyProofs ---------------------------
(***************************************************************************)
(* Theorems about DCAPolicy, for every set of users, tokens and amounts,   *)
(* every finite set of routers and every bound.                            *)
(*                                                                         *)
(* Solvency is inductive together with the types: a sum over policies and  *)
(* one over routers, which BookkeepingTheorems handles. ExecutionsSpaced   *)
(* is not: that the next execution is an interval after the last one is in *)
(* the policy and the last one in the records, and Times says that the two *)
(* agree; that the number of records is bounded by the ledger follows.     *)
(* That a history read page by page is the whole history, HistoryPaged,    *)
(* follows from the records having no gap.                                 *)
(***************************************************************************)
EXTENDS DCAPolicy, BookkeepingTheorems

USE AccountsAssumption, InputsAssumption, NoneAssumption, BoundsAssumption

-----------------------------------------------------------------------------
(* The parts actions are made of *)

\* What is paid in, is the contract's, and nobody else's balance changes.
LEMMA PayInEffect ==
  ASSUME TypeOK, NEW token \in Tokens, NEW owner \in Users, NEW amount \in Nat,
         PayIn(token, owner, amount)
  PROVE  /\ balance' \in [Tokens -> [Accounts -> Nat]]
         /\ balance'[token][Contract] = balance[token][Contract] + amount
         /\ \A t \in Tokens : t # token => balance'[t] = balance[t]
<1>1. owner # Contract /\ owner \in Accounts /\ Contract \in Accounts
  BY DEF Accounts
<1>2. balance \in [Tokens -> [Accounts -> Nat]]
  BY DEF TypeOK
<1>3. balance[token][owner] - amount \in Nat /\ balance[token][Contract] + amount \in Nat
  BY <1>1, <1>2 DEF PayIn
<1> QED
  BY <1>1, <1>2, <1>3 DEF PayIn

\* What is paid out, was the contract's.
LEMMA PayToEffect ==
  ASSUME TypeOK, NEW token \in Tokens, NEW account \in Users \cup Routers, NEW amount \in Nat,
         PayTo(token, account, amount)
  PROVE  /\ balance' \in [Tokens -> [Accounts -> Nat]]
         /\ balance'[token][Contract] = balance[token][Contract] - amount
         /\ \A t \in Tokens : t # token => balance'[t] = balance[t]
<1>1. account # Contract /\ account \in Accounts /\ Contract \in Accounts
  BY DEF Accounts
<1>2. balance \in [Tokens -> [Accounts -> Nat]]
  BY DEF TypeOK
<1>3. balance[token][account] + amount \in Nat /\ balance[token][Contract] - amount \in Nat
  BY <1>1, <1>2 DEF PayTo
<1> QED
  BY <1>1, <1>2, <1>3 DEF PayTo

\* The policies are where their ids say, and are what they should be.
LEMMA PolicyType ==
  ASSUME TypeOK, NEW id \in Ids
  PROVE  policies[id] \in DCAEntry
BY DEF TypeOK, Ids

\* What an execution makes of a policy.
Executed(p, output) ==
  LET left == p.remaining_budget - p.amount_per_swap
  IN  [p EXCEPT !.remaining_budget = left,
                !.executions_completed = p.executions_completed + 1,
                !.last_executed_ledger = ledger,
                !.next_execution_ledger = ledger + p.interval_ledgers,
                !.last_swap_output = output,
                !.status = IF left = 0 THEN "Exhausted" ELSE p.status]

\* It is a policy again, one swap poorer.
LEMMA ExecutedType ==
  ASSUME TypeOK, NEW p \in DCAEntry, NEW output \in Int, p.remaining_budget >= p.amount_per_swap
  PROVE  LET q == Executed(p, output)
         IN  /\ q \in DCAEntry
             /\ q.token_in = p.token_in
             /\ q.remaining_budget = p.remaining_budget - p.amount_per_swap
             /\ q.executions_completed = p.executions_completed + 1
             /\ q.last_executed_ledger = ledger
             /\ q.next_execution_ledger = ledger + p.interval_ledgers
             /\ q.status = IF q.remaining_budget = 0 THEN "Exhausted" ELSE p.status
             /\ q.total_budget = p.total_budget
             /\ q.amount_per_swap = p.amount_per_swap
             /\ q.interval_ledgers = p.interval_ledgers
             /\ q.created_ledger = p.created_ledger
<1>1. /\ p.remaining_budget - p.amount_per_swap \in Nat
      /\ p.executions_completed + 1 \in Nat
      /\ ledger \in Nat /\ ledger + p.interval_ledgers \in Nat
  <2>1. /\ p.remaining_budget \in Nat /\ p.amount_per_swap \in Nat
        /\ p.executions_completed \in Nat /\ p.interval_ledgers \in Nat
    BY DEF DCAEntry
  <2>2. ledger \in Nat
    BY DEF TypeOK
  <2> QED
    BY <2>1, <2>2
<1> QED
  BY <1>1 DEF Executed, DCAEntry, Statuses

\* One policy is replaced by another.
LEMMA PoliciesExcept ==
  ASSUME TypeOK, NEW id \in Ids, NEW q \in DCAEntry,
         policies' = [policies EXCEPT ![id] = q], counter' = counter
  PROVE  /\ policies' \in Seq(DCAEntry) /\ Len(policies') = counter'
         /\ policies'[id] = q
         /\ \A j \in Ids : j # id => policies'[j] = policies[j]
BY DEF TypeOK, Ids

-----------------------------------------------------------------------------
(* The two sums of Solvency *)

TotalOwed(token) == Total(Owed(token), counter)

\* What policies have left is a sum of natural numbers.
LEMMA OwedType ==
  ASSUME TypeOK, NEW token \in Tokens
  PROVE  (\A id \in 1..counter : Owed(token)[id] \in Nat) /\ TotalOwed(token) \in Int
<1>1. ASSUME NEW id \in 1..counter PROVE Owed(token)[id] \in Nat
  <2>1. policies[id].remaining_budget \in Nat
    BY PolicyType DEF Ids, DCAEntry
  <2> QED
    BY <2>1 DEF Owed, Ids
<1>2. counter \in Nat /\ counter \in 0..counter
  BY DEF TypeOK
<1>3. \A id \in 1..counter : Owed(token)[id] \in Int
  BY <1>1
<1> QED
  BY <1>1, <1>2, <1>3, TotalRecursion DEF TotalOwed

\* When a policy's budget changes, what is owed of its token changes alike.
LEMMA OwedChange ==
  ASSUME TypeOK, NEW id \in Ids, NEW q \in DCAEntry,
         policies' = [policies EXCEPT ![id] = q], counter' = counter,
         q.token_in = policies[id].token_in,
         NEW token \in Tokens
  PROVE  /\ token = q.token_in =>
              TotalOwed(token)' =
                TotalOwed(token) + (q.remaining_budget - policies[id].remaining_budget)
         /\ token # q.token_in => TotalOwed(token)' = TotalOwed(token)
<1> DEFINE e == IF token = q.token_in THEN q.remaining_budget - policies[id].remaining_budget ELSE 0
<1>1. counter \in Nat /\ id \in 1..counter /\ e \in Int
  <2>1. q.remaining_budget \in Nat /\ policies[id].remaining_budget \in Nat
    BY PolicyType DEF DCAEntry
  <2> QED
    BY <2>1 DEF TypeOK, Ids
<1>2. policies'[id] = q /\ \A j \in 1..counter : j # id => policies'[j] = policies[j]
  BY PoliciesExcept DEF Ids
<1>3. PICK g : g = Owed(token)'
  OBVIOUS
<1>4. \A j \in 1..counter : g[j] = IF policies'[j].token_in = token
                                     THEN policies'[j].remaining_budget ELSE 0
  BY <1>3 DEF Owed, Ids
<1>5. \A j \in 1..counter : Owed(token)[j] = IF policies[j].token_in = token
                                               THEN policies[j].remaining_budget ELSE 0
  BY DEF Owed, Ids
<1>6. g[id] = Owed(token)[id] + e
  <2>1. q.remaining_budget \in Nat /\ policies[id].remaining_budget \in Nat
    BY PolicyType DEF DCAEntry
  <2> QED
    BY <1>1, <1>2, <1>4, <1>5, <2>1
<1>7. \A j \in 1..counter : j # id => g[j] = Owed(token)[j]
  BY <1>2, <1>4, <1>5
<1>8. Total(g, counter) = Total(Owed(token), counter) + e
  <2>1. \A j \in 1..counter : Owed(token)[j] \in Int
    BY OwedType
  <2> HIDE DEF e
  <2> QED
    BY <1>1, <1>6, <1>7, <2>1, TotalChange
<1>9. TotalOwed(token)' = Total(g, counter)
  BY <1>3 DEF TotalOwed
<1>10. TotalOwed(token)' = TotalOwed(token) + e
  BY <1>8, <1>9 DEF TotalOwed
<1> QED
  BY <1>10, OwedType

\* What routers may still take is a sum of natural numbers.
LEMMA OpenType ==
  ASSUME TypeOK, NEW token \in Tokens
  PROVE  /\ \A router \in Routers : Allowed(token, router) \in Nat
         /\ OpenAllowances(token) \in Int
<1> DEFINE f == [router \in Routers |-> Allowed(token, router)]
<1>1. \A router \in Routers : Allowed(token, router) \in Nat
  BY DEF TypeOK, Allowed, Allowance
<1>2. \A router \in Routers : f[router] \in Int
  BY <1>1
<1> HIDE DEF f
<1>3. TotalOver(f, Routers) \in Int
  BY <1>2, TotalOverType
<1> QED
  BY <1>1, <1>3 DEF OpenAllowances, f

\* After a step as well.
LEMMA OpenTypePrime ==
  ASSUME TypeOK', NEW token \in Tokens
  PROVE  OpenAllowances(token)' \in Int
<1>1. PICK f : f = [router \in Routers |-> Allowed(token, router)']
  OBVIOUS
<1>2. \A router \in Routers : Allowed(token, router)' \in Nat
  BY DEF TypeOK, Allowed, Allowance
<1>3. \A router \in Routers : f[router] \in Int
  BY <1>1, <1>2
<1>4. TotalOver(f, Routers) \in Int
  BY <1>3, TotalOverType
<1> QED
  BY <1>1, <1>4 DEF OpenAllowances

\* When one router may take d more than before, so may all of them.
LEMMA OpenChange ==
  ASSUME TypeOK, NEW token \in Tokens, NEW router \in Routers, NEW d \in Int,
         Allowed(token, router)' = Allowed(token, router) + d,
         \A r \in Routers : r # router => Allowed(token, r)' = Allowed(token, r)
  PROVE  OpenAllowances(token)' = OpenAllowances(token) + d
<1>1. PICK f : f = [r \in Routers |-> Allowed(token, r)]
  OBVIOUS
<1>2. PICK g : g = [r \in Routers |-> Allowed(token, r)']
  OBVIOUS
<1>3. \A r \in Routers : f[r] \in Int
  BY <1>1, OpenType
<1>4. g[router] = f[router] + d /\ \A r \in Routers : r # router => g[r] = f[r]
  BY <1>1, <1>2
<1>5. TotalOver(g, Routers) = TotalOver(f, Routers) + d
  BY <1>3, <1>4, TotalOverChange
<1> QED
  BY <1>1, <1>2, <1>5 DEF OpenAllowances

\* When no router may take more than before, all of them may not.
LEMMA OpenShrinks ==
  ASSUME TypeOK, TypeOK', NEW token \in Tokens,
         \A r \in Routers : Allowed(token, r)' <= Allowed(token, r)
  PROVE  OpenAllowances(token)' <= OpenAllowances(token)
<1>1. PICK f : f = [r \in Routers |-> Allowed(token, r)]
  OBVIOUS
<1>2. PICK g : g = [r \in Routers |-> Allowed(token, r)']
  OBVIOUS
<1>3. \A r \in Routers : f[r] \in Int
  BY <1>1, OpenType
<1>4. \A r \in Routers : Allowed(token, r)' \in Nat
  BY DEF TypeOK, Allowed, Allowance
<1>5. \A r \in Routers : g[r] \in Int /\ g[r] <= f[r]
  BY <1>1, <1>2, <1>4
<1>6. TotalOver(g, Routers) <= TotalOver(f, Routers)
  BY <1>3, <1>5, TotalOverMonotone
<1> QED
  BY <1>1, <1>2, <1>6 DEF OpenAllowances

-----------------------------------------------------------------------------
(* The invariant *)

\* The ledger of the nth execution of a policy, and for 0 the one it was made in.
When(id, n) == IF n = 0 THEN policies[id].created_ledger ELSE records[<<id, n>>].ledger

\* The policy agrees with the last record, and the records keep their distance.
Times(id) ==
  LET p == policies[id]
  IN  /\ p.interval_ledgers >= MinInterval
      /\ p.executions_completed <= p.last_executed_ledger
      /\ p.last_executed_ledger <= ledger
      /\ p.last_executed_ledger + p.interval_ledgers <= p.next_execution_ledger
      /\ p.last_executed_ledger = When(id, p.executions_completed)
      /\ \A n \in 1..p.executions_completed : When(id, n) >= When(id, n - 1) + p.interval_ledgers

History ==
  DOMAIN records = {k \in Ids \X (1..MaxLedger) : k[2] <= policies[k[1]].executions_completed}

Spaced == ledger <= MaxLedger /\ History /\ \A id \in Ids : Times(id)

IInv == TypeOK /\ Solvency /\ BudgetAccounted /\ Spaced

\* The contract's history is spaced as it should be.
LEMMA SpacedExecutions == TypeOK /\ Spaced => ExecutionsSpaced
<1> SUFFICES ASSUME TypeOK, Spaced, NEW id \in Ids
             PROVE  LET p == policies[id]
                        when[n \in 0..p.executions_completed] ==
                          IF n = 0 THEN p.created_ledger ELSE records[<<id, n>>].ledger
                    IN  \A n \in 1..p.executions_completed :
                          when[n] >= when[n - 1] + p.interval_ledgers
  BY DEF Spaced, History, ExecutionsSpaced
<1> DEFINE p == policies[id]
           when == [n \in 0..p.executions_completed |->
                      IF n = 0 THEN p.created_ledger ELSE records[<<id, n>>].ledger]
<1>1. p.executions_completed \in Nat
  BY PolicyType DEF DCAEntry
<1>2. ASSUME NEW n \in 1..p.executions_completed
      PROVE  when[n] >= when[n - 1] + p.interval_ledgers
  <2>1. n \in 0..p.executions_completed /\ n - 1 \in 0..p.executions_completed
    BY <1>1
  <2>2. when[n] = When(id, n) /\ when[n - 1] = When(id, n - 1)
    BY <2>1 DEF When
  <2>3. When(id, n) >= When(id, n - 1) + p.interval_ledgers
    BY DEF Spaced, Times
  <2> HIDE DEF when, p
  <2> QED
    BY <2>2, <2>3
<1> QED
  BY <1>2

\* A policy that changes neither its numbers nor its past keeps its distance, as long
\* as the next execution is not brought forward.
LEMMA TimesKeep ==
  ASSUME TypeOK, Spaced, NEW id \in Ids, ledger' \in Nat, ledger' >= ledger,
         NEW q \in DCAEntry, policies'[id] = q,
         q.interval_ledgers = policies[id].interval_ledgers,
         q.executions_completed = policies[id].executions_completed,
         q.last_executed_ledger = policies[id].last_executed_ledger,
         q.created_ledger = policies[id].created_ledger,
         \/ q.next_execution_ledger = policies[id].next_execution_ledger
         \/ q.next_execution_ledger = ledger + q.interval_ledgers,
         \A n \in Nat : <<id, n>> \in DOMAIN records => records'[<<id, n>>] = records[<<id, n>>]
  PROVE  Times(id)'
<1> DEFINE p == policies[id]
<1>1. /\ p.executions_completed \in Nat /\ p.last_executed_ledger \in Nat
      /\ p.interval_ledgers \in Nat /\ p.next_execution_ledger \in Nat /\ ledger \in Nat
  BY PolicyType DEF DCAEntry, TypeOK
<1>2. Times(id) /\ ledger <= MaxLedger
  BY DEF Spaced
<1>3. ASSUME NEW n \in 0..p.executions_completed
      PROVE  When(id, n)' = When(id, n)
  <2>1. CASE n = 0
    BY <2>1 DEF When
  <2>2. CASE n # 0
    <3>1. n \in 1..MaxLedger
      BY <1>1, <1>2, <2>2 DEF Times
    <3>2. <<id, n>> \in DOMAIN records
      BY <3>1 DEF Spaced, History
    <3> QED
      BY <2>2, <3>2 DEF When
  <2> QED
    BY <2>1, <2>2
<1>4. p.executions_completed \in 0..p.executions_completed
  BY <1>1
<1>5. \A n \in 1..p.executions_completed :
        n \in 0..p.executions_completed /\ n - 1 \in 0..p.executions_completed
  BY <1>1
<1>6. q.last_executed_ledger + q.interval_ledgers <= q.next_execution_ledger
  BY <1>1, <1>2 DEF Times
<1>7. p.last_executed_ledger <= ledger'
  BY <1>1, <1>2 DEF Times
<1> QED
  BY <1>2, <1>3, <1>4, <1>5, <1>6, <1>7 DEF Times

-----------------------------------------------------------------------------
(* What a step on one policy keeps *)

\* The types.
LEMMA PolicyStepTypes ==
  ASSUME TypeOK, NEW id \in Ids, NEW q \in DCAEntry,
         policies' = [policies EXCEPT ![id] = q],
         UNCHANGED <<ledger, counter, ownerIndex>>,
         q.remaining_budget = 0 <=> q.status # "Active",
         records' \in [DOMAIN records' -> ExecutionRecord],
         balance' \in [Tokens -> [Accounts -> Nat]],
         allowance' \in [Tokens -> [Routers -> Allowance]]
  PROVE  TypeOK'
<1>1. /\ policies' \in Seq(DCAEntry) /\ Len(policies') = counter'
      /\ policies'[id] = q /\ \A j \in Ids : j # id => policies'[j] = policies[j]
  BY PoliciesExcept
<1>2. Ids' = Ids
  BY DEF Ids
<1>3. \A j \in Ids' : policies'[j].remaining_budget = 0 <=> policies'[j].status # "Active"
  BY <1>1, <1>2 DEF TypeOK
<1> QED
  BY <1>1, <1>2, <1>3 DEF TypeOK

\* Solvency, when what the policy has left and what routers may take of its token
\* grow by no more than what the contract has of it.
LEMMA PolicyStepSolvency ==
  ASSUME TypeOK, TypeOK', Solvency, NEW id \in Ids, NEW q \in DCAEntry,
         policies' = [policies EXCEPT ![id] = q], counter' = counter,
         q.token_in = policies[id].token_in,
         q.remaining_budget + OpenAllowances(q.token_in)' + balance[q.token_in][Contract]
           <= policies[id].remaining_budget + OpenAllowances(q.token_in)
                + balance'[q.token_in][Contract],
         \A t \in Tokens : t # q.token_in =>
           balance'[t] = balance[t] /\ OpenAllowances(t)' <= OpenAllowances(t)
  PROVE  Solvency'
<1> SUFFICES ASSUME NEW token \in Tokens
             PROVE  balance'[token][Contract] >= TotalOwed(token)' + OpenAllowances(token)'
  BY DEF Solvency, TotalOwed
<1>1. /\ token = q.token_in =>
           TotalOwed(token)' =
             TotalOwed(token) + (q.remaining_budget - policies[id].remaining_budget)
      /\ token # q.token_in => TotalOwed(token)' = TotalOwed(token)
  BY OwedChange
<1>2. /\ balance[token][Contract] \in Int /\ balance'[token][Contract] \in Int
      /\ balance[token][Contract] >= TotalOwed(token) + OpenAllowances(token)
  BY DEF TypeOK, Solvency, Accounts, TotalOwed
<1>3. TotalOwed(token) \in Int
  BY OwedType
<1>4. OpenAllowances(token) \in Int
  BY OpenType
<1>5. OpenAllowances(token)' \in Int
  BY OpenTypePrime
<1>6. CASE token = q.token_in
  <2>1. q.remaining_budget \in Nat /\ policies[id].remaining_budget \in Nat
    BY PolicyType DEF DCAEntry
  <2> QED
    BY <1>1, <1>2, <1>3, <1>4, <1>5, <1>6, <2>1
<1>7. CASE token # q.token_in
  BY <1>1, <1>2, <1>3, <1>4, <1>5, <1>7
<1> QED
  BY <1>6, <1>7

\* The records' distances, when the policy keeps its past.
LEMMA PolicyStepSpaced ==
  ASSUME TypeOK, TypeOK', Spaced, NEW id \in Ids, NEW q \in DCAEntry,
         policies' = [policies EXCEPT ![id] = q],
         UNCHANGED <<ledger, counter, records>>,
         q.interval_ledgers = policies[id].interval_ledgers,
         q.executions_completed = policies[id].executions_completed,
         q.last_executed_ledger = policies[id].last_executed_ledger,
         q.created_ledger = policies[id].created_ledger,
         \/ q.next_execution_ledger = policies[id].next_execution_ledger
         \/ q.next_execution_ledger = ledger + q.interval_ledgers
  PROVE  Spaced'
<1>1. policies'[id] = q /\ \A j \in Ids : j # id => policies'[j] = policies[j]
  BY PoliciesExcept
<1>2. Ids' = Ids /\ ledger \in Nat
  BY DEF Ids, TypeOK
<1>3. History'
  <2>1. \A j \in Ids : policies'[j].executions_completed = policies[j].executions_completed
    BY <1>1
  <2>2. {k \in Ids' \X (1..MaxLedger) : k[2] <= policies'[k[1]].executions_completed}
          = {k \in Ids \X (1..MaxLedger) : k[2] <= policies[k[1]].executions_completed}
    BY <1>2, <2>1
  <2> QED
    BY <2>2 DEF Spaced, History
<1>4. ASSUME NEW j \in Ids
      PROVE  Times(j)'
  <2>1. PICK r : r = policies'[j]
    OBVIOUS
  <2>2. r \in DCAEntry /\ policies[j] \in DCAEntry
    BY <1>1, <2>1, PolicyType
  <2>3. /\ r.interval_ledgers = policies[j].interval_ledgers
        /\ r.executions_completed = policies[j].executions_completed
        /\ r.last_executed_ledger = policies[j].last_executed_ledger
        /\ r.created_ledger = policies[j].created_ledger
        /\ \/ r.next_execution_ledger = policies[j].next_execution_ledger
           \/ r.next_execution_ledger = ledger + r.interval_ledgers
    BY <1>1, <2>1
  <2> QED
    BY <1>2, <2>1, <2>2, <2>3, TimesKeep
<1> QED
  BY <1>2, <1>3, <1>4 DEF Spaced

\* The budget, when what a policy put in and what it has left change alike.
LEMMA PolicyStepBudget ==
  ASSUME TypeOK, BudgetAccounted, NEW id \in Ids, NEW q \in DCAEntry,
         policies' = [policies EXCEPT ![id] = q], counter' = counter,
         q.status # "Cancelled" =>
           q.total_budget = q.executions_completed * q.amount_per_swap + q.remaining_budget
  PROVE  BudgetAccounted'
<1>1. policies'[id] = q /\ \A j \in Ids : j # id => policies'[j] = policies[j]
  BY PoliciesExcept
<1>2. Ids' = Ids
  BY DEF Ids
<1> QED
  BY <1>1, <1>2 DEF BudgetAccounted

-----------------------------------------------------------------------------
(* The actions *)

\* What an execution writes: the policy is one swap poorer, and has one record more.
LEMMA RecordEffect ==
  ASSUME TypeOK, NEW id \in Ids, CanExecute(policies[id]), NEW output \in Int,
         RecordExecution(id, output)
  PROVE  \E p, q, n :
           /\ p = policies[id] /\ q = Executed(p, output) /\ n = p.executions_completed + 1
           /\ q \in DCAEntry /\ policies' = [policies EXCEPT ![id] = q]
           /\ q.remaining_budget = 0 <=> q.status # "Active"
           /\ records' \in [DOMAIN records' -> ExecutionRecord]
           /\ DOMAIN records' = DOMAIN records \cup {<<id, n>>}
           /\ records'[<<id, n>>].ledger = ledger
           /\ \A k \in DOMAIN records : k # <<id, n>> => records'[k] = records[k]
<1>p. PICK p : p = policies[id]
  OBVIOUS
<1>q. PICK q : q = Executed(p, output)
  OBVIOUS
<1>n. PICK n : n = p.executions_completed + 1
  OBVIOUS
<1>1. PICK r : r = [index |-> n, dca_id |-> id, ledger |-> ledger,
                    amount_in |-> p.amount_per_swap, amount_out |-> output,
                    remaining_budget |-> p.remaining_budget - p.amount_per_swap,
                    next_execution_ledger |-> ledger + p.interval_ledgers,
                    swapped |-> Swaps(p)]
  OBVIOUS
<1>2. p \in DCAEntry /\ p.remaining_budget >= p.amount_per_swap /\ p.status = "Active"
  BY <1>p, PolicyType DEF CanExecute
<1>3. q \in DCAEntry /\ q.status = IF q.remaining_budget = 0 THEN "Exhausted" ELSE p.status
  BY <1>q, <1>2, ExecutedType
<1>4. policies' = [policies EXCEPT ![id] = q]
  BY <1>p, <1>q DEF RecordExecution, Executed
<1>5. q.remaining_budget = 0 <=> q.status # "Active"
  BY <1>2, <1>3
<1>6. r \in ExecutionRecord /\ r.ledger = ledger
  <2>1. /\ p.remaining_budget \in Nat /\ p.amount_per_swap \in Nat
        /\ p.executions_completed \in Nat /\ p.interval_ledgers \in Nat
    BY <1>2 DEF DCAEntry
  <2>2. ledger \in Nat /\ id \in Nat \ {0}
    BY DEF TypeOK, Ids
  <2>3. Swaps(p) \in BOOLEAN
    BY DEF Swaps
  <2>4. /\ n \in Nat \ {0} /\ p.remaining_budget - p.amount_per_swap \in Nat
        /\ ledger + p.interval_ledgers \in Nat
    BY <1>n, <1>2, <2>1, <2>2
  <2> QED
    BY <1>1, <2>1, <2>2, <2>3, <2>4 DEF ExecutionRecord
<1>7. records' = [k \in DOMAIN records \cup {<<id, n>>} |-> IF k # <<id, n>> THEN records[k] ELSE r]
  BY <1>p, <1>n, <1>1 DEF RecordExecution
<1>8. records \in [DOMAIN records -> ExecutionRecord]
  BY DEF TypeOK
<1>9. /\ records' \in [DOMAIN records' -> ExecutionRecord]
      /\ DOMAIN records' = DOMAIN records \cup {<<id, n>>}
      /\ records'[<<id, n>>] = r
      /\ \A k \in DOMAIN records : k # <<id, n>> => records'[k] = records[k]
  BY <1>6, <1>7, <1>8
<1> QED
  BY <1>p, <1>q, <1>n, <1>3, <1>4, <1>5, <1>6, <1>9

\* The record of an execution is an interval after the one before it.
LEMMA RecordSpaced ==
  ASSUME TypeOK, Spaced, NEW id \in Ids, CanExecute(policies[id]), NEW output \in Int,
         RecordExecution(id, output), UNCHANGED <<ledger, counter>>
  PROVE  Spaced'
<1>1. PICK p, q, n :
        /\ p = policies[id] /\ q = Executed(p, output) /\ n = p.executions_completed + 1
        /\ q \in DCAEntry /\ policies' = [policies EXCEPT ![id] = q]
        /\ q.remaining_budget = 0 <=> q.status # "Active"
        /\ records' \in [DOMAIN records' -> ExecutionRecord]
        /\ DOMAIN records' = DOMAIN records \cup {<<id, n>>}
        /\ records'[<<id, n>>].ledger = ledger
        /\ \A k \in DOMAIN records : k # <<id, n>> => records'[k] = records[k]
  BY RecordEffect
<1>5. /\ p \in DCAEntry /\ p.remaining_budget >= p.amount_per_swap
      /\ ledger >= p.next_execution_ledger
  BY <1>1, PolicyType DEF CanExecute
<1>6. /\ p.executions_completed \in Nat /\ p.last_executed_ledger \in Nat
      /\ p.interval_ledgers \in Nat /\ p.next_execution_ledger \in Nat /\ ledger \in Nat
  BY <1>5 DEF DCAEntry, TypeOK
<1>7. /\ q.executions_completed = n /\ q.last_executed_ledger = ledger
      /\ q.next_execution_ledger = ledger + p.interval_ledgers
      /\ q.interval_ledgers = p.interval_ledgers /\ q.created_ledger = p.created_ledger
  BY <1>1, <1>5, ExecutedType
<1>8. Times(id) /\ ledger <= MaxLedger /\ Ids' = Ids
  BY DEF Spaced, Ids
<1>9. n \in 1..ledger /\ n \in 1..MaxLedger
  BY <1>1, <1>5, <1>6, <1>8 DEF Times
<1>10. policies'[id] = q /\ \A j \in Ids : j # id => policies'[j] = policies[j]
  BY <1>1, PoliciesExcept
<1>11. History'
  <2>1. ASSUME NEW k \in Ids \X (1..MaxLedger)
        PROVE  k[2] <= policies'[k[1]].executions_completed
                 <=> k[2] <= policies[k[1]].executions_completed \/ k = <<id, n>>
    <3>1. CASE k[1] = id
      BY <1>1, <1>6, <1>7, <1>10, <3>1
    <3>2. CASE k[1] # id
      BY <1>10, <3>2
    <3> QED
      BY <3>1, <3>2
  <2>2. <<id, n>> \in Ids \X (1..MaxLedger)
    BY <1>9
  <2>3. {k \in Ids \X (1..MaxLedger) : k[2] <= policies'[k[1]].executions_completed}
          = {k \in Ids \X (1..MaxLedger) : k[2] <= policies[k[1]].executions_completed}
              \cup {<<id, n>>}
    BY <2>1, <2>2
  <2> QED
    BY <1>1, <1>8, <2>3 DEF Spaced, History
<1>12. Times(id)'
  <2>1. ASSUME NEW m \in 0..p.executions_completed
        PROVE  When(id, m)' = When(id, m)
    <3>1. CASE m = 0
      BY <1>1, <1>7, <1>10, <3>1 DEF When
    <3>2. CASE m # 0
      <4>1. <<id, m>> \in DOMAIN records /\ <<id, m>> # <<id, n>>
        BY <1>1, <1>6, <1>9, <3>2 DEF Spaced, History
      <4> QED
        BY <1>1, <3>2, <4>1 DEF When
    <3> QED
      BY <3>1, <3>2
  <2>2. When(id, n)' = ledger
    BY <1>1, <1>9 DEF When
  <2>3. When(id, n - 1)' = p.last_executed_ledger
    <3>1. n - 1 = p.executions_completed /\ n - 1 \in 0..p.executions_completed
      BY <1>1, <1>6
    <3> QED
      BY <1>1, <1>8, <2>1, <3>1 DEF Times
  <2>4. ledger >= p.last_executed_ledger + p.interval_ledgers
    BY <1>1, <1>5, <1>6, <1>8 DEF Times
  <2>5. ASSUME NEW m \in 1..n
        PROVE  When(id, m)' >= When(id, m - 1)' + p.interval_ledgers
    <3>1. CASE m = n
      BY <2>2, <2>3, <2>4, <3>1
    <3>2. CASE m # n
      <4>1. m \in 1..p.executions_completed
        BY <1>1, <1>6, <3>2
      <4>2. m \in 0..p.executions_completed /\ m - 1 \in 0..p.executions_completed
        BY <1>6, <4>1
      <4> QED
        BY <1>1, <1>8, <2>1, <4>1, <4>2 DEF Times
    <3> QED
      BY <3>1, <3>2
  <2>6. q.interval_ledgers >= MinInterval
    BY <1>1, <1>7, <1>8 DEF Times
  <2> QED
    BY <1>1, <1>6, <1>7, <1>9, <1>10, <2>2, <2>5, <2>6 DEF Times
<1>13. ASSUME NEW j \in Ids, j # id
       PROVE  Times(j)'
  <2>1. policies[j] \in DCAEntry /\ policies'[j] = policies[j]
    BY <1>10, <1>13, PolicyType
  <2>2. \A m \in Nat : <<j, m>> \in DOMAIN records => records'[<<j, m>>] = records[<<j, m>>]
    BY <1>1, <1>13
  <2> QED
    BY <1>6, <2>1, <2>2, TimesKeep
<1> QED
  BY <1>8, <1>11, <1>12, <1>13 DEF Spaced

\* Neither time nor allowances: routers may take what they could.
LEMMA OpenKeep ==
  ASSUME UNCHANGED <<ledger, allowance>>, NEW token \in Tokens
  PROVE  OpenAllowances(token)' = OpenAllowances(token)
BY DEF OpenAllowances, Allowed

\* An execution uses one amount, out of what was left.
LEMMA RecordBudget ==
  ASSUME TypeOK, BudgetAccounted, NEW id \in Ids, CanExecute(policies[id]), NEW output \in Int,
         RecordExecution(id, output), counter' = counter
  PROVE  BudgetAccounted'
<1>1. PICK p, q, n :
        /\ p = policies[id] /\ q = Executed(p, output) /\ n = p.executions_completed + 1
        /\ q \in DCAEntry /\ policies' = [policies EXCEPT ![id] = q]
        /\ q.remaining_budget = 0 <=> q.status # "Active"
        /\ records' \in [DOMAIN records' -> ExecutionRecord]
        /\ DOMAIN records' = DOMAIN records \cup {<<id, n>>}
        /\ records'[<<id, n>>].ledger = ledger
        /\ \A k \in DOMAIN records : k # <<id, n>> => records'[k] = records[k]
  BY RecordEffect
<1>2. p \in DCAEntry /\ p.remaining_budget >= p.amount_per_swap /\ p.status = "Active"
  BY <1>1, PolicyType DEF CanExecute
<1>3. /\ q.remaining_budget = p.remaining_budget - p.amount_per_swap
      /\ q.executions_completed = p.executions_completed + 1
      /\ q.total_budget = p.total_budget /\ q.amount_per_swap = p.amount_per_swap
  BY <1>1, <1>2, ExecutedType
<1>4. p.total_budget = p.executions_completed * p.amount_per_swap + p.remaining_budget
  BY <1>1, <1>2 DEF BudgetAccounted
<1>5. (p.executions_completed + 1) * p.amount_per_swap
        = p.executions_completed * p.amount_per_swap + p.amount_per_swap
  <2>1. p.executions_completed \in Nat /\ p.amount_per_swap \in Nat
    BY <1>2 DEF DCAEntry
  <2> QED
    BY <2>1
<1>6. q.total_budget = q.executions_completed * q.amount_per_swap + q.remaining_budget
  <2>1. /\ p.executions_completed * p.amount_per_swap \in Int
        /\ p.amount_per_swap \in Int /\ p.remaining_budget \in Int
    BY <1>2 DEF DCAEntry
  <2> QED
    BY <1>3, <1>4, <1>5, <2>1
<1> QED
  BY <1>1, <1>6, PolicyStepBudget

\* An execution keeps everything, if what is paid and what may still be taken is
\* no more than the amount of one swap.
LEMMA ExecutionKeeps ==
  ASSUME IInv, NEW id \in Ids, CanExecute(policies[id]), NEW output \in Int,
         RecordExecution(id, output), UNCHANGED <<ledger, counter, ownerIndex>>,
         NEW account \in Users \cup Routers, NEW amount \in Nat,
         NEW token \in Tokens, token = policies[id].token_in, PayTo(token, account, amount),
         allowance' \in [Tokens -> [Routers -> Allowance]],
         TypeOK' => amount + OpenAllowances(token)'
                      <= policies[id].amount_per_swap + OpenAllowances(token),
         TypeOK' => \A t \in Tokens : t # token => OpenAllowances(t)' <= OpenAllowances(t)
  PROVE  IInv'
<1>1. PICK p, q, n :
        /\ p = policies[id] /\ q = Executed(p, output) /\ n = p.executions_completed + 1
        /\ q \in DCAEntry /\ policies' = [policies EXCEPT ![id] = q]
        /\ q.remaining_budget = 0 <=> q.status # "Active"
        /\ records' \in [DOMAIN records' -> ExecutionRecord]
        /\ DOMAIN records' = DOMAIN records \cup {<<id, n>>}
        /\ records'[<<id, n>>].ledger = ledger
        /\ \A k \in DOMAIN records : k # <<id, n>> => records'[k] = records[k]
  BY RecordEffect DEF IInv
<1>2. p \in DCAEntry /\ p.remaining_budget >= p.amount_per_swap
  BY <1>1, PolicyType DEF CanExecute, IInv
<1>3. q.remaining_budget = p.remaining_budget - p.amount_per_swap /\ q.token_in = p.token_in
  BY <1>1, <1>2, ExecutedType DEF IInv
<1>4. p.token_in \in Tokens /\ p.remaining_budget \in Nat /\ p.amount_per_swap \in Nat
  BY <1>2 DEF DCAEntry
<1>5. /\ balance' \in [Tokens -> [Accounts -> Nat]]
      /\ balance'[p.token_in][Contract] = balance[p.token_in][Contract] - amount
      /\ \A t \in Tokens : t # p.token_in => balance'[t] = balance[t]
  BY <1>1, <1>4, PayToEffect DEF IInv
<1>6. TypeOK'
  BY <1>1, <1>5, PolicyStepTypes DEF IInv
<1>7. q.remaining_budget + OpenAllowances(q.token_in)' + balance[q.token_in][Contract]
        <= policies[id].remaining_budget + OpenAllowances(q.token_in)
             + balance'[q.token_in][Contract]
  <2>1. OpenAllowances(p.token_in) \in Int
    BY <1>4, OpenType DEF IInv
  <2>2. OpenAllowances(p.token_in)' \in Int
    BY <1>4, <1>6, OpenTypePrime DEF IInv
  <2>3. balance[p.token_in][Contract] \in Int
    BY <1>4 DEF IInv, TypeOK, Accounts
  <2>4. amount + OpenAllowances(p.token_in)' <= p.amount_per_swap + OpenAllowances(p.token_in)
    BY <1>1, <1>6
  <2>5. OpenAllowances(q.token_in)' = OpenAllowances(p.token_in)'
    BY <1>3
  <2> QED
    BY <1>1, <1>3, <1>4, <1>5, <2>1, <2>2, <2>3, <2>4, <2>5
<1>8. Solvency'
  BY <1>1, <1>3, <1>5, <1>6, <1>7, PolicyStepSolvency DEF IInv
<1>9. BudgetAccounted' /\ Spaced'
  BY RecordBudget, RecordSpaced DEF IInv
<1> QED
  BY <1>6, <1>8, <1>9 DEF IInv

\* A plain transfer.
LEMMA ExecuteTransferKeeps ==
  ASSUME IInv, NEW id \in Ids, ExecuteTransfer(id)
  PROVE  IInv'
<1>1. PICK p : p = policies[id]
  OBVIOUS
<1>2. /\ p \in DCAEntry /\ p.token_in \in Tokens /\ p.swap_receiver \in Users
      /\ p.amount_per_swap \in Nat
  BY <1>1, PolicyType DEF IInv, DCAEntry
<1>3. PICK token \in Tokens : token = policies[id].token_in
  BY <1>1, <1>2
<1>4. /\ CanExecute(p) /\ PayTo(token, p.swap_receiver, p.amount_per_swap)
      /\ RecordExecution(id, p.amount_per_swap)
      /\ UNCHANGED <<ledger, counter, ownerIndex>> /\ UNCHANGED allowance
  BY <1>1, <1>3 DEF ExecuteTransfer
<1>5. allowance' \in [Tokens -> [Routers -> Allowance]]
  BY <1>4 DEF IInv, TypeOK
<1>6. ASSUME NEW t \in Tokens
      PROVE  OpenAllowances(t)' = OpenAllowances(t) /\ OpenAllowances(t) \in Int
  BY <1>4, OpenKeep, OpenType DEF IInv
<1> QED
  BY <1>1, <1>2, <1>3, <1>4, <1>5, <1>6, ExecutionKeeps

\* A swap: the router's allowance is given anew, and what it took is not in it.
LEMMA ExecuteSwapKeeps ==
  ASSUME IInv, NEW id \in Ids, NEW taken \in 0..policies[id].amount_per_swap,
         NEW output \in Outputs, ExecuteSwap(id, taken, output)
  PROVE  IInv'
<1>1. PICK p : p = policies[id]
  OBVIOUS
<1>2. p \in DCAEntry /\ p.token_in \in Tokens /\ p.amount_per_swap \in Nat
  BY <1>1, PolicyType DEF IInv, DCAEntry
<1>3. PICK token \in Tokens : token = policies[id].token_in
  BY <1>1, <1>2
<1>4. PICK router \in Routers : router = p.router
  BY <1>1, <1>2 DEF ExecuteSwap, Swaps, DCAEntry
<1>5. PICK left : left = p.amount_per_swap - taken
  OBVIOUS
<1>6. /\ CanExecute(p) /\ PayTo(token, router, taken) /\ RecordExecution(id, output)
      /\ UNCHANGED <<ledger, counter, ownerIndex>>
      /\ allowance' = [allowance EXCEPT ![token][router] =
                         [amount |-> left, until |-> ledger + Approval]]
  BY <1>1, <1>3, <1>4, <1>5 DEF ExecuteSwap
<1>7. taken \in Nat /\ left \in Nat /\ ledger \in Nat /\ output \in Int /\ ledger + Approval \in Nat
  BY <1>1, <1>2, <1>5, SMTT(30) DEF IInv, TypeOK
<1>8. /\ allowance' \in [Tokens -> [Routers -> Allowance]]
      /\ allowance'[token][router] = [amount |-> left, until |-> ledger + Approval]
      /\ \A r \in Routers : r # router => allowance'[token][r] = allowance[token][r]
      /\ \A t \in Tokens : t # token => allowance'[t] = allowance[t]
  <2>1. [amount |-> left, until |-> ledger + Approval] \in Allowance
    BY <1>7 DEF Allowance
  <2>2. allowance \in [Tokens -> [Routers -> Allowance]]
    BY DEF IInv, TypeOK
  <2> QED
    BY <1>6, <2>1, <2>2
<1>9. PICK old : old = Allowed(token, router)
  OBVIOUS
<1>10. old \in Nat
  BY <1>9, OpenType DEF IInv
<1>11. OpenAllowances(token)' = OpenAllowances(token) + (left - old)
  <2>1. Allowed(token, router)' = left
    BY <1>6, <1>7, <1>8 DEF Allowed
  <2>2. \A r \in Routers : r # router => Allowed(token, r)' = Allowed(token, r)
    BY <1>6, <1>8 DEF Allowed
  <2>3. Allowed(token, router)' = Allowed(token, router) + (left - old) /\ left - old \in Int
    BY <1>7, <1>9, <1>10, <2>1
  <2> QED
    BY <2>2, <2>3, OpenChange DEF IInv
<1>12. ASSUME TypeOK', NEW t \in Tokens, t # token
       PROVE  OpenAllowances(t)' <= OpenAllowances(t)
  <2>1. \A r \in Routers : Allowed(t, r)' = Allowed(t, r) /\ Allowed(t, r) \in Nat
    BY <1>6, <1>8, <1>12, OpenType DEF Allowed, IInv
  <2>2. \A r \in Routers : Allowed(t, r)' <= Allowed(t, r)
    BY <2>1
  <2> QED
    BY <1>12, <2>2, OpenShrinks DEF IInv
<1>13. taken + OpenAllowances(token)' <= p.amount_per_swap + OpenAllowances(token)
  <2>1. OpenAllowances(token) \in Int
    BY OpenType DEF IInv
  <2> QED
    BY <1>2, <1>5, <1>7, <1>10, <1>11, <2>1
<1> QED
  BY <1>1, <1>3, <1>6, <1>7, <1>8, <1>12, <1>13, ExecutionKeeps

\* Without policies and history changing, their properties keep.
LEMMA NothingRecorded ==
  ASSUME TypeOK, UNCHANGED <<ledger, counter, policies, records>>
  PROVE  /\ \A token \in Tokens : TotalOwed(token)' = TotalOwed(token)
         /\ BudgetAccounted => BudgetAccounted'
         /\ Spaced => Spaced'
<1>1. \A token \in Tokens : TotalOwed(token)' = TotalOwed(token)
  BY DEF TotalOwed, Owed, Ids
<1>2. BudgetAccounted => BudgetAccounted'
  BY DEF BudgetAccounted, Ids
<1>3. \A id \in Ids : Times(id)' <=> Times(id)
  BY DEF Times, When
<1>4. Spaced => Spaced'
  BY <1>3 DEF Spaced, History, Ids
<1> QED
  BY <1>1, <1>2, <1>4

\* A router that comes back takes what it was allowed.
LEMMA RouterTakesKeeps ==
  ASSUME IInv, NEW token \in Tokens, NEW router \in Routers,
         NEW amount \in 1..Allowed(token, router), RouterTakes(token, router, amount)
  PROVE  IInv'
<1>1. Allowed(token, router) \in Nat /\ amount \in Nat
  BY OpenType DEF IInv
<1>2. /\ balance' \in [Tokens -> [Accounts -> Nat]]
      /\ balance'[token][Contract] = balance[token][Contract] - amount
      /\ \A t \in Tokens : t # token => balance'[t] = balance[t]
  BY <1>1, PayToEffect DEF RouterTakes, IInv
<1>3. allowance \in [Tokens -> [Routers -> Allowance]]
  BY DEF IInv, TypeOK
<1>4. /\ ledger <= allowance[token][router].until
      /\ Allowed(token, router) = allowance[token][router].amount
  BY <1>1 DEF Allowed
<1>5. PICK new : new = [allowance[token][router] EXCEPT !.amount = @ - amount]
  OBVIOUS
<1>6. /\ new \in Allowance /\ new.until = allowance[token][router].until
      /\ new.amount = allowance[token][router].amount - amount
  BY <1>1, <1>3, <1>4, <1>5 DEF Allowance
<1>7. allowance' = [allowance EXCEPT ![token] = [allowance[token] EXCEPT ![router] = new]]
  BY <1>3, <1>5 DEF RouterTakes
<1>8. /\ allowance' \in [Tokens -> [Routers -> Allowance]]
      /\ allowance'[token][router] = new
      /\ \A r \in Routers : r # router => allowance'[token][r] = allowance[token][r]
      /\ \A t \in Tokens : t # token => allowance'[t] = allowance[t]
  BY <1>3, <1>6, <1>7
<1>9. UNCHANGED <<ledger, counter, policies, ownerIndex, records>>
  BY DEF RouterTakes
<1>10. TypeOK'
  BY <1>2, <1>8, <1>9 DEF IInv, TypeOK, Ids
<1>11. OpenAllowances(token)' = OpenAllowances(token) + (0 - amount)
  <2>1. Allowed(token, router)' = Allowed(token, router) + (0 - amount)
    BY <1>1, <1>4, <1>6, <1>8, <1>9 DEF Allowed
  <2>2. \A r \in Routers : r # router => Allowed(token, r)' = Allowed(token, r)
    BY <1>8, <1>9 DEF Allowed
  <2>3. 0 - amount \in Int
    BY <1>1
  <2> QED
    BY <2>1, <2>2, <2>3, OpenChange DEF IInv
<1>12. ASSUME NEW t \in Tokens, t # token
       PROVE  OpenAllowances(t)' <= OpenAllowances(t)
  <2>1. \A r \in Routers : Allowed(t, r)' = Allowed(t, r) /\ Allowed(t, r) \in Nat
    BY <1>8, <1>9, <1>12, OpenType DEF Allowed, IInv
  <2>2. \A r \in Routers : Allowed(t, r)' <= Allowed(t, r)
    BY <2>1
  <2> QED
    BY <1>10, <2>2, OpenShrinks DEF IInv
<1>13. Solvency'
  <2> SUFFICES ASSUME NEW t \in Tokens
               PROVE  balance'[t][Contract] >= TotalOwed(t)' + OpenAllowances(t)'
    BY DEF Solvency, TotalOwed
  <2>1. balance[t][Contract] >= TotalOwed(t) + OpenAllowances(t) /\ TotalOwed(t)' = TotalOwed(t)
    BY <1>9, NothingRecorded DEF Solvency, TotalOwed, IInv
  <2>2. balance[t][Contract] \in Int /\ TotalOwed(t) \in Int /\ OpenAllowances(t) \in Int
    <3>1. balance[t][Contract] \in Int
      BY DEF IInv, TypeOK, Accounts
    <3>2. TotalOwed(t) \in Int /\ OpenAllowances(t) \in Int
      BY OwedType, OpenType DEF IInv
    <3> QED
      BY <3>1, <3>2
  <2>3. OpenAllowances(t)' \in Int
    BY <1>10, OpenTypePrime DEF IInv
  <2>4. CASE t = token
    BY <1>1, <1>2, <1>11, <2>1, <2>2, <2>4
  <2>5. CASE t # token
    BY <1>2, <1>12, <2>1, <2>2, <2>3, <2>5
  <2> QED
    BY <2>4, <2>5
<1> QED
  BY <1>9, <1>10, <1>13, NothingRecorded DEF IInv

\* The owner takes what is left, and the policy ends.
LEMMA CancelKeeps ==
  ASSUME IInv, NEW id \in Ids, Cancel(id)
  PROVE  IInv'
<1>1. PICK p : p = policies[id]
  OBVIOUS
<1>2. /\ p \in DCAEntry /\ p.token_in \in Tokens /\ p.owner \in Users
      /\ p.remaining_budget \in Nat
  BY <1>1, PolicyType DEF IInv, DCAEntry
<1>3. PICK q : q = [[p EXCEPT !.status = "Cancelled"] EXCEPT !.remaining_budget = 0]
  OBVIOUS
<1>4. /\ q \in DCAEntry /\ q.token_in = p.token_in
      /\ q.remaining_budget = 0 /\ q.status = "Cancelled"
      /\ q.interval_ledgers = p.interval_ledgers
      /\ q.executions_completed = p.executions_completed
      /\ q.last_executed_ledger = p.last_executed_ledger
      /\ q.created_ledger = p.created_ledger
      /\ q.next_execution_ledger = p.next_execution_ledger
  BY <1>2, <1>3 DEF DCAEntry, Statuses
<1>5. policies' = [policies EXCEPT ![id] = q]
  <2>1. id \in DOMAIN policies
    BY DEF IInv, TypeOK, Ids
  <2> QED
    BY <1>1, <1>3, <2>1 DEF Cancel
<1>6. PayTo(p.token_in, p.owner, p.remaining_budget)
  BY <1>1 DEF Cancel
<1>7. UNCHANGED <<ledger, counter, ownerIndex, records, allowance>>
  BY DEF Cancel
<1>8. /\ balance' \in [Tokens -> [Accounts -> Nat]]
      /\ balance'[p.token_in][Contract] = balance[p.token_in][Contract] - p.remaining_budget
      /\ \A t \in Tokens : t # p.token_in => balance'[t] = balance[t]
  BY <1>2, <1>6, PayToEffect DEF IInv
<1>9. TypeOK'
  <2>1. /\ records' \in [DOMAIN records' -> ExecutionRecord]
        /\ allowance' \in [Tokens -> [Routers -> Allowance]]
    BY <1>7 DEF IInv, TypeOK
  <2> QED
    BY <1>4, <1>5, <1>7, <1>8, <2>1, PolicyStepTypes DEF IInv
<1>10. ASSUME NEW t \in Tokens
       PROVE  OpenAllowances(t)' = OpenAllowances(t) /\ OpenAllowances(t) \in Int
  BY <1>7, OpenKeep, OpenType DEF IInv
<1>11. Solvency'
  <2>1. balance[p.token_in][Contract] \in Int
    BY <1>2 DEF IInv, TypeOK, Accounts
  <2>2. q.remaining_budget + OpenAllowances(q.token_in)' + balance[q.token_in][Contract]
          <= policies[id].remaining_budget + OpenAllowances(q.token_in)
               + balance'[q.token_in][Contract]
    BY <1>1, <1>2, <1>4, <1>8, <1>10, <2>1
  <2>3. \A t \in Tokens : t # q.token_in =>
          balance'[t] = balance[t] /\ OpenAllowances(t)' <= OpenAllowances(t)
    BY <1>4, <1>8, <1>10
  <2> QED
    BY <1>1, <1>4, <1>5, <1>7, <1>9, <2>2, <2>3, PolicyStepSolvency DEF IInv
<1>12. BudgetAccounted'
  BY <1>4, <1>5, <1>7, PolicyStepBudget DEF IInv
<1>13. Spaced'
  BY <1>1, <1>4, <1>5, <1>7, <1>9, PolicyStepSpaced DEF IInv
<1> QED
  BY <1>9, <1>11, <1>12, <1>13 DEF IInv

\* What the owner adds is the contract's, and the policy's to spend.
LEMMA TopUpKeeps ==
  ASSUME IInv, NEW id \in Ids, NEW amount \in TopUps, TopUp(id, amount)
  PROVE  IInv'
<1>1. PICK p : p = policies[id]
  OBVIOUS
<1>2. /\ p \in DCAEntry /\ p.token_in \in Tokens /\ p.owner \in Users
      /\ p.remaining_budget \in Nat /\ p.total_budget \in Nat /\ p.interval_ledgers \in Nat
      /\ p.next_execution_ledger \in Nat /\ p.executions_completed \in Nat
      /\ p.amount_per_swap \in Nat
  BY <1>1, PolicyType DEF IInv, DCAEntry
<1>3. /\ amount > 0 /\ p.status # "Cancelled" /\ PayIn(p.token_in, p.owner, amount)
      /\ UNCHANGED <<ledger, counter, ownerIndex, records, allowance>>
      /\ amount \in Nat /\ ledger \in Nat
  BY <1>1 DEF TopUp, IInv, TypeOK
<1>4. PICK next : next = IF p.status = "Exhausted" THEN ledger + p.interval_ledgers
                                                   ELSE p.next_execution_ledger
  OBVIOUS
<1>5. next \in Nat
  BY <1>2, <1>3, <1>4
<1>6. PICK q : q = [p EXCEPT !.total_budget = p.total_budget + amount,
                             !.remaining_budget = p.remaining_budget + amount,
                             !.status = "Active", !.next_execution_ledger = next]
  OBVIOUS
<1>7. q \in DCAEntry
  <2>1. p.total_budget + amount \in Nat \ {0} /\ p.remaining_budget + amount \in Nat
    BY <1>2, <1>3
  <2> QED
    BY <1>2, <1>5, <1>6, <2>1 DEF DCAEntry, Statuses
<1>8. /\ q.token_in = p.token_in
      /\ q.remaining_budget = p.remaining_budget + amount /\ q.status = "Active"
      /\ q.total_budget = p.total_budget + amount
      /\ q.interval_ledgers = p.interval_ledgers
      /\ q.executions_completed = p.executions_completed
      /\ q.amount_per_swap = p.amount_per_swap
      /\ q.last_executed_ledger = p.last_executed_ledger
      /\ q.created_ledger = p.created_ledger
      /\ q.next_execution_ledger = next
  BY <1>2, <1>6 DEF DCAEntry
<1>9. policies' = [policies EXCEPT ![id] = q]
  BY <1>1, <1>4, <1>6 DEF TopUp
<1>10. /\ balance' \in [Tokens -> [Accounts -> Nat]]
       /\ balance'[p.token_in][Contract] = balance[p.token_in][Contract] + amount
       /\ \A t \in Tokens : t # p.token_in => balance'[t] = balance[t]
  BY <1>2, <1>3, PayInEffect DEF IInv
<1>11. TypeOK'
  <2>1. /\ records' \in [DOMAIN records' -> ExecutionRecord]
        /\ allowance' \in [Tokens -> [Routers -> Allowance]]
    BY <1>3 DEF IInv, TypeOK
  <2>2. q.remaining_budget = 0 <=> q.status # "Active"
    BY <1>2, <1>3, <1>8
  <2> QED
    BY <1>3, <1>7, <1>9, <1>10, <2>1, <2>2, PolicyStepTypes DEF IInv
<1>12. ASSUME NEW t \in Tokens
       PROVE  OpenAllowances(t)' = OpenAllowances(t) /\ OpenAllowances(t) \in Int
  BY <1>3, OpenKeep, OpenType DEF IInv
<1>13. Solvency'
  <2>1. balance[p.token_in][Contract] \in Int
    BY <1>2 DEF IInv, TypeOK, Accounts
  <2>2. q.remaining_budget + OpenAllowances(q.token_in)' + balance[q.token_in][Contract]
          <= policies[id].remaining_budget + OpenAllowances(q.token_in)
               + balance'[q.token_in][Contract]
    BY <1>1, <1>2, <1>3, <1>8, <1>10, <1>12, <2>1
  <2>3. \A t \in Tokens : t # q.token_in =>
          balance'[t] = balance[t] /\ OpenAllowances(t)' <= OpenAllowances(t)
    BY <1>8, <1>10, <1>12
  <2> QED
    BY <1>1, <1>3, <1>7, <1>8, <1>9, <1>11, <2>2, <2>3, PolicyStepSolvency DEF IInv
<1>14. BudgetAccounted'
  <2>1. p.total_budget = p.executions_completed * p.amount_per_swap + p.remaining_budget
    BY <1>1, <1>3 DEF IInv, BudgetAccounted
  <2>2. p.executions_completed * p.amount_per_swap \in Int
    BY <1>2
  <2>3. q.total_budget = q.executions_completed * q.amount_per_swap + q.remaining_budget
    BY <1>2, <1>3, <1>8, <2>1, <2>2
  <2> QED
    BY <1>3, <1>7, <1>9, <2>3, PolicyStepBudget DEF IInv
<1>15. Spaced'
  <2>1. \/ q.next_execution_ledger = policies[id].next_execution_ledger
        \/ q.next_execution_ledger = ledger + q.interval_ledgers
    BY <1>1, <1>4, <1>8
  <2> QED
    BY <1>1, <1>3, <1>7, <1>8, <1>9, <1>11, <2>1, PolicyStepSpaced DEF IInv
<1> QED
  BY <1>11, <1>13, <1>14, <1>15 DEF IInv

\* Time passes: allowances may run out.
LEMMA CloseLedgerKeeps ==
  ASSUME IInv, CloseLedger
  PROVE  IInv'
<1>1. /\ ledger \in Nat /\ ledger' = ledger + 1 /\ ledger < MaxLedger
      /\ UNCHANGED <<counter, policies, ownerIndex, records, balance, allowance>>
  BY DEF CloseLedger, IInv, TypeOK
<1>2. TypeOK'
  BY <1>1 DEF IInv, TypeOK, Ids
<1>3. Solvency'
  <2> SUFFICES ASSUME NEW t \in Tokens
               PROVE  balance'[t][Contract] >= TotalOwed(t)' + OpenAllowances(t)'
    BY DEF Solvency, TotalOwed
  <2>1. balance[t][Contract] >= TotalOwed(t) + OpenAllowances(t)
    BY DEF Solvency, TotalOwed, IInv
  <2>2. TotalOwed(t)' = TotalOwed(t)
    BY <1>1 DEF TotalOwed, Owed, Ids
  <2>3. OpenAllowances(t)' <= OpenAllowances(t)
    <3>1. allowance \in [Tokens -> [Routers -> Allowance]]
      BY DEF IInv, TypeOK
    <3>2. \A r \in Routers : Allowed(t, r)' <= Allowed(t, r)
      BY <1>1, <3>1 DEF Allowed, Allowance
    <3> QED
      BY <1>2, <3>2, OpenShrinks DEF IInv
  <2>4. balance[t][Contract] \in Int
    BY DEF IInv, TypeOK, Accounts
  <2>5. TotalOwed(t) \in Int /\ OpenAllowances(t) \in Int
    BY OwedType, OpenType DEF IInv
  <2>6. OpenAllowances(t)' \in Int
    BY <1>2, OpenTypePrime DEF IInv
  <2> QED
    BY <1>1, <2>1, <2>2, <2>3, <2>4, <2>5, <2>6
<1>4. BudgetAccounted'
  BY <1>1 DEF IInv, BudgetAccounted, Ids
<1>5. Spaced'
  <2>1. ledger' \in Nat /\ ledger' >= ledger /\ ledger' <= MaxLedger /\ Ids' = Ids
    BY <1>1 DEF Ids
  <2>2. History'
    BY <1>1, <2>1 DEF IInv, Spaced, History
  <2>3. ASSUME NEW j \in Ids
        PROVE  Times(j)'
    <3>1. policies[j] \in DCAEntry /\ policies'[j] = policies[j]
      BY <1>1, PolicyType DEF IInv
    <3> QED
      BY <1>1, <2>1, <3>1, TimesKeep DEF IInv
  <2> QED
    BY <2>1, <2>2, <2>3 DEF Spaced
<1> QED
  BY <1>2, <1>3, <1>4, <1>5 DEF IInv

\* A policy more, and its budget with it.
LEMMA CreateKeeps ==
  ASSUME IInv, NEW owner \in Users, NEW receiver \in Users, NEW token_in \in Tokens,
         NEW token_out \in OutTokens \cup {None}, NEW router \in Routers \cup {None},
         NEW budget \in Budgets, NEW per_swap \in SwapAmounts, NEW min_output \in MinOutputs,
         NEW interval \in Intervals,
         CreateDCA(owner, token_in, token_out, router, receiver, budget, per_swap, min_output,
                   interval)
  PROVE  IInv'
<1>1. PICK q : q = [owner |-> owner, token_in |-> token_in, token_out |-> token_out,
            router |-> router, swap_receiver |-> receiver,
            total_budget |-> budget, remaining_budget |-> budget,
            amount_per_swap |-> per_swap, min_output_per_swap |-> min_output,
            last_swap_output |-> 0, interval_ledgers |-> interval,
            last_executed_ledger |-> ledger, next_execution_ledger |-> ledger + interval,
            executions_completed |-> 0, created_ledger |-> ledger, status |-> "Active"]
  OBVIOUS
<1>2. PICK id : id = counter + 1
  OBVIOUS
<1>3. /\ budget > 0 /\ per_swap > 0 /\ interval >= MinInterval
      /\ PayIn(token_in, owner, budget)
      /\ counter' = id /\ policies' = Append(policies, q)
      /\ ownerIndex' = [ownerIndex EXCEPT ![owner] = Append(@, id)]
      /\ UNCHANGED <<ledger, records, allowance>>
  BY <1>1, <1>2 DEF CreateDCA
<1>4. /\ ledger \in Nat /\ counter \in Nat /\ id \in Nat /\ id = counter + 1
      /\ budget \in Nat \ {0} /\ per_swap \in Nat \ {0} /\ interval \in Nat /\ min_output \in Int
  <2>1. ledger \in Nat /\ counter \in Nat
    BY DEF IInv, TypeOK
  <2>2. budget \in Int /\ per_swap \in Int /\ interval \in Nat /\ min_output \in Int
    BY DEF InputsAssumption
  <2> QED
    BY <1>2, <1>3, <2>1, <2>2
<1>5. q \in DCAEntry
  BY <1>1, <1>4 DEF DCAEntry, Statuses
<1>6. /\ q.token_in = token_in /\ q.remaining_budget = budget /\ q.total_budget = budget
      /\ q.amount_per_swap = per_swap /\ q.executions_completed = 0 /\ q.status = "Active"
      /\ q.interval_ledgers = interval /\ q.last_executed_ledger = ledger
      /\ q.next_execution_ledger = ledger + interval /\ q.created_ledger = ledger
  BY <1>1
<1>7. /\ policies' \in Seq(DCAEntry) /\ Len(policies') = id /\ policies'[id] = q
      /\ \A j \in Ids : policies'[j] = policies[j]
  <2>1. PICK S, old : S = DCAEntry /\ old = policies
    OBVIOUS
  <2>2. old \in Seq(S) /\ Len(old) = counter /\ counter \in Nat
    BY <2>1 DEF IInv, TypeOK
  <2>3. q \in S
    BY <1>5, <2>1
  <2>4. /\ Append(old, q) \in Seq(S) /\ Len(Append(old, q)) = counter + 1
        /\ Append(old, q)[counter + 1] = q
        /\ \A j \in 1..counter : Append(old, q)[j] = old[j]
    BY <2>2, <2>3
  <2> QED
    BY <1>3, <1>4, <2>1, <2>4 DEF Ids
<1>8. Ids' = Ids \cup {id} /\ id \notin Ids /\ Ids' = 1..id
  BY <1>3, <1>4 DEF Ids
<1>9. /\ balance' \in [Tokens -> [Accounts -> Nat]]
      /\ balance'[token_in][Contract] = balance[token_in][Contract] + budget
      /\ \A t \in Tokens : t # token_in => balance'[t] = balance[t]
  BY <1>3, <1>4, PayInEffect DEF IInv
<1>10. TypeOK'
  <2>1. ownerIndex' \in [Users -> Seq(Ids')]
    <3>1. ownerIndex \in [Users -> Seq(Ids)]
      BY DEF IInv, TypeOK
    <3>2. \A u \in Users : ownerIndex[u] \in Seq(Ids')
      <4> SUFFICES ASSUME NEW u \in Users PROVE ownerIndex[u] \in Seq(Ids')
        OBVIOUS
      <4>1. PICK x : x = ownerIndex[u]
        OBVIOUS
      <4>2. x \in Seq(Ids)
        BY <3>1, <4>1
      <4>3. x \in Seq(Ids \cup {id})
        BY <4>2
      <4> QED
        BY <1>8, <4>1, <4>3
    <3>3. Append(ownerIndex[owner], id) \in Seq(Ids')
      BY <1>8, <3>2
    <3> QED
      BY <1>3, <3>1, <3>2, <3>3
  <2>2. \A j \in Ids' : policies'[j].remaining_budget = 0 <=> policies'[j].status # "Active"
    <3>1. \A j \in Ids : policies[j].remaining_budget = 0 <=> policies[j].status # "Active"
      BY DEF IInv, TypeOK
    <3> QED
      BY <1>4, <1>6, <1>7, <1>8, <3>1
  <2>3. /\ records' \in [DOMAIN records' -> ExecutionRecord]
        /\ allowance' \in [Tokens -> [Routers -> Allowance]]
        /\ ledger' \in Nat /\ counter' \in Nat
    BY <1>3, <1>4 DEF IInv, TypeOK
  <2> QED
    BY <1>3, <1>7, <1>9, <2>1, <2>2, <2>3 DEF TypeOK
<1>11. ASSUME NEW t \in Tokens
       PROVE  TotalOwed(t)' = TotalOwed(t) + (IF t = token_in THEN budget ELSE 0)
  <2>1. PICK g : g = Owed(t)'
    OBVIOUS
  <2>2. \A j \in 1..id : g[j] = IF policies'[j].token_in = t
                                  THEN policies'[j].remaining_budget ELSE 0
    BY <1>8, <2>1 DEF Owed
  <2>3. \A j \in 1..counter : Owed(t)[j] = IF policies[j].token_in = t
                                             THEN policies[j].remaining_budget ELSE 0
    BY DEF Owed, Ids
  <2>4. g[id] = IF t = token_in THEN budget ELSE 0
    BY <1>4, <1>6, <1>7, <2>2
  <2>5. \A j \in 1..counter : Owed(t)[j] \in Int /\ g[j] = Owed(t)[j]
    <3>1. \A j \in 1..counter : Owed(t)[j] \in Int
      BY OwedType DEF IInv
    <3>2. \A j \in 1..counter : g[j] = Owed(t)[j]
      BY <1>4, <1>7, <2>2, <2>3 DEF Ids
    <3> QED
      BY <3>1, <3>2
  <2>6. Total(g, counter) = Total(Owed(t), counter)
    BY <1>4, <2>5, TotalAgree
  <2>7. Total(g, id) = Total(g, counter) + g[id]
    <3>1. g[id] \in Int
      BY <1>4, <2>4
    <3>2. \A j \in 1..id : g[j] \in Int
      BY <1>4, <2>5, <3>1
    <3>3. id \in 1..id /\ id - 1 = counter
      BY <1>4
    <3> QED
      BY <1>4, <3>2, <3>3, TotalRecursion
  <2>8. TotalOwed(t)' = Total(g, id)
    BY <1>3, <2>1 DEF TotalOwed
  <2> QED
    BY <2>4, <2>6, <2>7, <2>8 DEF TotalOwed
<1>12. Solvency'
  <2> SUFFICES ASSUME NEW t \in Tokens
               PROVE  balance'[t][Contract] >= TotalOwed(t)' + OpenAllowances(t)'
    BY DEF Solvency, TotalOwed
  <2>1. balance[t][Contract] >= TotalOwed(t) + OpenAllowances(t)
    BY DEF Solvency, TotalOwed, IInv
  <2>2. balance[t][Contract] \in Int
    BY DEF IInv, TypeOK, Accounts
  <2>3. TotalOwed(t) \in Int /\ OpenAllowances(t) \in Int
    BY OwedType, OpenType DEF IInv
  <2>4. OpenAllowances(t)' = OpenAllowances(t)
    BY <1>3, OpenKeep
  <2> QED
    BY <1>4, <1>9, <1>11, <2>1, <2>2, <2>3, <2>4
<1>13. BudgetAccounted'
  <2>1. 0 * per_swap = 0
    BY <1>4
  <2>2. q.total_budget = q.executions_completed * q.amount_per_swap + q.remaining_budget
    BY <1>4, <1>6, <2>1
  <2> QED
    BY <1>7, <1>8, <2>2 DEF IInv, BudgetAccounted
<1>14. Spaced'
  <2>1. ledger' = ledger /\ ledger <= MaxLedger
    BY <1>3 DEF IInv, Spaced
  <2>2. History'
    <3>1. {k \in Ids' \X (1..MaxLedger) : k[2] <= policies'[k[1]].executions_completed}
            = {k \in Ids \X (1..MaxLedger) : k[2] <= policies[k[1]].executions_completed}
      BY <1>6, <1>7, <1>8
    <3> QED
      BY <1>3, <3>1 DEF IInv, Spaced, History
  <2>3. Times(id)'
    <3>1. When(id, 0)' = ledger
      BY <1>6, <1>7 DEF When
    <3> QED
      BY <1>3, <1>4, <1>6, <1>7, <3>1 DEF Times
  <2>4. ASSUME NEW j \in Ids
        PROVE  Times(j)'
    <3>1. policies[j] \in DCAEntry /\ policies'[j] = policies[j]
      BY <1>7, PolicyType DEF IInv
    <3>2. ledger' \in Nat /\ ledger' >= ledger /\ records' = records
      BY <1>3, <1>4
    <3> QED
      BY <3>1, <3>2, TimesKeep DEF IInv
  <2> QED
    BY <1>8, <2>1, <2>2, <2>3, <2>4 DEF Spaced
<1> QED
  BY <1>10, <1>12, <1>13, <1>14 DEF IInv

-----------------------------------------------------------------------------
(* The theorems *)

LEMMA InitInv == Init => IInv
<1> SUFFICES ASSUME Init PROVE IInv
  OBVIOUS
<1>1. Ids = {}
  BY DEF Init, Ids
<1>2. TypeOK
  BY <1>1 DEF Init, TypeOK, Allowance
<1>3. Solvency
  <2> SUFFICES ASSUME NEW t \in Tokens
               PROVE  balance[t][Contract] >= TotalOwed(t) + OpenAllowances(t)
    BY DEF Solvency, TotalOwed
  <2>1. balance[t][Contract] = 0
    BY DEF Init, Accounts
  <2>2. TotalOwed(t) = 0
    <3>1. counter = 0 /\ counter \in Nat /\ \A j \in 1..counter : Owed(t)[j] \in Int
      BY DEF Init
    <3>2. Total(Owed(t), 0) = 0
      BY <3>1, TotalRecursion
    <3> QED
      BY <3>1, <3>2 DEF TotalOwed
  <2>3. OpenAllowances(t) = 0
    <3>1. PICK f : f = [router \in Routers |-> Allowed(t, router)]
      OBVIOUS
    <3>2. \A r \in Routers : f[r] = 0
      BY <3>1 DEF Init, Allowed
    <3>3. TotalOver(f, Routers) = 0
      BY <3>2, TotalOverZero
    <3> QED
      BY <3>1, <3>3 DEF OpenAllowances
  <2> QED
    BY <2>1, <2>2, <2>3
<1>4. BudgetAccounted
  BY <1>1 DEF BudgetAccounted
<1>5. Spaced
  BY <1>1 DEF Init, Spaced, History
<1> QED
  BY <1>2, <1>3, <1>4, <1>5 DEF IInv

LEMMA StepInv == IInv /\ [Next]_vars => IInv'
<1> SUFFICES ASSUME IInv, [Next]_vars PROVE IInv'
  OBVIOUS
<1>1. CASE CloseLedger
  BY <1>1, CloseLedgerKeeps
<1>2. CASE Create
  BY <1>2, CreateKeeps DEF Create
<1>3. ASSUME NEW id \in Ids, ExecuteTransfer(id) PROVE IInv'
  BY <1>3, ExecuteTransferKeeps
<1>4. ASSUME NEW id \in Ids, NEW taken \in 0..policies[id].amount_per_swap,
             NEW output \in Outputs, ExecuteSwap(id, taken, output)
      PROVE  IInv'
  BY <1>4, ExecuteSwapKeeps
<1>5. ASSUME NEW id \in Ids, Cancel(id) PROVE IInv'
  BY <1>5, CancelKeeps
<1>6. ASSUME NEW id \in Ids, NEW amount \in TopUps, TopUp(id, amount) PROVE IInv'
  BY <1>6, TopUpKeeps
<1>7. ASSUME NEW token \in Tokens, NEW router \in Routers,
             NEW amount \in 1..Allowed(token, router), RouterTakes(token, router, amount)
      PROVE  IInv'
  BY <1>7, RouterTakesKeeps
<1>8. CASE UNCHANGED vars
  <2>1. UNCHANGED <<ledger, counter, policies, ownerIndex, records, balance, allowance>>
    BY <1>8 DEF vars
  <2>2. TypeOK'
    BY <2>1 DEF IInv, TypeOK, Ids
  <2>3. Solvency'
    BY <2>1 DEF IInv, Solvency, OpenAllowances, Allowed, Owed, Ids
  <2> QED
    BY <2>1, <2>2, <2>3, NothingRecorded DEF IInv
<1> QED
  BY <1>1, <1>2, <1>3, <1>4, <1>5, <1>6, <1>7, <1>8 DEF Next

LEMMA Invariance == Spec => []IInv
BY InitInv, StepInv, PTL DEF Spec

\* Every variable keeps its type.
THEOREM TypeCorrect == Spec => []TypeOK
<1>1. IInv => TypeOK
  BY DEF IInv
<1> QED
  BY <1>1, Invariance, PTL

\* The contract always has what its policies have left and what routers may still
\* take, of every token.
THEOREM Solvent == Spec => []Solvency
<1>1. IInv => Solvency
  BY DEF IInv
<1> QED
  BY <1>1, Invariance, PTL

\* A budget is only ever spent in equal parts.
THEOREM BudgetSpent == Spec => []BudgetAccounted
<1>1. IInv => BudgetAccounted
  BY DEF IInv
<1> QED
  BY <1>1, Invariance, PTL

\* There is a record for each execution and no other, an interval apart.
THEOREM ExecutionsApart == Spec => []ExecutionsSpaced
<1>1. IInv => ExecutionsSpaced
  BY SpacedExecutions DEF IInv
<1> QED
  BY <1>1, Invariance, PTL

-----------------------------------------------------------------------------
(* The history, page by page *)

\* The smaller of two numbers.
LEMMA MinOfTwo ==
  ASSUME NEW x \in Int, NEW y \in Int
  PROVE  Min({x, y}) = IF x <= y THEN x ELSE y
<1> DEFINE m == IF x <= y THEN x ELSE y
<1>1. m \in {x, y} /\ \A z \in {x, y} : m <= z
  OBVIOUS
<1>2. \A w \in {x, y} : (\A z \in {x, y} : w <= z) => w = m
  OBVIOUS
<1> HIDE DEF m
<1>3. Min({x, y}) = m
  BY <1>1, <1>2 DEF Min
<1> QED
  BY <1>3 DEF m

\* Every execution that is counted has its record.
LEMMA AllRecorded ==
  ASSUME TypeOK, Spaced, NEW id \in Ids
  PROVE  /\ policies[id].executions_completed \in Nat
         /\ \A i \in 1..policies[id].executions_completed : <<id, i>> \in DOMAIN records
<1> DEFINE n == policies[id].executions_completed
<1>1. /\ n \in Nat /\ n <= policies[id].last_executed_ledger
      /\ policies[id].last_executed_ledger <= ledger
      /\ policies[id].last_executed_ledger \in Nat /\ ledger \in Nat
      /\ ledger <= MaxLedger /\ MaxLedger \in Nat
  BY PolicyType DEF DCAEntry, Spaced, Times, TypeOK
<1>2. n <= MaxLedger
  BY <1>1
<1>3. ASSUME NEW i \in 1..n PROVE <<id, i>> \in DOMAIN records
  BY <1>1, <1>2 DEF Spaced, History
<1> QED
  BY <1>1, <1>3

\* A page is the records from its start, as many as fit, and none after the last.
LEMMA HistoryPageIs ==
  ASSUME TypeOK, Spaced, NEW id \in Ids, NEW start \in Nat \ {0}, NEW limit \in Nat \ {0}
  PROVE  LET n   == policies[id].executions_completed
             end == Min({n, start + Min({limit, MaxHistoryPage}) - 1})
         IN  HistoryPage(id, start, limit) =
               IF start > n THEN <<>>
               ELSE [k \in 1..end - start + 1 |-> records[<<id, start + k - 1>>]]
<1> DEFINE n     == policies[id].executions_completed
           cap   == Min({limit, MaxHistoryPage})
           end   == Min({n, start + cap - 1})
           count == end - start + 1
           rec(k) == records[<<id, start + k - 1>>]
           Reads(f) == f = [k \in 0..count |->
                              IF k = 0 THEN <<>>
                              ELSE IF <<id, start + k - 1>> \notin DOMAIN records THEN f[k - 1]
                              ELSE Append(f[k - 1], rec(k))]
           read  == CHOOSE f : Reads(f)
<1>1. n \in Nat /\ \A i \in 1..n : <<id, i>> \in DOMAIN records
  BY AllRecorded
<1>2. cap \in Nat \ {0}
  BY MinOfTwo
<1>3. ASSUME start > n PROVE HistoryPage(id, start, limit) = <<>>
  BY <1>3 DEF HistoryPage
<1>4. ASSUME start <= n PROVE HistoryPage(id, start, limit) = [k \in 1..count |-> rec(k)]
  <2>1. /\ end \in Nat /\ end <= n /\ end >= start /\ count \in Nat
        /\ \A k \in 1..count : start + k - 1 \in 1..n
    <3>1. end = IF n <= start + cap - 1 THEN n ELSE start + cap - 1
      BY <1>1, <1>2, MinOfTwo
    <3> HIDE DEF n, cap, end
    <3> QED
      BY <1>1, <1>2, <1>4, <3>1
  <2>2. HistoryPage(id, start, limit) = read[count]
    BY <1>1, <1>2, <1>4 DEF HistoryPage
  <2> HIDE DEF n, cap, end, count
  <2> DEFINE page == [k \in 0..count |-> [i \in 1..k |-> rec(i)]]
  <2>3. ASSUME NEW k \in 1..count
        PROVE  Append(page[k - 1], rec(k)) = page[k]
    <3>1. k - 1 \in 0..count /\ k \in 0..count /\ k - 1 \in Nat /\ (k - 1) + 1 = k
      BY <2>1
    <3>2. page[k - 1] = [i \in 1..k - 1 |-> rec(i)] /\ page[k] = [i \in 1..k |-> rec(i)]
      BY <3>1
    <3>3. PICK long : long = [i \in 1..k |-> rec(i)]
      OBVIOUS
    <3>4. PICK I : I = {rec(i) : i \in 1..k}
      OBVIOUS
    <3>5. long \in [1..k -> I] /\ k \in Nat \ {0}
      <4>1. \A i \in 1..k : rec(i) \in I
        BY <3>4, Zenon
      <4> HIDE DEF rec
      <4>2. long \in [1..k -> I]
        BY <3>3, <4>1, Zenon
      <4> QED
        BY <3>1, <4>2
    <3>6. page[k - 1] = [i \in 1..k - 1 |-> long[i]] /\ rec(k) = long[k] /\ page[k] = long
      <4> HIDE DEF page
      <4>1. \A i \in 1..k - 1 : i \in 1..k /\ rec(i) = long[i]
        BY <3>1, <3>3
      <4>2. [i \in 1..k - 1 |-> rec(i)] = [i \in 1..k - 1 |-> long[i]]
        BY <4>1
      <4>3. k \in 1..k
        BY <3>1
      <4> QED
        BY <3>2, <3>3, <4>2, <4>3
    <3> HIDE DEF page, rec
    <3> QED
      BY <3>5, <3>6, AppendLast
  <2>4. Reads(page)
    <3>1. ASSUME NEW k \in 0..count
          PROVE  page[k] = IF k = 0 THEN <<>>
                           ELSE IF <<id, start + k - 1>> \notin DOMAIN records THEN page[k - 1]
                           ELSE Append(page[k - 1], rec(k))
      <4>1. CASE k = 0
        BY <4>1
      <4>2. CASE k # 0
        <5>1. k \in 1..count
          BY <4>2
        <5>2. <<id, start + k - 1>> \in DOMAIN records
          BY <1>1, <2>1, <5>1
        <5> QED
          BY <2>3, <4>2, <5>1, <5>2
      <4> QED
        BY <4>1, <4>2
    <3> QED
      BY <3>1
  <2> HIDE DEF page
  <2>5. Reads(read)
    <3> HIDE DEF Reads
    <3> QED
      BY <2>4
  <2> HIDE DEF read
  <2> DEFINE S == {k \in 0..count : read[k] = page[k]}
  <2>6. 0 \in S
    BY <2>1, <2>4, <2>5
  <2>7. ASSUME NEW k \in 0..count-1, k \in S
        PROVE  k + 1 \in S
    <3>1. k + 1 \in 0..count /\ k + 1 # 0 /\ k + 1 \in 1..count /\ (k + 1) - 1 = k
      BY <2>1
    <3>2. <<id, start + (k + 1) - 1>> \in DOMAIN records
      BY <1>1, <2>1, <3>1
    <3>3. read[k + 1] = Append(read[k], rec(k + 1)) /\ page[k + 1] = Append(page[k], rec(k + 1))
      BY <2>4, <2>5, <3>1, <3>2
    <3> QED
      BY <2>7, <3>1, <3>3
  <2> HIDE DEF S
  <2>8. \A k \in 0..count : k \in S
    BY <2>1, <2>6, <2>7, SetInduction
  <2>9. read[count] = page[count]
    BY <2>1, <2>8 DEF S
  <2>10. page[count] = [k \in 1..count |-> rec(k)]
    BY <2>1 DEF page
  <2> QED
    BY <2>2, <2>9, <2>10 DEF n, cap, end, count
<1>5. start > n \/ (start <= n /\ ~(start > n))
  BY <1>1
<1> QED
  BY <1>3, <1>4, <1>5, Zenon

\* Pages of one size, one after the other, are the whole history: for every number
\* of records and every limit, over the largest page or not.
LEMMA PagesAreHistory ==
  ASSUME TypeOK, Spaced, NEW id \in Ids, NEW limit \in 1..MaxHistoryPage + 1
  PROVE  LET n    == policies[id].executions_completed
             page == Min({limit, MaxHistoryPage})
         IN  FlattenSeq([k \in 1..n |-> HistoryPage(id, 1 + (k - 1) * page, limit)])
               = [i \in 1..n |-> records[<<id, i>>]]
<1> DEFINE n     == policies[id].executions_completed
           page  == Min({limit, MaxHistoryPage})
           rec(i) == records[<<id, i>>]
           parts == [k \in 1..n |-> HistoryPage(id, 1 + (k - 1) * page, limit)]
           upto(k) == Min({n, k * page})
           h     == [k \in 1..n |-> [i \in 1..upto(k) |-> rec(i)]]
<1>1. n \in Nat /\ page \in Nat \ {0} /\ limit \in Nat \ {0}
  <2>1. n \in Nat
    BY AllRecorded
  <2>2. limit \in Nat \ {0} /\ MaxHistoryPage \in Nat \ {0}
    OBVIOUS
  <2>3. page = IF limit <= MaxHistoryPage THEN limit ELSE MaxHistoryPage
    BY <2>2, MinOfTwo
  <2> HIDE DEF page
  <2> QED
    BY <2>1, <2>2, <2>3
<1>2. \A k \in Nat : /\ k * page \in Nat /\ k * page >= k
                     /\ k # 0 => (k - 1) * page \in Nat /\ k * page = (k - 1) * page + page
  <2> HIDE DEF n, page
  <2> QED
    BY <1>1, Multiples
<1>3. \A k \in Nat : upto(k) = IF n <= k * page THEN n ELSE k * page
  <2> HIDE DEF n, page
  <2> QED
    BY <1>1, <1>2, MinOfTwo
<1>4. ASSUME NEW k \in 1..n
      PROVE  parts[k] = IF 1 + (k - 1) * page > n THEN <<>>
                        ELSE [i \in 1..upto(k) - (k - 1) * page |-> rec((k - 1) * page + i)]
  <2>1. PICK a : a = (k - 1) * page
    OBVIOUS
  <2>2. a \in Nat /\ k * page = a + page
    <3>1. k \in Nat /\ k # 0
      BY <1>1
    <3> HIDE DEF n, page
    <3> QED
      BY <1>2, <2>1, <3>1
  <2>3. parts[k] = HistoryPage(id, 1 + a, limit)
    BY <2>1
  <2>4. HistoryPage(id, 1 + a, limit) =
          IF 1 + a > n THEN <<>>
          ELSE [i \in 1..Min({n, (1 + a) + page - 1}) - (1 + a) + 1 |-> records[<<id, (1 + a) + i - 1>>]]
    <3>1. PICK start \in Nat \ {0} : start = 1 + a
      BY <2>2
    <3>2. HistoryPage(id, start, limit) =
            IF start > n THEN <<>>
            ELSE [i \in 1..Min({n, start + page - 1}) - start + 1 |-> records[<<id, start + i - 1>>]]
      BY <1>1, HistoryPageIs
    <3> QED
      BY <3>1, <3>2, Zenon
  <2>5. /\ (1 + a) + page - 1 = k * page
        /\ upto(k) - (1 + a) + 1 = upto(k) - a
        /\ \A i \in Nat : (1 + a) + i - 1 = a + i
    <3>1. upto(k) \in Nat
      <4>1. k \in Nat
        BY <1>1
      <4>2. upto(k) = IF n <= k * page THEN n ELSE k * page
        BY <1>3, <4>1
      <4>3. k * page \in Nat
        BY <1>2, <4>1
      <4> HIDE DEF upto, page, n
      <4> QED
        BY <1>1, <4>2, <4>3
    <3> HIDE DEF upto, page, n
    <3> QED
      BY <1>1, <2>2, <3>1
  <2> HIDE DEF parts, n, page
  <2>6. [i \in 1..upto(k) - a |-> records[<<id, (1 + a) + i - 1>>]] = [i \in 1..upto(k) - a |-> rec(a + i)]
    <3>1. \A i \in 1..upto(k) - a : (1 + a) + i - 1 = a + i
      BY <2>5
    <3> QED
      BY <3>1
  <2> QED
    BY <2>1, <2>3, <2>4, <2>5, <2>6
<1>5. ASSUME n = 0 PROVE FlattenSeq(parts) = [i \in 1..n |-> rec(i)]
  <2>1. parts = <<>>
    BY <1>5
  <2>2. FlattenSeq(parts) = <<>>
    BY <2>1 DEF FlattenSeq
  <2> QED
    BY <1>5, <2>2
<1>6. ASSUME n # 0 PROVE FlattenSeq(parts) = [i \in 1..n |-> rec(i)]
  <2>1. n \in Nat \ {0} /\ DOMAIN parts = 1..n /\ Len(parts) = n
    BY <1>1, <1>6
  <2>2. h[1] = parts[1]
    <3>1. (1 - 1) * page = 0 /\ 1 \in 1..n /\ ~(1 + 0 > n)
      BY <1>1, <2>1
    <3>2. upto(1) \in Nat
      BY <1>1, <1>2, <1>3
    <3>3. parts[1] = [i \in 1..upto(1) - 0 |-> rec(0 + i)]
      <4> HIDE DEF parts, upto, page, n
      <4> QED
        BY <1>4, <3>1
    <3>4. h[1] = [i \in 1..upto(1) |-> rec(i)]
      BY <3>1
    <3> HIDE DEF h, parts, upto, page, n
    <3>5. upto(1) - 0 = upto(1) /\ \A i \in 1..upto(1) : 0 + i = i
      BY <3>2
    <3> QED
      BY <3>3, <3>4, <3>5
  <2>3. ASSUME NEW k \in 2..n
        PROVE  h[k] = h[k - 1] \o parts[k]
    <3>1. PICK a, b : a = (k - 1) * page /\ b = upto(k)
      OBVIOUS
    <3>2. k \in Nat \ {0} /\ k - 1 \in Nat /\ k \in 1..n /\ k - 1 \in 1..n
      BY <1>1
    <3>3. /\ a \in Nat /\ k * page = a + page
          /\ b = IF n <= a + page THEN n ELSE a + page
          /\ upto(k - 1) = IF n <= a THEN n ELSE a
      <4>1. a \in Nat /\ k * page = a + page
        BY <1>2, <3>1, <3>2
      <4>2. b = IF n <= k * page THEN n ELSE k * page
        BY <1>3, <3>1, <3>2
      <4>3. upto(k - 1) = IF n <= (k - 1) * page THEN n ELSE (k - 1) * page
        BY <1>3, <3>2
      <4> HIDE DEF upto, page, n
      <4> QED
        BY <3>1, <4>1, <4>2, <4>3
    <3>4. h[k - 1] = [i \in 1..upto(k - 1) |-> rec(i)] /\ h[k] = [i \in 1..b |-> rec(i)]
      <4> HIDE DEF upto, page, n
      <4> QED
        BY <3>1, <3>2
    <3>5. parts[k] = IF 1 + a > n THEN <<>> ELSE [i \in 1..b - a |-> rec(a + i)]
      <4> HIDE DEF parts, upto, page, n
      <4> QED
        BY <1>4, <3>1, <3>2
    <3> HIDE DEF h, parts, upto, page, n
    <3>6. PICK long : long = [i \in 1..b |-> rec(i)]
      OBVIOUS
    <3>7. PICK I : I = {rec(i) : i \in 1..b}
      OBVIOUS
    <3>8. b \in Nat /\ long \in [1..b -> I]
      <4>1. \A i \in 1..b : rec(i) \in I
        BY <3>7, Zenon
      <4> HIDE DEF rec
      <4>2. long \in [1..b -> I]
        BY <3>6, <4>1, Zenon
      <4> QED
        BY <1>1, <3>3, <4>2
    <3>9. CASE 1 + a > n
      <4>1. upto(k - 1) = n /\ b = n
        BY <1>1, <3>3, <3>9
      <4>2. h[k - 1] = long /\ h[k] = long /\ parts[k] = <<>>
        BY <3>4, <3>5, <3>6, <3>9, <4>1
      <4>3. long \in Seq(I)
        BY <3>8
      <4>4. long \o <<>> = long
        BY <4>3
      <4> QED
        BY <4>2, <4>4
    <3>10. CASE ~(1 + a > n)
      <4>1. upto(k - 1) = a /\ a <= b
        BY <1>1, <3>3, <3>10
      <4>2. /\ \A i \in 1..a : rec(i) = long[i]
            /\ \A i \in 1..b - a : rec(a + i) = long[a + i]
        <5>1. (\A i \in 1..a : i \in 1..b) /\ (\A i \in 1..b - a : a + i \in 1..b)
          BY <3>3, <3>8, <4>1
        <5> QED
          BY <3>6, <5>1
      <4>3. /\ [i \in 1..a |-> rec(i)] = [i \in 1..a |-> long[i]]
            /\ [i \in 1..b - a |-> rec(a + i)] = [i \in 1..b - a |-> long[a + i]]
        BY <4>2
      <4>4. /\ h[k - 1] = [i \in 1..a |-> long[i]]
            /\ parts[k] = [i \in 1..b - a |-> long[a + i]]
            /\ h[k] = long
        BY <3>4, <3>5, <3>6, <3>10, <4>1, <4>3
      <4>5. [i \in 1..a |-> long[i]] \o [i \in 1..b - a |-> long[a + i]] = long
        BY <3>3, <3>8, <4>1, ConcatParts
      <4> QED
        BY <4>4, <4>5
    <3> QED
      BY <3>9, <3>10
  <2>4. h[n] = [i \in 1..n |-> rec(i)]
    <3>1. n \in Nat /\ n \in 1..n /\ n * page >= n /\ n * page \in Nat
      BY <1>1, <1>2, <2>1
    <3>2. upto(n) = n
      <4>1. upto(n) = IF n <= n * page THEN n ELSE n * page
        BY <1>3, <3>1
      <4> HIDE DEF n, page, upto
      <4> QED
        BY <3>1, <4>1
    <3> HIDE DEF n, page, upto
    <3> QED
      BY <3>1, <3>2
  <2> HIDE DEF h, parts, n
  <2>5. Accumulates(h, parts, n)
    BY <2>1, <2>2, <2>3 DEF Accumulates
  <2>6. FlattenSeq(parts) = h[n]
    BY <2>1, <2>5, FlattenSteps
  <2> QED
    BY <2>4, <2>6
<1> QED
  BY <1>5, <1>6

\* The history that is read page by page is the whole of it, in order and once.
THEOREM HistoryRead == Spec => []HistoryPaged
<1>1. IInv => HistoryPaged
  BY PagesAreHistory DEF IInv, HistoryPaged
<1> QED
  BY <1>1, Invariance, PTL

=============================================================================
