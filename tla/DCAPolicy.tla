----------------------------- MODULE DCAPolicy ------------------------------
(***************************************************************************)
(* The DCAPolicy contract (contract/dca-policy/src/lib.rs): a budget spent *)
(* in equal swaps, one per interval, each a transfer to a receiver or a    *)
(* call of a router that pulls the amount out of an allowance.  As in      *)
(* ScheduleVault each entry point is one action, a call that fails is a    *)
(* stuttering step (execute_swap that ends in an error after the router    *)
(* ran undoes what the router did as well), and cancel and top_up are the  *)
(* owner's.                                                                *)
(*                                                                         *)
(* Routers are contracts of other people.  What the code relies on is that *)
(* a router takes no more than its allowance; it may take less, as the     *)
(* router of the contract's own tests does, and come back for the rest     *)
(* until the allowance ends.  The tokens it hands to the receiver are its  *)
(* own affair and not in the state.                                        *)
(*                                                                         *)
(* Not in the state: label, the emitted events, storage time-to-live, and  *)
(* the overflow of u32 ledgers.                                            *)
(*                                                                         *)
(* An operator named Faulty... is the operation that follows it with one   *)
(* mistake in it; its comment names the property that finds the mistake.   *)
(***************************************************************************)
EXTENDS Integers, Sequences, FiniteSets, Totals, SequencesExt

CONSTANTS
  Users,        \* the accounts that own policies and receive plain transfers
  Routers,      \* the routers owners choose
  Contract,     \* the account of the contract itself
  Tokens,       \* the assets budgets are in
  OutTokens,    \* the assets swaps are into
  Budgets,      \* the budgets callers ask for, acceptable or not
  SwapAmounts,  \* the amounts per swap callers ask for
  MinOutputs,   \* the least outputs callers ask for
  Outputs,      \* what a router may say it gave
  Intervals,    \* the intervals callers ask for, in ledgers
  TopUps,       \* the amounts owners top up
  None,         \* Option::None
  MinInterval,  \* the shortest interval, 120 ledgers in the code
  Approval,     \* for how many ledgers an allowance is given, 100 in the code
  MaxHistoryPage, \* MAX_HISTORY_PAGE, 50 in the code
  Supply,       \* what every user has of every token at first
  MaxPolicies,  \* bound: no more policies are created than this
  MaxLedger     \* bound: the ledger sequence stops here

ASSUME AccountsAssumption ==
  Contract \notin Users \cup Routers /\ Users \cap Routers = {} /\ IsFiniteSet(Routers)
ASSUME InputsAssumption ==
  /\ Budgets \subseteq Int /\ SwapAmounts \subseteq Int /\ TopUps \subseteq Int
  /\ MinOutputs \subseteq Int /\ Outputs \subseteq Int /\ Intervals \subseteq Nat
ASSUME NoneAssumption == None \notin Routers \cup OutTokens
ASSUME BoundsAssumption ==
  /\ MinInterval \in Nat \ {0} /\ Approval \in Nat /\ MaxHistoryPage \in Nat \ {0}
  /\ Supply \in Nat /\ MaxPolicies \in Nat /\ MaxLedger \in Nat

VARIABLES
  ledger,     \* env.ledger().sequence()
  counter,    \* DataKey::Counter, the last id given out
  policies,   \* DataKey::DCA(id)
  ownerIndex, \* DataKey::DCAsByOwner(address)
  records,    \* DataKey::ExecutionRecord(id, index)
  balance,    \* the token contracts: what each account has of each token
  allowance   \* the token contracts: what each router may still take from Contract

vars == <<ledger, counter, policies, ownerIndex, records, balance, allowance>>

Accounts == Users \cup Routers \cup {Contract}
Statuses == {"Active", "Exhausted", "Cancelled"}

DCAEntry ==
  [owner : Users, token_in : Tokens, token_out : OutTokens \cup {None},
   router : Routers \cup {None}, swap_receiver : Users,
   total_budget : Nat \ {0}, remaining_budget : Nat, amount_per_swap : Nat \ {0},
   min_output_per_swap : Int, last_swap_output : Int, interval_ledgers : Nat,
   last_executed_ledger : Nat, next_execution_ledger : Nat,
   executions_completed : Nat, created_ledger : Nat, status : Statuses]

ExecutionRecord ==
  [index : Nat \ {0}, dca_id : Nat \ {0}, ledger : Nat, amount_in : Nat, amount_out : Int,
   remaining_budget : Nat, next_execution_ledger : Nat, swapped : BOOLEAN]

Allowance == [amount : Nat, until : Nat]

Ids == 1..counter

Swaps(p) == p.router # None /\ p.token_out # None

-----------------------------------------------------------------------------
Init ==
  /\ ledger = 0
  /\ counter = 0
  /\ policies = <<>>
  /\ ownerIndex = [u \in Users |-> <<>>]
  /\ records = <<>>
  /\ balance = [t \in Tokens |-> [a \in Accounts |-> IF a \in Users THEN Supply ELSE 0]]
  /\ allowance = [t \in Tokens |-> [r \in Routers |-> [amount |-> 0, until |-> 0]]]

\* The owner pays an amount into the contract.
PayIn(token, owner, amount) ==
  /\ amount <= balance[token][owner]
  /\ balance' = [balance EXCEPT ![token][owner] = @ - amount, ![token][Contract] = @ + amount]

\* What the contract pays out, with what the router takes, when it can.
PayTo(token, account, amount) ==
  /\ amount <= balance[token][Contract]
  /\ balance' = [balance EXCEPT ![token][Contract] = @ - amount, ![token][account] = @ + amount]

\* create_dca is create_dca_swap without a router, an output token or a least
\* output.
CreateDCA(owner, token_in, token_out, router, receiver, budget, per_swap, min_output, interval) ==
  LET id == counter + 1
  IN  /\ budget > 0 /\ per_swap > 0
      /\ budget % per_swap = 0
      /\ interval >= MinInterval
      /\ PayIn(token_in, owner, budget)
      /\ counter' = id
      /\ policies' = Append(policies,
           [owner |-> owner, token_in |-> token_in, token_out |-> token_out,
            router |-> router, swap_receiver |-> receiver,
            total_budget |-> budget, remaining_budget |-> budget,
            amount_per_swap |-> per_swap, min_output_per_swap |-> min_output,
            last_swap_output |-> 0, interval_ledgers |-> interval,
            last_executed_ledger |-> ledger, next_execution_ledger |-> ledger + interval,
            executions_completed |-> 0, created_ledger |-> ledger, status |-> "Active"])
      /\ ownerIndex' = [ownerIndex EXCEPT ![owner] = Append(@, id)]
      /\ UNCHANGED <<ledger, records, allowance>>

\* TypeOK: a policy that is running dry swaps what is left.
FaultyCanExecute(p) ==
  /\ p.status = "Active"
  /\ ledger >= p.next_execution_ledger
  /\ p.remaining_budget > 0

CanExecute(p) ==
  /\ p.status = "Active"
  /\ ledger >= p.next_execution_ledger
  /\ p.remaining_budget >= p.amount_per_swap

\* ExecutionsSpaced: the next execution is counted from when this one was due.
FaultyRecordExecution(id, output) ==
  LET p    == policies[id]
      left == p.remaining_budget - p.amount_per_swap
      n    == p.executions_completed + 1
      next == p.next_execution_ledger + p.interval_ledgers
  IN  /\ policies' = [policies EXCEPT
           ![id] = [p EXCEPT !.remaining_budget = left, !.executions_completed = n,
                             !.last_executed_ledger = ledger, !.next_execution_ledger = next,
                             !.last_swap_output = output,
                             !.status = IF left = 0 THEN "Exhausted" ELSE @]]
      /\ records' = [k \in DOMAIN records \cup {<<id, n>>} |->
           IF k # <<id, n>> THEN records[k] ELSE
             [index |-> n, dca_id |-> id, ledger |-> ledger, amount_in |-> p.amount_per_swap,
              amount_out |-> output, remaining_budget |-> left,
              next_execution_ledger |-> next, swapped |-> Swaps(p)]]

\* What execute_swap writes once the swap has given `output`: the policy, and
\* one record under the number of this execution.
RecordExecution(id, output) ==
  LET p    == policies[id]
      left == p.remaining_budget - p.amount_per_swap
      n    == p.executions_completed + 1
      next == ledger + p.interval_ledgers
  IN  /\ policies' = [policies EXCEPT
           ![id] = [p EXCEPT !.remaining_budget = left, !.executions_completed = n,
                             !.last_executed_ledger = ledger, !.next_execution_ledger = next,
                             !.last_swap_output = output,
                             !.status = IF left = 0 THEN "Exhausted" ELSE @]]
      /\ records' = [k \in DOMAIN records \cup {<<id, n>>} |->
           IF k # <<id, n>> THEN records[k] ELSE
             [index |-> n, dca_id |-> id, ledger |-> ledger, amount_in |-> p.amount_per_swap,
              amount_out |-> output, remaining_budget |-> left,
              next_execution_ledger |-> next, swapped |-> Swaps(p)]]

\* execute_swap of a policy without a router: anybody may call it.
ExecuteTransfer(id) ==
  LET p == policies[id]
  IN  /\ CanExecute(p)
      /\ ~Swaps(p)
      /\ PayTo(p.token_in, p.swap_receiver, p.amount_per_swap)
      /\ RecordExecution(id, p.amount_per_swap)
      /\ UNCHANGED <<ledger, counter, ownerIndex, allowance>>

\* Solvency: the router is allowed the whole budget.
FaultyExecuteSwap(id, taken, output) ==
  LET p == policies[id]
  IN  /\ CanExecute(p)
      /\ Swaps(p)
      /\ taken \in 0..p.amount_per_swap
      /\ output > 0
      /\ output >= p.min_output_per_swap
      /\ PayTo(p.token_in, p.router, taken)
      /\ allowance' = [allowance EXCEPT ![p.token_in][p.router] =
                         [amount |-> p.remaining_budget - taken, until |-> ledger + Approval]]
      /\ RecordExecution(id, output)
      /\ UNCHANGED <<ledger, counter, ownerIndex>>

\* execute_swap of a policy with one: the allowance is given anew, the router
\* takes some of it and says what it gave.
ExecuteSwap(id, taken, output) ==
  LET p == policies[id]
  IN  /\ CanExecute(p)
      /\ Swaps(p)
      /\ taken \in 0..p.amount_per_swap
      /\ output > 0
      /\ output >= p.min_output_per_swap
      /\ PayTo(p.token_in, p.router, taken)
      /\ allowance' = [allowance EXCEPT ![p.token_in][p.router] =
                         [amount |-> p.amount_per_swap - taken, until |-> ledger + Approval]]
      /\ RecordExecution(id, output)
      /\ UNCHANGED <<ledger, counter, ownerIndex>>

\* A router comes back for what it was allowed and did not take.
Allowed(token, router) ==
  IF ledger <= allowance[token][router].until THEN allowance[token][router].amount ELSE 0

RouterTakes(token, router, amount) ==
  /\ amount \in 1..Allowed(token, router)
  /\ PayTo(token, router, amount)
  /\ allowance' = [allowance EXCEPT ![token][router].amount = @ - amount]
  /\ UNCHANGED <<ledger, counter, policies, ownerIndex, records>>

Cancel(id) ==
  LET p == policies[id]
  IN  /\ p.status = "Active"
      /\ PayTo(p.token_in, p.owner, p.remaining_budget)
      /\ policies' = [policies EXCEPT ![id].status = "Cancelled", ![id].remaining_budget = 0]
      /\ UNCHANGED <<ledger, counter, ownerIndex, records, allowance>>

\* BudgetAccounted: the amount is not added to what was put in.
FaultyTopUp(id, amount) ==
  LET p == policies[id]
  IN  /\ amount > 0
      /\ p.status # "Cancelled"
      /\ PayIn(p.token_in, p.owner, amount)
      /\ policies' = [policies EXCEPT
           ![id] = [p EXCEPT !.remaining_budget = @ + amount, !.status = "Active",
                             !.next_execution_ledger =
                               IF p.status = "Exhausted" THEN ledger + p.interval_ledgers ELSE @]]
      /\ UNCHANGED <<ledger, counter, ownerIndex, records, allowance>>

\* Any positive amount will do.  An exhausted policy starts again, one interval
\* from now.
TopUp(id, amount) ==
  LET p == policies[id]
  IN  /\ amount > 0
      /\ p.status # "Cancelled"
      /\ PayIn(p.token_in, p.owner, amount)
      /\ policies' = [policies EXCEPT
           ![id] = [p EXCEPT !.total_budget = @ + amount, !.remaining_budget = @ + amount,
                             !.status = "Active",
                             !.next_execution_ledger =
                               IF p.status = "Exhausted" THEN ledger + p.interval_ledgers ELSE @]]
      /\ UNCHANGED <<ledger, counter, ownerIndex, records, allowance>>

\* The network closes a ledger.
CloseLedger ==
  /\ ledger < MaxLedger
  /\ ledger' = ledger + 1
  /\ UNCHANGED <<counter, policies, ownerIndex, records, balance, allowance>>

-----------------------------------------------------------------------------
(* The execution history, as get_execution_history reads it                 *)

\* HistoryPaged: the end of the page is one too far.
FaultyHistoryPage(id, start, limit) ==
  LET cap   == Min({limit, MaxHistoryPage})
      total == policies[id].executions_completed
      end   == Min({total, start + cap})
      read[k \in 0..end - start + 1] ==
        IF k = 0 THEN <<>>
        ELSE IF <<id, start + k - 1>> \notin DOMAIN records THEN read[k - 1]
        ELSE Append(read[k - 1], records[<<id, start + k - 1>>])
  IN  IF cap = 0 \/ start > total THEN <<>> ELSE read[end - start + 1]

\* The records that are found from start to the end of the page, in order.
HistoryPage(id, start, limit) ==
  LET cap   == Min({limit, MaxHistoryPage})
      total == policies[id].executions_completed
      end   == Min({total, start + cap - 1})
      read[k \in 0..end - start + 1] ==
        IF k = 0 THEN <<>>
        ELSE IF <<id, start + k - 1>> \notin DOMAIN records THEN read[k - 1]
        ELSE Append(read[k - 1], records[<<id, start + k - 1>>])
  IN  IF cap = 0 \/ start > total THEN <<>> ELSE read[end - start + 1]

-----------------------------------------------------------------------------
Create ==
  /\ counter < MaxPolicies
  /\ \E owner, receiver \in Users, token_in \in Tokens, token_out \in OutTokens \cup {None},
        router \in Routers \cup {None}, budget \in Budgets, per_swap \in SwapAmounts,
        min_output \in MinOutputs, interval \in Intervals :
       CreateDCA(owner, token_in, token_out, router, receiver, budget, per_swap, min_output,
                 interval)

Next ==
  \/ CloseLedger
  \/ Create
  \/ \E id \in Ids :
        \/ ExecuteTransfer(id)
        \/ \E taken \in 0..policies[id].amount_per_swap, output \in Outputs :
             ExecuteSwap(id, taken, output)
        \/ Cancel(id)
        \/ \E amount \in TopUps : TopUp(id, amount)
  \/ \E token \in Tokens, router \in Routers :
        \E amount \in 1..Allowed(token, router) : RouterTakes(token, router, amount)

Spec == Init /\ [][Next]_vars

-----------------------------------------------------------------------------
(* Properties *)

\* Every variable has its type; a policy is exhausted exactly when it has spent
\* everything, and a cancelled one has nothing left.
TypeOK ==
  /\ ledger \in Nat
  /\ counter \in Nat
  /\ policies \in Seq(DCAEntry) /\ Len(policies) = counter
  /\ ownerIndex \in [Users -> Seq(Ids)]
  /\ records \in [DOMAIN records -> ExecutionRecord]
  /\ balance \in [Tokens -> [Accounts -> Nat]]
  /\ allowance \in [Tokens -> [Routers -> Allowance]]
  /\ \A id \in Ids : policies[id].remaining_budget = 0 <=> policies[id].status # "Active"

Owed(token) ==
  [id \in Ids |-> IF policies[id].token_in = token THEN policies[id].remaining_budget ELSE 0]
OpenAllowances(token) == TotalOver([router \in Routers |-> Allowed(token, router)], Routers)

\* The contract has, of every token, what all its policies have left to spend
\* and, besides, whatever routers were allowed and have not taken: however late a
\* router comes back, and however many policies share it, no policy's budget
\* pays for another's swap.
Solvency ==
  \A token \in Tokens :
    balance[token][Contract] >= Total(Owed(token), counter) + OpenAllowances(token)

\* The budget is spent in equal parts and in no other way: what was put in, at
\* first and by top_up, is what the executions used and what is left.
BudgetAccounted ==
  \A id \in Ids :
    LET p == policies[id]
    IN  p.status # "Cancelled" =>
          p.total_budget = p.executions_completed * p.amount_per_swap + p.remaining_budget

\* The history has one record for each execution and no other; between two
\* executions, and before the first, there is at least one interval, however
\* often the policy ran dry and was topped up.
ExecutionsSpaced ==
  /\ DOMAIN records =
       {k \in Ids \X (1..MaxLedger) : k[2] <= policies[k[1]].executions_completed}
  /\ \A id \in Ids :
       LET p       == policies[id]
           when[n \in 0..p.executions_completed] ==
             IF n = 0 THEN p.created_ledger ELSE records[<<id, n>>].ledger
       IN  \A n \in 1..p.executions_completed :
             when[n] >= when[n - 1] + p.interval_ledgers

\* Whoever reads the history page by page, in pages of any size, reads every
\* record once and in order.
HistoryPaged ==
  \A id \in Ids, limit \in 1..MaxHistoryPage + 1 :
    LET n    == policies[id].executions_completed
        page == Min({limit, MaxHistoryPage})
    IN  FlattenSeq([k \in 1..n |-> HistoryPage(id, 1 + (k - 1) * page, limit)])
          = [i \in 1..n |-> records[<<id, i>>]]

\* "Active: DCA is running, swaps will execute on schedule": an Active policy
\* that is due has the budget of its next swap.  A top_up that is no multiple of
\* amount_per_swap breaks it: the rest is less than one swap, and the policy
\* stays Active and due.
DueIsFunded ==
  \A id \in Ids :
    LET p == policies[id]
    IN  p.status = "Active" /\ ledger >= p.next_execution_ledger
          => p.remaining_budget >= p.amount_per_swap

=============================================================================
