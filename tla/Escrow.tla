------------------------------- MODULE Escrow -------------------------------
(***************************************************************************)
(* What the ScheduleVault contract promises, without ledgers, indexes or   *)
(* the contract's own account: money put into an escrow leaves the         *)
(* depositor's wallet, and each deposit is given out exactly once and in   *)
(* whole, either to the payee named when it was made or back to the user   *)
(* who owns it at that time.  Only the ownership of a deposit can change   *)
(* while it is held.                                                       *)
(***************************************************************************)
EXTENDS Integers, FiniteSets

CONSTANTS
  Users,    \* who can deposit, own and be paid
  Tokens,   \* the assets deposits are made in
  Amounts   \* what can be deposited at a time

VARIABLES
  wallet,   \* what each user has of each token, outside the escrow
  deposits  \* every deposit ever made, by its id

vars == <<wallet, deposits>>

HeldDeposit(o, t, a) ==
  [owner : {o}, payee : Users, token : {t}, amount : {a}, state : {"held"}]

Init ==
  /\ wallet \in [Tokens -> [Users -> Nat]]
  /\ deposits = <<>>

\* o makes one or more deposits of the same amount a, and pays for all of them.
Open(o, t, a) ==
  LET new == DOMAIN deposits' \ DOMAIN deposits
  IN  /\ a > 0
      /\ new # {}
      /\ DOMAIN deposits \subseteq DOMAIN deposits'
      /\ \A d \in DOMAIN deposits : deposits'[d] = deposits[d]
      /\ \A d \in new : deposits'[d] \in HeldDeposit(o, t, a)
      /\ a * Cardinality(new) <= wallet[t][o]
      /\ wallet' = [wallet EXCEPT ![t][o] = @ - a * Cardinality(new)]

Credit(d, u) ==
  wallet' = [wallet EXCEPT ![deposits[d].token][u] = @ + deposits[d].amount]

Pay(d) ==
  /\ deposits[d].state = "held"
  /\ deposits' = [deposits EXCEPT ![d].state = "paid"]
  /\ Credit(d, deposits[d].payee)

Refund(d) ==
  /\ deposits[d].state = "held"
  /\ deposits' = [deposits EXCEPT ![d].state = "refunded"]
  /\ Credit(d, deposits[d].owner)

Reassign(d, u) ==
  /\ deposits[d].state = "held"
  /\ deposits' = [deposits EXCEPT ![d].owner = u]
  /\ UNCHANGED wallet

Next ==
  \/ \E o \in Users, t \in Tokens, a \in Amounts : Open(o, t, a)
  \/ \E d \in DOMAIN deposits :
        \/ Pay(d)
        \/ Refund(d)
        \/ \E u \in Users : Reassign(d, u)

Spec == Init /\ [][Next]_vars

=============================================================================
