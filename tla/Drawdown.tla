------------------------------ MODULE Drawdown ------------------------------
(***************************************************************************)
(* What the contracts that pay out little by little promise, without       *)
(* ledgers, rates, indexes or the contract's own account.  A user puts     *)
(* money into a fund; parts of it are drawn for the fund's payees; when    *)
(* the fund is closed all that is left goes back to its owner, unless the  *)
(* last draw closes it, which forfeits the rest.  Nothing leaves a fund    *)
(* that is closed, and whatever leaves a fund arrives, to the last unit,   *)
(* with its payees and its owner.                                          *)
(***************************************************************************)
EXTENDS Integers, Totals

CONSTANTS
  Users,    \* who can own funds and be paid
  Tokens    \* the assets funds are made of

VARIABLES
  wallet,   \* what each user has of each token, outside the funds
  funds     \* every fund ever made, by its id

vars == <<wallet, funds>>

Init ==
  /\ wallet \in [Tokens -> [Users -> Nat]]
  /\ funds = <<>>

\* o makes one fund and pays for it.
Open(o, t) ==
  \E d \in DOMAIN funds' \ DOMAIN funds :
    LET a == funds'[d].rest
    IN  /\ DOMAIN funds' = DOMAIN funds \cup {d}
        /\ \A e \in DOMAIN funds : funds'[e] = funds[e]
        /\ funds'[d].owner = o /\ funds'[d].token = t /\ funds'[d].open
        /\ a > 0
        /\ a <= wallet[t][o]
        /\ wallet' = [wallet EXCEPT ![t][o] = @ - a]

\* What the users get of a token in this step.
Received(t) == [u \in Users |-> wallet'[t][u] - wallet[t][u]]

\* The amount that leaves d in this step is received by users among `who`.
Arrives(d, amount, who) ==
  LET t == funds[d].token
  IN  /\ \A s \in Tokens \ {t} : wallet'[s] = wallet[s]
      /\ \A u \in Users : Received(t)[u] >= 0 /\ (Received(t)[u] > 0 => u \in who)
      /\ TotalOver(Received(t), Users) = amount

\* A part goes to the payees.  The last draw may close the fund.
Draw(d) ==
  \E part \in 1..funds[d].rest, open \in BOOLEAN :
    /\ funds[d].open
    /\ funds' = [funds EXCEPT ![d].rest = IF open THEN @ - part ELSE 0, ![d].open = open]
    /\ Arrives(d, part, funds[d].payees)

\* A last part goes to the payees and the rest back to the owner.
Close(d) ==
  /\ funds[d].open
  /\ funds' = [funds EXCEPT ![d].rest = 0, ![d].open = FALSE]
  /\ Arrives(d, funds[d].rest, funds[d].payees \cup {funds[d].owner})

\* The owner chooses other payees.
Redirect(d) ==
  /\ funds[d].open
  /\ \E P \in SUBSET Users : funds' = [funds EXCEPT ![d].payees = P]
  /\ UNCHANGED wallet

Next ==
  \/ \E o \in Users, t \in Tokens : Open(o, t)
  \/ \E d \in DOMAIN funds : Draw(d) \/ Close(d) \/ Redirect(d)

Spec == Init /\ [][Next]_vars

=============================================================================
