------------------------------- MODULE Escrow -------------------------------
(***************************************************************************)
(* What the payments promise about money: each payment is pledged once to   *)
(* one account for one amount, and settles once, which adds the amount to   *)
(* what the account has collected.                                          *)
(***************************************************************************)
EXTENDS Integers, FiniteSets, FiniteSetsExt

CONSTANTS Payments, Accounts, NoPledge

VARIABLES
    pledged,    \* pledged[t]: account and amount of payment t, or NoPledge
    settled,    \* the payments that have settled
    collected   \* collected[a]: what account a has collected

money == <<pledged, settled, collected>>

Init ==
    /\ pledged   = [t \in Payments |-> NoPledge]
    /\ settled   = {}
    /\ collected = [a \in Accounts |-> 0]

Pledges == [account: Accounts, amount: Nat]

\* A payment is pledged once, and what it is pledged for never changes.
Pledge(t) ==
    /\ pledged[t] = NoPledge
    /\ pledged'[t] \in Pledges
    /\ pledged' = [pledged EXCEPT ![t] = pledged'[t]]
    /\ UNCHANGED <<settled, collected>>

Settle(t) ==
    /\ pledged[t] # NoPledge
    /\ t \notin settled
    /\ settled' = settled \cup {t}
    /\ collected' = [collected EXCEPT ![pledged[t].account] = @ + pledged[t].amount]
    /\ UNCHANGED pledged

Next == \E t \in Payments : Pledge(t) \/ Settle(t)

Spec == Init /\ [][Next]_money

\* A payment that counts as settled although nobody collects its amount.
Lapse(t) ==
    /\ pledged[t] # NoPledge
    /\ t \notin settled
    /\ settled' = settled \cup {t}
    /\ UNCHANGED <<pledged, collected>>

\* The weaker promise: a payment is collected at most once.
LossyNext == Next \/ \E t \in Payments : Lapse(t)

LossySpec == Init /\ [][LossyNext]_money

\* The sum of the amounts g gives to the payments in S.
AmountSum(g, S) == MapThenSumSet(LAMBDA t : g[t].amount, S)

\* The settled payments of account a.
SettledFor(a) == {t \in settled : pledged[t] # NoPledge /\ pledged[t].account = a}

\* What the settled payments of account a add up to.
Balance(a) == AmountSum(pledged, SettledFor(a))

\* No money is lost: every account has collected what its payments add up to.
Conserved == \A a \in Accounts : collected[a] = Balance(a)

\* No money is made: no account has collected more than that.
NoneMade == \A a \in Accounts : collected[a] <= Balance(a)
=============================================================================
