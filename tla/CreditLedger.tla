---------------------------- MODULE CreditLedger ----------------------------
(***************************************************************************)
(* What the credit ledger promises, whatever statements it is made of.     *)
(*                                                                         *)
(* Every user has a wallet: spendable credits (users.credit_balance),      *)
(* frozen credits (users.frozen_credits) and, beside them, what the rows   *)
(* of credit_transactions add up to for that user.  One database           *)
(* transaction is one step here.  It may touch several wallets, and for    *)
(* each of them the spendable and the frozen credits together move by      *)
(* exactly what the rows written in the same transaction say.              *)
(***************************************************************************)
EXTENDS Integers

CONSTANTS
    Users,      \* the users that own a wallet
    Credits,    \* the amounts of credits that exist, a set of integers
    Trial       \* the credits a user is given when the account is created

VARIABLE wallet

Wallet == [balance  : Credits,   \* users.credit_balance
           frozen   : Credits,   \* users.frozen_credits
           charged  : Credits,   \* sum of the rows that charge this user
           credited : Credits,   \* sum of the rows that credit this user
           expired  : Credits]   \* credits the trial expiry has written off

NewWallet == [balance |-> Trial, frozen |-> 0, charged |-> 0,
              credited |-> Trial, expired |-> 0]

\* All the credits a user owns, spendable or frozen.
Worth(w) == w.balance + w.frozen

\* What the rows of credit_transactions, and the expiries, say a user owns.
Booked(w) == w.credited - w.charged - w.expired

\* A transaction may turn wallet w into wallet v: the rows account for the
\* whole change, frozen credits never go below nothing, and credits are spent
\* that are not there only by a booked charge, never by a reservation.
MayBecome(w, v) ==
    /\ v.expired = w.expired
    /\ v.charged >= w.charged
    /\ v.credited >= w.credited
    /\ v.frozen >= 0
    /\ Worth(v) - Worth(w) = Booked(v) - Booked(w)
    /\ (v.balance < 0 /\ v.balance < w.balance) => v.charged > w.charged

Init == wallet = [u \in Users |-> NewWallet]

\* One committed transaction, over any number of wallets.
Commit ==
    /\ wallet' \in [Users -> Wallet]
    /\ \A u \in Users : MayBecome(wallet[u], wallet'[u])

\* The expiry of trial credits empties the spendable part of one wallet.
Expired(w) == [balance |-> 0, frozen |-> w.frozen, charged |-> w.charged,
               credited |-> w.credited, expired |-> w.expired + w.balance]

Expire(u) == wallet' = [wallet EXCEPT ![u] = Expired(@)]

Next == Commit \/ \E u \in Users : Expire(u)

Spec == Init /\ [][Next]_wallet

-----------------------------------------------------------------------------
\* Every credit a user owns is accounted for by ledger rows: no credits appear
\* or vanish between users.credit_balance, users.frozen_credits and
\* credit_transactions.
LedgerBalanced == \A u \in Users : Worth(wallet[u]) = Booked(wallet[u])
=============================================================================
