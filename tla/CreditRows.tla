----------------------------- MODULE CreditRows -----------------------------
(***************************************************************************)
(* The credit ledger statement by statement (server/services/credits.ts)   *)
(* on PostgreSQL at its default isolation level.                           *)
(*                                                                         *)
(* A process is one request handler or job; it runs database transactions  *)
(* made of ledger calls.  Three facts about the database carry the model:  *)
(*   - SELECT ... FOR UPDATE takes the row lock of a user and returns the  *)
(*     newest committed version of the row; an UPDATE writes a version     *)
(*     that others see only after the commit;                              *)
(*   - a row inserted into credit_transactions references its users, and   *)
(*     the foreign key check takes a KEY SHARE lock on each of them, which *)
(*     excludes FOR UPDATE but not another KEY SHARE;                      *)
(*   - locks are kept until the transaction ends.                          *)
(*                                                                         *)
(* The trial expiry job (HandleInactiveNewCustomersWorker) runs beside     *)
(* them and writes users.credit_balance without a ledger row.              *)
(***************************************************************************)
EXTENDS Integers, FiniteSets

CONSTANTS
    Users,      \* the users whose wallets are modelled
    NoUser,     \* a null charged_user_id or credited_user_id
    Procs,      \* request handlers and jobs that run transactions
    Amounts,    \* the amounts ledger calls are made with
    Trial,      \* credits a new user starts with
    MaxTx,      \* bound: transactions begun in a behaviour
    MaxCalls    \* bound: ledger calls made in a behaviour

ASSUME NoUserAssumption == NoUser \notin Users
ASSUME AmountsAssumption == Amounts \subseteq Nat \ {0}
ASSUME TrialAssumption == Trial \in Nat
ASSUME BoundsAssumption == MaxTx \in Nat /\ MaxCalls \in Nat

VARIABLES
    db,       \* db[u]: the committed row of user u, [balance, frozen]
    ledger,   \* ledger[u]: committed credit_transactions, [charged, credited]
    expired,  \* expired[u]: credits written off by the trial expiry
    used,     \* users with a committed row of a category that ends a trial
    pc,       \* pc[p]: where process p is in its transaction
    call,     \* call[p]: the ledger call it is in
    held,     \* held[p]: users locked FOR UPDATE
    share,    \* share[p]: users locked KEY SHARE by an inserted row
    seen,     \* seen[p]: the row its last SELECT ... FOR UPDATE returned
    work,     \* work[p][u]: its version of the row, while u \in held[p]
    rows,     \* rows[p][u]: the ledger rows it has inserted, not committed
    uses,     \* uses[p]: users whose trial these rows end
    begun,    \* transactions begun so far
    calls,    \* ledger calls made so far
    roster    \* users the expiry job has read and still has to process

tables  == <<db, ledger, expired, used>>
private == <<pc, call, held, share, seen, work, rows, uses>>
bounds  == <<begun, calls>>
vars    == <<tables, private, bounds, roster>>

Row    == [balance : Int, frozen : Nat]
Entry  == [charged : Int, credited : Int]
NoRows == [charged |-> 0, credited |-> 0]
NewRow == [balance |-> Trial, frozen |-> 0]

\* A call is about one user (freeze, unfreeze) or about a charged and a
\* credited user, either of which may be null (createCreditTransaction).
NoCall == [kind |-> "none", from |-> NoUser, to |-> NoUser, out |-> 0, in |-> 0]
Call   == [kind : {"none", "freeze", "unfreeze", "book"},
           from : Users \cup {NoUser}, to : Users \cup {NoUser},
           out  : Nat, in : Nat]

\* Statements of a call, in order.  "book" inserts its row (one foreign key
\* check per user), then locks and updates the charged user, then the credited
\* one; "freeze" and "unfreeze" only lock and update their user.
PC == {"idle", "open", "insertFrom", "insertTo", "lockFrom", "updateFrom",
       "lockTo", "updateTo", "raised"}

TypeOK ==
    /\ db \in [Users -> Row]
    /\ ledger \in [Users -> Entry]
    /\ expired \in [Users -> Int]
    /\ used \in SUBSET Users
    /\ uses \in [Procs -> SUBSET Users]
    /\ pc \in [Procs -> PC]
    /\ call \in [Procs -> Call]
    /\ held \in [Procs -> SUBSET Users]
    /\ share \in [Procs -> SUBSET Users]
    /\ seen \in [Procs -> Row]
    /\ work \in [Procs -> [Users -> Row]]
    /\ rows \in [Procs -> [Users -> Entry]]
    /\ begun \in Nat
    /\ calls \in Nat
    /\ roster \in SUBSET Users

Init ==
    /\ db = [u \in Users |-> NewRow]
    /\ ledger = [u \in Users |-> [charged |-> 0, credited |-> Trial]]
    /\ expired = [u \in Users |-> 0]
    /\ used = {}
    /\ uses = [p \in Procs |-> {}]
    /\ pc = [p \in Procs |-> "idle"]
    /\ call = [p \in Procs |-> NoCall]
    /\ held = [p \in Procs |-> {}]
    /\ share = [p \in Procs |-> {}]
    /\ seen = [p \in Procs |-> NewRow]
    /\ work = [p \in Procs |-> [u \in Users |-> NewRow]]
    /\ rows = [p \in Procs |-> [u \in Users |-> NoRows]]
    /\ begun = 0
    /\ calls = 0
    /\ roster = {}

-----------------------------------------------------------------------------
(* Locks *)

\* The user the next statement of p is about.
Target(p) ==
    IF pc[p] \in {"insertFrom", "lockFrom", "updateFrom"} THEN call[p].from
                                                          ELSE call[p].to

Inserting(p) == pc[p] \in {"insertFrom", "insertTo"}
Locking(p)   == pc[p] \in {"lockFrom", "lockTo"}

\* The processes whose locks the next statement of p has to wait for.
Blockers(p) ==
    {q \in Procs \ {p} :
        \/ (Inserting(p) \/ Locking(p)) /\ Target(p) \in held[q]
        \/ Locking(p) /\ Target(p) \in share[q]}

\* p waits in a cycle: PostgreSQL's deadlock detector will find it.
Deadlocked(p) ==
    \E S \in SUBSET Procs :
        /\ p \in S
        /\ \A q \in S : Blockers(q) \cap S # {}
        /\ \A q \in S : \E r \in S : q \in Blockers(r)

-----------------------------------------------------------------------------
(* Transactions *)

\* prisma.$transaction: the outermost transaction() opens one, nested calls
\* join it.
Begin(p) ==
    /\ pc[p] = "idle"
    /\ begun < MaxTx
    /\ begun' = begun + 1
    /\ pc' = [pc EXCEPT ![p] = "open"]
    /\ UNCHANGED <<tables, call, held, share, seen, work, rows, uses, calls, roster>>

\* What ends a transaction, either way: locks and uncommitted versions go.
Release(p) ==
    /\ pc' = [pc EXCEPT ![p] = "idle"]
    /\ call' = [call EXCEPT ![p] = NoCall]
    /\ held' = [held EXCEPT ![p] = {}]
    /\ share' = [share EXCEPT ![p] = {}]
    /\ seen' = [seen EXCEPT ![p] = NewRow]
    /\ work' = [work EXCEPT ![p] = [u \in Users |-> NewRow]]
    /\ rows' = [rows EXCEPT ![p] = [u \in Users |-> NoRows]]
    /\ uses' = [uses EXCEPT ![p] = {}]
    /\ UNCHANGED <<bounds, roster>>

\* The caller's work is done, or it raised an error it carries past the commit.
Commit(p) ==
    /\ pc[p] = "open"
    /\ db' = [u \in Users |-> IF u \in held[p] THEN work[p][u] ELSE db[u]]
    /\ ledger' = [u \in Users |->
                     [charged  |-> ledger[u].charged + rows[p][u].charged,
                      credited |-> ledger[u].credited + rows[p][u].credited]]
    /\ used' = used \cup uses[p]
    /\ UNCHANGED expired
    /\ Release(p)

\* An exception leaves the transaction, its 30 seconds are over, or the
\* process dies: the database rolls back.
Rollback(p) ==
    /\ pc[p] # "idle"
    /\ UNCHANGED tables
    /\ Release(p)

\* The deadlock detector aborts a transaction that waits in a cycle.
DeadlockAbort(p) ==
    /\ Deadlocked(p)
    /\ UNCHANGED tables
    /\ Release(p)

-----------------------------------------------------------------------------
(* Ledger calls *)

\* A call whose row ends the trials of the users in ends.
Enter(p, c, first, ends) ==
    /\ pc[p] = "open"
    /\ calls < MaxCalls
    /\ calls' = calls + 1
    /\ call' = [call EXCEPT ![p] = c]
    /\ pc' = [pc EXCEPT ![p] = first]
    /\ uses' = [uses EXCEPT ![p] = @ \cup ends]
    /\ UNCHANGED <<tables, held, share, seen, work, rows, begun, roster>>

OneUserCall(kind, u, a) ==
    [kind |-> kind, from |-> u, to |-> NoUser, out |-> a, in |-> 0]

FreezeCredits(p) ==
    \E u \in Users, a \in Amounts :
        Enter(p, OneUserCall("freeze", u, a), "lockFrom", {})

\* A null amount means all of frozen_credits; the cap of Unfrozen makes it the
\* same as an amount at least that large.
UnfreezeCredits(p) ==
    \E u \in Users, a \in Amounts :
        Enter(p, OneUserCall("unfreeze", u, a), "lockFrom", {})

\* The two sides of a row are independent: a charge, a credit, or a transfer
\* where the credited side may get less than the charged side pays.  Its category
\* is sticker, manual or manual_reflect, or one that ends a trial.
CreateCreditTransaction(p) ==
    \E u, v \in Users \cup {NoUser}, a, b \in Amounts :
        /\ ~ (u = NoUser /\ v = NoUser)
        /\ b <= a
        /\ \E ends \in {{}, {u, v} \ {NoUser}} :
              Enter(p, [kind |-> "book", from |-> u, to |-> v,
                        out |-> IF u = NoUser THEN 0 ELSE a,
                        in  |-> IF v = NoUser THEN 0 ELSE b],
                    IF u = NoUser THEN "insertTo" ELSE "insertFrom", ends)

-----------------------------------------------------------------------------
(* Statements *)

AddCharged(e, a)  == [charged |-> e.charged + a, credited |-> e.credited]
AddCredited(e, a) == [charged |-> e.charged, credited |-> e.credited + a]

\* INSERT INTO credit_transactions, as far as the charged user is concerned.
InsertFrom(p) ==
    LET u == call[p].from IN
    /\ pc[p] = "insertFrom"
    /\ Blockers(p) = {}
    /\ pc' = [pc EXCEPT ![p] = IF call[p].to = NoUser THEN "lockFrom" ELSE "insertTo"]
    /\ share' = [share EXCEPT ![p] = @ \cup {u}]
    /\ rows' = [rows EXCEPT ![p][u] = AddCharged(@, call[p].out)]
    /\ UNCHANGED <<tables, call, held, seen, work, uses, bounds, roster>>

\* The same INSERT, as far as the credited user is concerned.
InsertTo(p) ==
    LET u == call[p].to IN
    /\ pc[p] = "insertTo"
    /\ Blockers(p) = {}
    /\ pc' = [pc EXCEPT ![p] = IF call[p].from = NoUser THEN "lockTo" ELSE "lockFrom"]
    /\ share' = [share EXCEPT ![p] = @ \cup {u}]
    /\ rows' = [rows EXCEPT ![p][u] = AddCredited(@, call[p].in)]
    /\ UNCHANGED <<tables, call, held, seen, work, uses, bounds, roster>>

\* SELECT ... FOR UPDATE: the row as this transaction already changed it, or
\* else the newest committed one.
CurrentRow(p, u) == IF u \in held[p] THEN work[p][u] ELSE db[u]

\* Mutant of LockUser: a plain SELECT, which waits for nobody.
LockUserPlain(p) ==
    LET u == Target(p) IN
    /\ Locking(p)
    /\ held' = [held EXCEPT ![p] = @ \cup {u}]
    /\ seen' = [seen EXCEPT ![p] = CurrentRow(p, u)]
    /\ work' = [work EXCEPT ![p][u] = CurrentRow(p, u)]
    /\ pc' = [pc EXCEPT ![p] = IF pc[p] = "lockFrom" THEN "updateFrom" ELSE "updateTo"]
    /\ UNCHANGED <<tables, call, share, rows, uses, bounds, roster>>

LockUser(p) ==
    LET u == Target(p) IN
    /\ Locking(p)
    /\ Blockers(p) = {}
    /\ held' = [held EXCEPT ![p] = @ \cup {u}]
    /\ seen' = [seen EXCEPT ![p] = CurrentRow(p, u)]
    /\ work' = [work EXCEPT ![p][u] = CurrentRow(p, u)]
    /\ pc' = [pc EXCEPT ![p] = IF pc[p] = "lockFrom" THEN "updateFrom" ELSE "updateTo"]
    /\ UNCHANGED <<tables, call, share, rows, uses, bounds, roster>>

\* UPDATE users SET credit_balance = credit_balance + diff.
AddBalance(row, diff) == [balance |-> row.balance + diff, frozen |-> row.frozen]

\* UPDATE users SET credit_balance = credit_balance - a,
\*                  frozen_credits = frozen_credits + a.
MoveToFrozen(row, a) == [balance |-> row.balance - a, frozen |-> row.frozen + a]

\* How much of a is released, given the row that was read: at most all of it.
Unfrozen(row, a) == IF a > row.frozen THEN row.frozen ELSE a

\* p wrote a new version of the row of u; its call returns or goes on.
Write(p, u, row, next) ==
    /\ work' = [work EXCEPT ![p][u] = row]
    /\ pc' = [pc EXCEPT ![p] = next]
    /\ call' = [call EXCEPT ![p] = IF next = "open" THEN NoCall ELSE @]
    /\ seen' = [seen EXCEPT ![p] = NewRow]
    /\ UNCHANGED <<tables, held, share, rows, uses, bounds, roster>>

\* Mutant of RefuseFreeze: waits for more credits, with the row locked.
RefuseFreezeRetries(p) ==
    /\ pc[p] = "updateFrom"
    /\ call[p].kind = "freeze"
    /\ call[p].out > seen[p].balance
    /\ pc' = [pc EXCEPT ![p] = "lockFrom"]
    /\ UNCHANGED <<tables, call, held, share, seen, work, rows, uses, bounds, roster>>

\* The check of freezeCredits, on the row read under the lock.
RefuseFreeze(p) ==
    /\ pc[p] = "updateFrom"
    /\ call[p].kind = "freeze"
    /\ call[p].out > seen[p].balance
    /\ pc' = [pc EXCEPT ![p] = "raised"]
    /\ UNCHANGED <<tables, call, held, share, seen, work, rows, uses, bounds, roster>>

\* Mutant of UpdateFreeze: the check is forgotten.
UpdateFreezeUnchecked(p) ==
    /\ pc[p] = "updateFrom"
    /\ call[p].kind = "freeze"
    /\ Write(p, call[p].from, MoveToFrozen(work[p][call[p].from], call[p].out), "open")

UpdateFreeze(p) ==
    LET u == call[p].from IN
    /\ pc[p] = "updateFrom"
    /\ call[p].kind = "freeze"
    /\ call[p].out <= seen[p].balance
    /\ Write(p, u, MoveToFrozen(work[p][u], call[p].out), "open")

\* With nothing to release the code returns before the UPDATE, which would have
\* changed nothing.
UpdateUnfreeze(p) ==
    LET u == call[p].from IN
    /\ pc[p] = "updateFrom"
    /\ call[p].kind = "unfreeze"
    /\ Write(p, u, MoveToFrozen(work[p][u], - Unfrozen(seen[p], call[p].out)), "open")

UpdateCharged(p) ==
    LET u == call[p].from IN
    /\ pc[p] = "updateFrom"
    /\ call[p].kind = "book"
    /\ Write(p, u, AddBalance(work[p][u], - call[p].out),
             IF call[p].to = NoUser THEN "open" ELSE "lockTo")

UpdateCredited(p) ==
    LET u == call[p].to IN
    /\ pc[p] = "updateTo"
    /\ Write(p, u, AddBalance(work[p][u], call[p].in), "open")

-----------------------------------------------------------------------------
(* The trial expiry job *)

\* No row of credit_transactions is about u but of the categories sticker, manual
\* and manual_reflect.
OnTrial(u) == u \notin used

\* The job's query: guests on the last day of their trial who never booked
\* anything, gifts and what an operator books aside.
ExpiryScan ==
    /\ roster = {}
    /\ roster' = {u \in Users : OnTrial(u)}
    /\ roster' # {}
    /\ UNCHANGED <<tables, private, bounds>>

\* The loop over the list: an UPDATE that sets the balance to 0, whatever it
\* is by now.  It needs the row lock, so it waits for FOR UPDATE holders.
ExpiryWrite(u) ==
    /\ u \in roster
    /\ \A p \in Procs : u \notin held[p]
    /\ roster' = roster \ {u}
    /\ expired' = [expired EXCEPT ![u] = @ + db[u].balance]
    /\ db' = [db EXCEPT ![u] = [balance |-> 0, frozen |-> @.frozen]]
    /\ UNCHANGED <<ledger, used, private, bounds>>

\* The other users on the list only get a message, or the job stopped.
ExpirySkip(u) ==
    /\ u \in roster
    /\ roster' = roster \ {u}
    /\ UNCHANGED <<tables, private, bounds>>

-----------------------------------------------------------------------------
Statement(p) ==
    \/ InsertFrom(p)
    \/ InsertTo(p)
    \/ LockUser(p)
    \/ RefuseFreeze(p)
    \/ UpdateFreeze(p)
    \/ UpdateUnfreeze(p)
    \/ UpdateCharged(p)
    \/ UpdateCredited(p)

LedgerCall(p) ==
    \/ FreezeCredits(p)
    \/ UnfreezeCredits(p)
    \/ CreateCreditTransaction(p)

Process(p) ==
    \/ Begin(p)
    \/ LedgerCall(p)
    \/ Statement(p)
    \/ Commit(p)
    \/ Rollback(p)
    \/ DeadlockAbort(p)

Expiry ==
    \/ ExpiryScan
    \/ \E u \in Users : ExpiryWrite(u) \/ ExpirySkip(u)

Next == (\E p \in Procs : Process(p)) \/ Expiry

Spec == Init /\ [][Next]_vars

\* A statement that does not wait is executed, a handler between two calls goes
\* on or ends its transaction, one that raised rolls back, and the deadlock
\* detector does its work (deadlock_timeout).  Beginning a transaction, dying
\* and expiring trials are not fair: nothing forces them.
Fairness ==
    \A p \in Procs :
        /\ WF_vars(Statement(p))
        /\ WF_vars(Commit(p))
        /\ WF_vars(pc[p] = "raised" /\ Rollback(p))
        /\ WF_vars(DeadlockAbort(p))

FairSpec == Spec /\ Fairness

-----------------------------------------------------------------------------
(* Properties *)

\* credits.ts:10-13: whatever the interleaving of transactions, what a user has
\* in users.credit_balance and users.frozen_credits is what credit_transactions
\* says, less what the trial expiry wrote off.  A lost update breaks it.
LedgerBalanced ==
    \A u \in Users :
        db[u].balance + db[u].frozen
            = ledger[u].credited - ledger[u].charged - expired[u]

\* The ledger as its callers see it: transactions that happen in one piece, on
\* wallets made of a user's row and of what the ledger says of the user.
WalletOf(u) == [balance  |-> db[u].balance,
                frozen   |-> db[u].frozen,
                charged  |-> ledger[u].charged,
                credited |-> ledger[u].credited,
                expired  |-> expired[u]]

Wallets == [u \in Users |-> WalletOf(u)]

Ledger == INSTANCE CreditLedger WITH Credits <- Int, wallet <- Wallets

\* The statements of credits.ts, interleaved, cut off by rollbacks and held up
\* by locks, do nothing that atomic transactions of CreditLedger would not do.
ImplementsLedger == Ledger!Spec

\* A transaction never stays open for ever, although ledger calls lock users in
\* the order the caller happens to name them and two bookings for one user can
\* each wait for the other's foreign key lock.
EveryTransactionEnds ==
    \A p \in Procs : (pc[p] # "idle") ~> (pc[p] = "idle")

\* handlers.ts:588 "the trial credits expire": credits are written off only for
\* a user who has still booked nothing that ends a trial.
ExpiryTakesTrialOnly ==
    [][\A u \in Users : expired'[u] # expired[u] => OnTrial(u)]_vars
=============================================================================
