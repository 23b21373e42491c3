----------------------------- MODULE Settlement -----------------------------
(***************************************************************************)
(* An order from its group chat to its bill: the casts press start and     *)
(* finish, operators start, finish, settle and recharge it                 *)
(* (server/services/meetings/lifecycle.ts and finances.ts, the routes      *)
(* below app/api/meetings, app/api/internal_api and app/api/admin).        *)
(*                                                                         *)
(* completeMeeting is one transaction.  It locks the guest's row with the  *)
(* first ledger row it books and the order's row when it updates it; a     *)
(* recharge locks the order's row first.  What it writes becomes visible   *)
(* when it commits, but the card it charges stays charged either way.      *)
(***************************************************************************)
EXTENDS Integers, FiniteSets

CONSTANTS
    Casts,        \* the casts that attend
    Procs,        \* request handlers
    NoProc,       \* nobody holds a lock
    NoCast,       \* a handler that is not about one cast
    Requests,     \* the kinds of requests that arrive
    Estimate,     \* the credits reserved for the order
    Total,        \* the order's final costs
    Pack,         \* card charges are rounded up to a multiple of this (1000)
    Openings,     \* spendable credits a guest may have when it is scheduled
    OtherFrozen,  \* credits frozen for the guest's other orders
    MaxStarted,   \* bound: requests
    MaxErrors,    \* bound: database errors while rewards are booked
    MaxCrashes    \* bound: processes that die

ASSUME ProcAssumption == NoProc \notin Procs
ASSUME CastAssumption == NoCast \notin Casts
ASSUME MoneyAssumption ==
    /\ Estimate \in Nat /\ Total \in Nat /\ Pack \in Nat \ {0}
    /\ Openings \subseteq Nat /\ OtherFrozen \in Nat
ASSUME BoundAssumption == MaxStarted \in Nat /\ MaxErrors \in Nat /\ MaxCrashes \in Nat
ASSUME RequestAssumption ==
    Requests \subseteq {"arrive", "finish", "operatorStart", "operatorFinish",
                        "adminFinish", "complete", "adminComplete", "recharge", "spend"}

VARIABLES
    status,    \* meetings.status
    shown,     \* the statuses it has had: an admin page left open still shows one
    arrived,   \* the casts with a start_time
    ended,     \* the casts with an end_time
    reserved,  \* meetings.frozen_credits
    bills,     \* how often the order's ledger rows have been booked
    forced,    \* history: settled before all casts had finished, or an admin
               \* pressed a button of an outdated page after it was settled
    balance,   \* users.credit_balance of the guest
    frozen,    \* users.frozen_credits of the guest
    taken,     \* credits' worth of money the gateway has taken
    booked,    \* credits of the conversions recorded for that money
    lock,      \* who holds the order's row
    purse,     \* who holds the guest's row
    at,        \* at[p]: the statement p executes next
    cast,      \* cast[p]: the cast that pressed finish or start
    redo,      \* redo[p]: a recharge
    skip,      \* skip[p]: skipComplete
    freed,     \* freed[p]: credits its transaction has released
    bought,    \* bought[p]: credits its transaction buys, or has bought
    started, errors, crashes    \* counters of the bounds

order  == <<status, shown, arrived, ended, reserved, bills, forced>>
money  == <<balance, frozen, taken, booked>>
locks  == <<lock, purse>>
locals == <<cast, redo, skip, freed, bought>>
bounds == <<started, errors, crashes>>
vars   == <<order, money, locks, at, locals, bounds>>

Status == {"scheduled", "in_progress", "finished", "completed", "post_charge_fail"}
Labels == {"idle", "arrive", "startAll", "startRead", "startWrite", "end",
           "endAll", "checkAll", "mark", "begin", "bill", "complete", "release",
           "charge", "reward", "postFail"}

TypeOK ==
    /\ status \in Status /\ shown \subseteq Status /\ forced \in BOOLEAN
    /\ arrived \subseteq Casts /\ ended \subseteq Casts
    /\ reserved \in {0, Estimate} /\ bills \in Nat
    /\ balance \in Int /\ frozen \in Nat /\ taken \in Nat /\ booked \in Nat
    /\ lock \in Procs \cup {NoProc} /\ purse \in Procs \cup {NoProc}
    /\ at \in [Procs -> Labels]
    /\ cast \in [Procs -> Casts \cup {NoCast}]
    /\ redo \in [Procs -> BOOLEAN] /\ skip \in [Procs -> BOOLEAN]
    /\ freed \in [Procs -> Nat] /\ bought \in [Procs -> Nat]
    /\ started \in Nat /\ errors \in Nat /\ crashes \in Nat

Init ==
    /\ status = "scheduled" /\ shown = {"scheduled"} /\ forced = FALSE
    /\ arrived = {} /\ ended = {}
    /\ reserved = Estimate /\ bills = 0
    /\ balance \in Openings /\ frozen = Estimate + OtherFrozen
    /\ taken = 0 /\ booked = 0
    /\ lock = NoProc /\ purse = NoProc
    /\ at = [p \in Procs |-> "idle"]
    /\ cast = [p \in Procs |-> NoCast]
    /\ redo = [p \in Procs |-> FALSE]
    /\ skip = [p \in Procs |-> FALSE]
    /\ freed = [p \in Procs |-> 0]
    /\ bought = [p \in Procs |-> 0]
    /\ started = 0 /\ errors = 0 /\ crashes = 0

-----------------------------------------------------------------------------
(* Handlers and their steps *)

Goto(p, l) == at' = [at EXCEPT ![p] = l]

Start(p, kind, l) ==
    /\ kind \in Requests
    /\ at[p] = "idle"
    /\ started < MaxStarted
    /\ started' = started + 1
    /\ UNCHANGED <<errors, crashes>>
    /\ Goto(p, l)

Forget(p) ==
    /\ cast' = [cast EXCEPT ![p] = NoCast]
    /\ redo' = [redo EXCEPT ![p] = FALSE]
    /\ skip' = [skip EXCEPT ![p] = FALSE]
    /\ freed' = [freed EXCEPT ![p] = 0]
    /\ bought' = [bought EXCEPT ![p] = 0]

Finish(p) == Goto(p, "idle") /\ Forget(p)

Unlock(p) ==
    /\ lock' = IF lock = p THEN NoProc ELSE lock
    /\ purse' = IF purse = p THEN NoProc ELSE purse

\* The transaction of p is rolled back and p goes on at l.
Rollback(p, l) ==
    /\ Unlock(p)
    /\ Goto(p, l)
    /\ Forget(p)
    /\ UNCHANGED <<order, money>>

\* An UPDATE of the order's row outside a transaction.
SetStatus(p, s) ==
    /\ lock = NoProc
    /\ status' = s
    /\ shown' = shown \cup {s}
    /\ UNCHANGED <<arrived, ended, reserved, bills, forced, money, locks, bounds>>

\* Something else is paid from the guest's balance.
SpendElsewhere(p) ==
    /\ Start(p, "spend", "idle")
    /\ purse = NoProc
    /\ balance > 0
    /\ balance' = balance - 1
    /\ UNCHANGED <<order, frozen, taken, booked, locks, locals>>

-----------------------------------------------------------------------------
(* Starting *)

\* castArriveAtMeeting refuses a cast that has a start time.
Arrive(p) ==
    \E c \in Casts \ arrived :
        /\ cast' = [cast EXCEPT ![p] = c]
        /\ Start(p, "arrive", "arrive")
        /\ UNCHANGED <<order, money, locks, redo, skip, freed, bought>>

SetStartTime(p) ==
    /\ at[p] = "arrive"
    /\ arrived' = arrived \cup {cast[p]}
    /\ Goto(p, "startRead")
    /\ UNCHANGED <<status, shown, ended, reserved, bills, forced, money, locks, locals, bounds>>

\* The back office starts the order for all casts.
OperatorStart(p) ==
    /\ status = "scheduled"
    /\ Start(p, "operatorStart", "startAll")
    /\ UNCHANGED <<order, money, locks, locals>>

SetStartTimes(p) ==
    /\ at[p] = "startAll"
    /\ arrived' = Casts
    /\ Goto(p, "startRead")
    /\ UNCHANGED <<status, shown, ended, reserved, bills, forced, money, locks, locals, bounds>>

\* startMeeting reads the status, then sets it.
StartRead(p) ==
    /\ at[p] = "startRead"
    /\ IF status = "scheduled" THEN Goto(p, "startWrite") /\ UNCHANGED locals ELSE Finish(p)
    /\ UNCHANGED <<order, money, locks, bounds>>

StartMeeting(p) ==
    /\ at[p] = "startWrite"
    /\ SetStatus(p, "in_progress")
    /\ Finish(p)

-----------------------------------------------------------------------------
(* Finishing *)

\* Mutant of CastFinish: a second press is not refused.
CastFinishAgain(p) ==
    \E c \in arrived, s \in BOOLEAN :
        /\ cast' = [cast EXCEPT ![p] = c]
        /\ skip' = [skip EXCEPT ![p] = s]
        /\ Start(p, "finish", "end")
        /\ UNCHANGED <<order, money, locks, redo, freed, bought>>

\* The finish button shows for a cast with a start time and no end time,
\* whatever the order's status; castFinishMeeting checks the end time.
CastFinish(p) ==
    \E c \in arrived \ ended, s \in BOOLEAN :
        /\ cast' = [cast EXCEPT ![p] = c]
        /\ skip' = [skip EXCEPT ![p] = s]
        /\ Start(p, "finish", "end")
        /\ UNCHANGED <<order, money, locks, redo, freed, bought>>

SetEndTime(p) ==
    /\ at[p] = "end"
    /\ ended' = ended \cup {cast[p]}
    /\ Goto(p, "checkAll")
    /\ UNCHANGED <<status, shown, arrived, reserved, bills, forced, money, locks, locals, bounds>>

\* The last cast to finish settles the order.
CheckAllFinished(p) ==
    /\ at[p] = "checkAll"
    /\ IF ended = Casts THEN Goto(p, "mark") /\ UNCHANGED locals ELSE Finish(p)
    /\ UNCHANGED <<order, money, locks, bounds>>

\* The back office finishes it: casts that never started get no end time.
OperatorFinish(p) ==
    /\ status \in {"in_progress", "finished"}
    /\ Start(p, "operatorFinish", "endAll")
    /\ UNCHANGED <<order, money, locks, locals>>

SetEndTimes(p) ==
    /\ at[p] = "endAll"
    /\ ended' = ended \cup arrived
    /\ Goto(p, "mark")
    /\ UNCHANGED <<status, shown, arrived, reserved, bills, forced, money, locks, locals, bounds>>

\* An admin presses a button of a page that showed one of the statuses; the
\* route does not look at the status again.
Press(statuses) ==
    /\ shown \cap statuses # {}
    /\ forced' = (forced \/ bills > 0)
    /\ UNCHANGED <<status, shown, arrived, ended, reserved, bills>>

\* The admin page only marks it finished.
AdminFinish(p) ==
    /\ Press({"in_progress", "finished"})
    /\ Start(p, "adminFinish", "mark")
    /\ skip' = [skip EXCEPT ![p] = TRUE]
    /\ UNCHANGED <<money, locks, cast, redo, freed, bought>>

\* markMeetingFinished sets the status whatever it is.
MarkMeetingFinished(p) ==
    /\ at[p] = "mark"
    /\ SetStatus(p, "finished")
    /\ IF skip[p] THEN Finish(p) ELSE Goto(p, "bill") /\ UNCHANGED locals

-----------------------------------------------------------------------------
(* Settling: completeMeeting *)

\* Mutant of CompleteMeeting: the status is not checked.
CompleteMeetingUnchecked(p) ==
    /\ Start(p, "complete", "bill")
    /\ UNCHANGED <<order, money, locks, locals>>

\* The internal complete route and CompleteMeetingWorker look at the status.
CompleteMeeting(p) ==
    /\ status = "finished"
    /\ Start(p, "complete", "bill")
    /\ UNCHANGED <<order, money, locks, locals>>

\* The button of the admin page, whose route settles whatever the status is.
AdminComplete(p) ==
    /\ Press({"finished"})
    /\ Start(p, "adminComplete", "bill")
    /\ UNCHANGED <<money, locks, locals>>

Recharge(p) ==
    /\ status = "post_charge_fail"
    /\ Start(p, "recharge", "begin")
    /\ redo' = [redo EXCEPT ![p] = TRUE]
    /\ UNCHANGED <<order, money, locks, cast, skip, freed, bought>>

\* Mutant of LockOrder: the status is not read again.
LockOrderUnchecked(p) ==
    /\ at[p] = "begin"
    /\ lock = NoProc
    /\ lock' = p
    /\ Goto(p, "bill")
    /\ UNCHANGED <<order, money, purse, locals, bounds>>

LockOrder(p) ==
    /\ at[p] = "begin"
    /\ lock = NoProc
    /\ status = "post_charge_fail"
    /\ lock' = p
    /\ Goto(p, "bill")
    /\ UNCHANGED <<order, money, purse, locals, bounds>>

\* Mutant of LockOrderTooLate: the transaction stays open.
LockOrderTooLateKeeps(p) ==
    /\ at[p] = "begin"
    /\ lock = NoProc
    /\ status # "post_charge_fail"
    /\ lock' = p
    /\ Finish(p)
    /\ UNCHANGED <<order, money, purse, bounds>>

LockOrderTooLate(p) ==
    /\ at[p] = "begin"
    /\ lock = NoProc
    /\ status # "post_charge_fail"
    /\ Finish(p)
    /\ UNCHANGED <<order, money, locks, bounds>>

\* createMeetingTransactions: one ledger row per cast charges the guest.
BookAttendances(p) ==
    /\ at[p] = "bill"
    /\ purse = NoProc
    /\ purse' = p
    /\ Goto(p, "complete")
    /\ UNCHANGED <<order, money, lock, locals, bounds>>

MarkMeetingCompleted(p) ==
    /\ at[p] = "complete"
    /\ lock \in {NoProc, p}
    /\ lock' = p
    /\ Goto(p, "release")
    /\ UNCHANGED <<order, money, purse, locals, bounds>>

Released(n) == IF n > frozen THEN frozen ELSE n

RoundUp(n) == Pack * ((n + Pack - 1) \div Pack)

\* Mutant of Shortfall: the balance as it was before the bill.
ShortfallBefore == IF balance < 0 THEN RoundUp(- balance) ELSE 0

\* What the card is charged for: the balance after the bill and the release.
Shortfall ==
    LET left == balance - Total + Released(reserved)
    IN  IF left < 0 THEN RoundUp(- left) ELSE 0

\* Mutant of ReleaseReserved: releases the estimate, whatever is still reserved.
ReleaseReservedEstimate(p) ==
    /\ at[p] = "release"
    /\ freed' = [freed EXCEPT ![p] = Released(Estimate)]
    /\ bought' = [bought EXCEPT ![p] = Shortfall]
    /\ Goto(p, IF Shortfall > 0 THEN "charge" ELSE "reward")
    /\ UNCHANGED <<order, money, locks, cast, redo, skip, bounds>>

\* finalizeMeetingFinances.
ReleaseReserved(p) ==
    /\ at[p] = "release"
    /\ freed' = [freed EXCEPT ![p] = Released(reserved)]
    /\ bought' = [bought EXCEPT ![p] = Shortfall]
    /\ Goto(p, IF Shortfall > 0 THEN "charge" ELSE "reward")
    /\ UNCHANGED <<order, money, locks, cast, redo, skip, bounds>>

ChargeCard(p) ==
    /\ at[p] = "charge"
    /\ taken' = taken + bought[p]
    /\ Goto(p, "reward")
    /\ UNCHANGED <<order, balance, frozen, booked, locks, locals, bounds>>

\* MeetingFinanceFailure: everything is rolled back, then the status is set.
CardRefused(p) ==
    /\ at[p] = "charge"
    /\ Rollback(p, "postFail")
    /\ UNCHANGED bounds

SetPostChargeFail(p) ==
    /\ at[p] = "postFail"
    /\ SetStatus(p, "post_charge_fail")
    /\ Finish(p)

\* What the transaction of p has done becomes visible.
Commit(p) ==
    /\ balance' = balance - Total + freed[p] + bought[p]
    /\ frozen' = frozen - freed[p]
    /\ booked' = booked + bought[p]
    /\ reserved' = 0
    /\ status' = "completed"
    /\ shown' = shown \cup {"completed"}
    /\ bills' = bills + 1
    /\ forced' = (forced \/ ended # Casts)
    /\ Unlock(p)
    /\ Finish(p)
    /\ UNCHANGED <<arrived, ended, taken>>

\* All rewards are booked.
RewardAll(p) ==
    /\ at[p] = "reward"
    /\ Commit(p)
    /\ UNCHANGED bounds

\* Mutant of RewardRaises: a charged card does not keep the transaction.
RewardRaisesRollsBack(p) ==
    /\ at[p] = "reward"
    /\ Rollback(p, "idle")
    /\ UNCHANGED bounds

\* A reward step raises an error of its own: after a charge the transaction is
\* committed as it is (dontRollBack), otherwise it is rolled back.
RewardRaises(p) ==
    /\ at[p] = "reward"
    /\ IF bought[p] > 0 THEN Commit(p) ELSE Rollback(p, "idle")
    /\ UNCHANGED bounds

\* A statement of a reward step fails in the database (a deadlock, a
\* constraint, the transaction's timeout): PostgreSQL has aborted the
\* transaction, and the COMMIT that follows only rolls it back.
RewardAborted(p) ==
    /\ at[p] = "reward"
    /\ errors < MaxErrors
    /\ errors' = errors + 1
    /\ Rollback(p, "idle")
    /\ UNCHANGED <<started, crashes>>

\* The process dies.
Crash(p) ==
    /\ at[p] # "idle"
    /\ crashes < MaxCrashes
    /\ crashes' = crashes + 1
    /\ Rollback(p, "idle")
    /\ UNCHANGED <<started, errors>>

\* p holds the order's row and waits for the guest's, q the other way round; or
\* both have inserted a ledger row for the guest (CreditRows) and want the row.
Deadlock(p, q) ==
    /\ p # q
    /\ \/ at[p] = "bill" /\ lock = p /\ at[q] = "complete" /\ purse = q
       \/ at[p] = "bill" /\ at[q] = "bill" /\ purse = NoProc

DeadlockAbort(p) ==
    /\ \E q \in Procs : Deadlock(p, q) \/ Deadlock(q, p)
    /\ Rollback(p, "idle")
    /\ UNCHANGED bounds

-----------------------------------------------------------------------------
Request(p) == \/ Arrive(p) \/ OperatorStart(p) \/ CastFinish(p) \/ OperatorFinish(p)
              \/ AdminFinish(p) \/ CompleteMeeting(p) \/ AdminComplete(p)
              \/ Recharge(p) \/ SpendElsewhere(p)
Starting(p) == SetStartTime(p) \/ SetStartTimes(p) \/ StartRead(p) \/ StartMeeting(p)
Ending(p) == SetEndTime(p) \/ CheckAllFinished(p) \/ SetEndTimes(p) \/ MarkMeetingFinished(p)
Settle(p) == \/ LockOrder(p) \/ LockOrderTooLate(p) \/ BookAttendances(p)
             \/ MarkMeetingCompleted(p) \/ ReleaseReserved(p) \/ ChargeCard(p)
             \/ CardRefused(p) \/ SetPostChargeFail(p) \/ RewardAll(p)
             \/ RewardRaises(p) \/ DeadlockAbort(p)

Step(p)  == Starting(p) \/ Ending(p) \/ Settle(p)
Fault(p) == RewardAborted(p) \/ Crash(p)

Next == \E p \in Procs : Request(p) \/ Step(p) \/ Fault(p)

Spec == Init /\ [][Next]_vars

\* A handler that is not waiting for a lock goes on, and PostgreSQL resolves
\* deadlocks.
FairSpec == Spec /\ \A p \in Procs : WF_vars(Step(p))

-----------------------------------------------------------------------------
(* Properties *)

AtRest == \A p \in Procs : at[p] = "idle"

\* lifecycle.ts:332-340: a recharge books the order only while its committed
\* status is post_charge_fail, whatever other handlers set it to meanwhile.
RechargeOfFailedOnly ==
    [][\A p \in Procs : redo[p] /\ bills' # bills /\ at'[p] # at[p]
                            => status = "post_charge_fail"]_vars

\* finances.ts:15-19: settling releases what the order reserved, no less and,
\* for the guest's other orders, no more, also when two settlements race.
FrozenIsReserved == frozen = reserved + OtherFrozen

\* README.md:150-152: the money the gateway has taken is recorded.
TakenIsBooked == AtRest => taken = booked

\* finances.ts:94-96: a settled order leaves the guest without debts.
CompletedIsPaid == status = "completed" => balance >= 0

\* A handler never waits for ever, although completeMeeting and its recharge
\* lock the guest's and the order's row in opposite orders.
EveryHandlerReturns == \A p \in Procs : at[p] # "idle" ~> at[p] = "idle"

\* lifecycle.ts:244-247, "one ledger row per cast": whoever starts, finishes,
\* settles and recharges it, one after another, an order that is completed has
\* been billed once and one that is not has not been billed, unless the back
\* office settled it before its casts had finished or pressed a button of a page
\* that was outdated.
BilledOnce ==
    AtRest /\ ~ forced => bills = IF status = "completed" THEN 1 ELSE 0

\* The same for every order, as lifecycle.ts:244-247 has it.
NeverBilledTwice == bills <= 1
=============================================================================
