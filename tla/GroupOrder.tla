----------------------------- MODULE GroupOrder -----------------------------
(***************************************************************************)
(* One group order from the guest's request to its group chat: casts       *)
(* enter, the money is reserved, casts are selected, and at any time the   *)
(* order may be withdrawn, cancelled or fail                               *)
(* (server/services/meetings/selection.ts and finances.ts, the routes      *)
(* below app/api/meetings/[id] and AutoOpenMeetingWorker).                 *)
(*                                                                         *)
(* A process runs one handler at a time.  A handler is a sequence of       *)
(* database statements and gateway calls; every statement outside a        *)
(* transaction is a step of its own, so handlers interleave where the code *)
(* awaits.  The one transaction that spans several steps is that of        *)
(* setupCastSelection, because it calls the gateway while it holds the     *)
(* lock of the order's row: others may read the row meanwhile, but their   *)
(* updates of it wait.  Ledger calls are the atomic transactions that      *)
(* CreditRows implements.                                                  *)
(***************************************************************************)
EXTENDS Integers, FiniteSets

CONSTANTS
    Casts,        \* the casts that may enter the order
    Procs,        \* request handlers and workers
    NoProc,       \* nobody holds the row lock
    NoCast,       \* a handler that is not about one cast
    Needed,       \* needed_person_count
    Minimum,      \* minimum_person_count, or Needed when it is null
    Cost,         \* estimatedCosts of the order, in credits
    Pack,         \* card charges are rounded up to a multiple of this (1000)
    Openings,     \* the spendable credits a guest may have at the start
    OtherFrozen,  \* credits frozen for the guest's other orders
    Overdraft,    \* how far other code may overdraw the guest
    Fees,         \* the cancellation fees an operator may ask for
    MaxStarted,   \* bound: handlers started, the worker's apart
    MaxFaults     \* bound: crashes and database errors

ASSUME CastAssumption == NoCast \notin Casts /\ IsFiniteSet(Casts)
ASSUME ProcAssumption == NoProc \notin Procs
ASSUME CountAssumption == Needed \in Nat \ {0} /\ Minimum \in 1..Needed
ASSUME MoneyAssumption ==
    /\ Cost \in Nat \ {0} /\ Pack \in Nat \ {0}
    /\ Openings \subseteq Int /\ OtherFrozen \in Nat /\ Overdraft \in Nat
    /\ Fees \subseteq Nat
ASSUME BoundAssumption == MaxStarted \in Nat /\ MaxFaults \in Nat

VARIABLES
    status,      \* meetings.status
    role,        \* cast_attendances.role; "none" where there is no row
    reserved,    \* meetings.frozen_credits
    conversion,  \* credits of meetings.pre_conversion_id, 0 when it is null
    balance,     \* users.credit_balance of the guest
    frozen,      \* users.frozen_credits of the guest
    taken,       \* credits' worth of money the gateway holds of the guest's
    booked,      \* credits of the conversions recorded for that money
    lock,        \* who holds SELECT ... FOR UPDATE on the order's row
    job,         \* the AutoOpenMeetingWorker job: waiting, active or done
    at,          \* at[p]: the statement p executes next
    op,          \* op[p]: whether p serves a request ("route") or the "job"
    cast,        \* cast[p]: the cast its handler is about
    amount,      \* amount[p]: credits it has read or bought
    chosen,      \* chosen[p]: the casts its automatic selection chose
    fate,        \* fate[p]: the failure status it is going to set
    back,        \* back[p]: whether it is to charge back
    fee,         \* fee[p]: the cancellation fee it is to book
    started,     \* handlers started so far
    faults       \* faults so far

order  == <<status, role, reserved, conversion>>
money  == <<balance, frozen, taken, booked>>
locals == <<op, cast, amount, chosen, fate, back, fee>>
bounds == <<started, faults>>
vars   == <<order, money, lock, job, at, locals, bounds>>

Failures == {"general_fail", "not_enough_cast_fail", "request_canceled_fail",
             "pre_charge_fail", "chargeback_fail", "admin_cancel_fail"}
Status   == {"requested", "cast_selectable", "scheduled"} \cup Failures

\* The statuses automatic selection works on (an individual order has a third).
Recruiting == {"requested", "cast_selectable"}

Labels == {"idle", "join", "count", "lock", "read", "charge", "freeze",
           "preFail", "fail", "unfreeze", "return", "bookBack", "setFailed",
           "fee", "feeCharge", "feeCredit", "feeBook", "withdraw",
           "setWithdrawn", "leave", "select", "countSelected", "matchCount",
           "match", "decide", "assign", "cleanup", "matchFail", "open"}

TypeOK ==
    /\ status \in Status
    /\ role \in [Casts -> {"none", "unconfirmed", "attending", "out"}]
    /\ reserved \in {0, Cost}
    /\ conversion \in Nat
    /\ balance \in Int /\ frozen \in Nat /\ taken \in Int /\ booked \in Int
    /\ lock \in Procs \cup {NoProc}
    /\ job \in {"waiting", "active", "done"}
    /\ at \in [Procs -> Labels]
    /\ op \in [Procs -> {"route", "job"}]
    /\ cast \in [Procs -> Casts \cup {NoCast}]
    /\ amount \in [Procs -> Nat]
    /\ chosen \in [Procs -> SUBSET Casts]
    /\ fate \in [Procs -> Failures \cup {"none", "dont_touch"}]
    /\ back \in [Procs -> BOOLEAN]
    /\ fee \in [Procs -> Nat]
    /\ started \in Nat /\ faults \in Nat

Init ==
    /\ status = "requested"
    /\ role = [c \in Casts |-> "none"]
    /\ reserved = 0 /\ conversion = 0
    /\ balance \in Openings /\ frozen = OtherFrozen
    /\ taken = 0 /\ booked = 0
    /\ lock = NoProc
    /\ job = "waiting"
    /\ at = [p \in Procs |-> "idle"]
    /\ op = [p \in Procs |-> "route"]
    /\ cast = [p \in Procs |-> NoCast]
    /\ amount = [p \in Procs |-> 0]
    /\ chosen = [p \in Procs |-> {}]
    /\ fate = [p \in Procs |-> "none"]
    /\ back = [p \in Procs |-> FALSE]
    /\ fee = [p \in Procs |-> 0]
    /\ started = 0 /\ faults = 0

-----------------------------------------------------------------------------
(* Handlers and their steps *)

With(r)   == {c \in Casts : role[c] = r}
Active    == With("unconfirmed") \cup With("attending")
Attending == With("attending")

\* ceilTo1000
RoundUp(n) == Pack * ((n + Pack - 1) \div Pack)

\* An UPDATE of the order's row waits for whoever has locked it.
Unlocked == lock = NoProc

Goto(p, l) == at' = [at EXCEPT ![p] = l]

\* A request arrives at an idle process.
Start(p, l) ==
    /\ at[p] = "idle"
    /\ started < MaxStarted
    /\ started' = started + 1
    /\ UNCHANGED faults
    /\ Goto(p, l)

Forget(p) ==
    /\ op' = [op EXCEPT ![p] = "route"]
    /\ cast' = [cast EXCEPT ![p] = NoCast]
    /\ amount' = [amount EXCEPT ![p] = 0]
    /\ chosen' = [chosen EXCEPT ![p] = {}]
    /\ fate' = [fate EXCEPT ![p] = "none"]
    /\ back' = [back EXCEPT ![p] = FALSE]
    /\ fee' = [fee EXCEPT ![p] = 0]

\* The handler returns or raises: the worker's job is then done, because its
\* errors are caught and logged.
Finish(p) ==
    /\ Goto(p, "idle")
    /\ Forget(p)
    /\ job' = IF op[p] = "job" THEN "done" ELSE job

\* The process dies, or a database error ends the handler: an open transaction
\* is rolled back and the job is delivered again.
Crash(p) ==
    /\ at[p] # "idle"
    /\ faults < MaxFaults
    /\ faults' = faults + 1
    /\ Goto(p, "idle")
    /\ Forget(p)
    /\ lock' = IF lock = p THEN NoProc ELSE lock
    /\ job' = IF op[p] = "job" THEN "waiting" ELSE job
    /\ UNCHANGED <<order, money, started>>

\* Stickers, other orders and operators change the guest's balance meanwhile.
SpendElsewhere(p) ==
    /\ Start(p, "idle")
    /\ balance > - Overdraft
    /\ balance' = balance - 1
    /\ UNCHANGED <<order, frozen, taken, booked, lock, job, locals>>

-----------------------------------------------------------------------------
(* A cast enters: wishToAttendToMeeting *)

WishToAttend(p) ==
    /\ status \in {"requested", "cast_selectable"}
    /\ \E c \in Casts : cast' = [cast EXCEPT ![p] = c]
    /\ Start(p, "join")
    /\ UNCHANGED <<order, money, lock, job, op, amount, chosen, fate, back, fee>>

\* A cast that left before gets its row back.  A new row refers to the order:
\* its foreign key check waits for whoever has locked the order's row.
PrepareAttendance(p) ==
    /\ at[p] = "join"
    /\ \/ role[cast[p]] = "out"
       \/ role[cast[p]] = "none" /\ Unlocked
    /\ role' = [role EXCEPT ![cast[p]] = "unconfirmed"]
    /\ Goto(p, "count")
    /\ UNCHANGED <<status, reserved, conversion, money, lock, job, locals, bounds>>

\* (meeting_id, user_id) is unique.
AlreadyIn(p) ==
    /\ at[p] = "join"
    /\ cast[p] \in Active
    /\ Finish(p)
    /\ UNCHANGED <<order, money, lock, bounds>>

\* Mutant of CountActive: needs one cast more than the order does.
CountActiveOffByOne(p) ==
    /\ at[p] = "count"
    /\ IF Cardinality(Active) > Needed /\ status = "requested"
       THEN Goto(p, "lock") /\ UNCHANGED <<locals, job>>
       ELSE Finish(p)
    /\ UNCHANGED <<order, money, lock, bounds>>

\* Whoever completes the number sets up the selection, if nobody has yet.
CountActive(p) ==
    /\ at[p] = "count"
    /\ IF Cardinality(Active) >= Needed /\ status = "requested"
       THEN Goto(p, "lock") /\ UNCHANGED <<locals, job>>
       ELSE Finish(p)
    /\ UNCHANGED <<order, money, lock, bounds>>

-----------------------------------------------------------------------------
(* The money is reserved and the selection opens: setupCastSelection and
   prepareMeetingFinances, one transaction *)

\* Mutant of LockOrder: a plain SELECT.
LockOrderPlain(p) ==
    /\ at[p] = "lock"
    /\ status = "requested"
    /\ Goto(p, "read")
    /\ UNCHANGED <<order, money, lock, job, locals, bounds>>

\* Mutant of LockOrder: the status read before the lock is trusted.
LockOrderUnchecked(p) ==
    /\ at[p] = "lock"
    /\ Unlocked
    /\ lock' = p
    /\ Goto(p, "read")
    /\ UNCHANGED <<order, money, job, locals, bounds>>

LockOrder(p) ==
    /\ at[p] = "lock"
    /\ Unlocked
    /\ status = "requested"
    /\ lock' = p
    /\ Goto(p, "read")
    /\ UNCHANGED <<order, money, job, locals, bounds>>

\* Under the lock the selection turns out to be set up, or the order closed.
LockOrderTooLate(p) ==
    /\ at[p] = "lock"
    /\ Unlocked
    /\ status # "requested"
    /\ Finish(p)
    /\ UNCHANGED <<order, money, lock, bounds>>

\* The balance is read without a lock, and tells whether the card is charged.
ReadBalance(p) ==
    /\ at[p] = "read"
    /\ balance >= 0
    /\ amount' = [amount EXCEPT ![p] = IF balance < Cost THEN RoundUp(Cost - balance) ELSE 0]
    /\ Goto(p, IF balance < Cost THEN "charge" ELSE "freeze")
    /\ UNCHANGED <<order, money, lock, job, op, cast, chosen, fate, back, fee, bounds>>

\* A guest with debts cannot start an order; the order stays as it is.
RefuseDebtor(p) ==
    /\ at[p] = "read"
    /\ balance < 0
    /\ lock' = NoProc
    /\ Finish(p)
    /\ UNCHANGED <<order, money, bounds>>

ChargeCard(p) ==
    /\ at[p] = "charge"
    /\ taken' = taken + amount[p]
    /\ Goto(p, "freeze")
    /\ UNCHANGED <<order, balance, frozen, booked, lock, job, locals, bounds>>

\* buyCredits raised: the transaction, with the status it wrote, rolls back.
CardRefused(p) ==
    /\ at[p] = "charge"
    /\ lock' = NoProc
    /\ amount' = [amount EXCEPT ![p] = 0]
    /\ Goto(p, "preFail")
    /\ UNCHANGED <<order, money, job, op, cast, chosen, fate, back, fee, bounds>>

\* Records the conversion, freezes under the user's lock, opens the selection.
FreezeAndOpen(p) ==
    /\ at[p] = "freeze"
    /\ balance + amount[p] >= Cost
    /\ balance' = balance + amount[p] - Cost
    /\ frozen' = frozen + Cost
    /\ booked' = booked + amount[p]
    /\ conversion' = amount[p]
    /\ reserved' = Cost
    /\ status' = "cast_selectable"
    /\ lock' = NoProc
    /\ Finish(p)
    /\ UNCHANGED <<role, taken, bounds>>

\* NotEnoughCreditsError: the balance has changed since it was read.  All of the
\* transaction rolls back, the record of a charge included.
FreezeRefused(p) ==
    /\ at[p] = "freeze"
    /\ balance + amount[p] < Cost
    /\ lock' = NoProc
    /\ Finish(p)
    /\ UNCHANGED <<order, money, bounds>>

\* The failure status is written again, outside; the route then fails the order.
RecordPreChargeFail(p) ==
    /\ at[p] = "preFail"
    /\ Unlocked
    /\ status' = "pre_charge_fail"
    /\ fate' = [fate EXCEPT ![p] = "pre_charge_fail"]
    /\ Goto(p, "fail")
    /\ UNCHANGED <<role, reserved, conversion, money, lock, job, op, cast, amount,
                   chosen, back, fee, bounds>>

-----------------------------------------------------------------------------
(* An order fails: handleFailedMeeting *)

FailRead(p) ==
    /\ at[p] = "fail"
    /\ amount' = [amount EXCEPT ![p] = reserved]
    /\ back' = [back EXCEPT ![p] = @ /\ conversion > 0]
    /\ Goto(p, IF reserved > 0 THEN "unfreeze"
               ELSE IF back[p] /\ conversion > 0 THEN "return" ELSE "setFailed")
    /\ UNCHANGED <<order, money, lock, job, op, cast, chosen, fate, fee, bounds>>

\* unfreezeCredits releases what was read, but no more than is frozen.
Released(n) == IF n > frozen THEN frozen ELSE n

\* Mutant of FailUnfreeze: the order keeps its frozen_credits.
FailUnfreezeForgets(p) ==
    /\ at[p] = "unfreeze"
    /\ Unlocked
    /\ frozen' = frozen - Released(amount[p])
    /\ balance' = balance + Released(amount[p])
    /\ Goto(p, IF back[p] THEN "return" ELSE "setFailed")
    /\ UNCHANGED <<order, taken, booked, lock, job, locals, bounds>>

FailUnfreeze(p) ==
    /\ at[p] = "unfreeze"
    /\ Unlocked
    /\ frozen' = frozen - Released(amount[p])
    /\ balance' = balance + Released(amount[p])
    /\ reserved' = 0
    /\ Goto(p, IF back[p] THEN "return" ELSE "setFailed")
    /\ UNCHANGED <<status, role, conversion, taken, booked, lock, job, locals, bounds>>

\* revertPayment calls the gateway first.
ReturnMoney(p) ==
    /\ at[p] = "return"
    /\ taken' = taken - conversion
    /\ Goto(p, "bookBack")
    /\ UNCHANGED <<order, balance, frozen, booked, lock, job, locals, bounds>>

\* Mutant of ReturnRefused: the refusal is not noticed.
ReturnRefusedUnnoticed(p) ==
    /\ at[p] = "return"
    /\ Goto(p, "bookBack")
    /\ UNCHANGED <<order, money, lock, job, locals, bounds>>

ReturnRefused(p) ==
    /\ at[p] = "return"
    /\ fate' = [fate EXCEPT ![p] = "chargeback_fail"]
    /\ Goto(p, "setFailed")
    /\ UNCHANGED <<order, money, lock, job, op, cast, amount, chosen, back, fee, bounds>>

BookBack(p) ==
    /\ at[p] = "bookBack"
    /\ booked' = booked - conversion
    /\ balance' = balance - conversion
    /\ Goto(p, "setFailed")
    /\ UNCHANGED <<order, frozen, taken, lock, job, locals, bounds>>

\* The money went back but the database refused the rows.
BookBackFails(p) ==
    /\ at[p] = "bookBack"
    /\ faults < MaxFaults
    /\ faults' = faults + 1
    /\ fate' = [fate EXCEPT ![p] = "chargeback_fail"]
    /\ Goto(p, "setFailed")
    /\ UNCHANGED <<order, money, lock, job, op, cast, amount, chosen, back, fee, started>>

\* The status is set whatever it is by now.
SetFailed(p) ==
    /\ at[p] = "setFailed"
    /\ Unlocked
    /\ fate[p] # "dont_touch"
    /\ status' = fate[p]
    /\ IF fee[p] > 0 THEN Goto(p, "fee") /\ UNCHANGED <<locals, job>> ELSE Finish(p)
    /\ UNCHANGED <<role, reserved, conversion, money, lock, bounds>>

\* "dont_touch" is not a status: the update raises.
SetDontTouch(p) ==
    /\ at[p] = "setFailed"
    /\ fate[p] = "dont_touch"
    /\ Finish(p)
    /\ UNCHANGED <<order, money, lock, bounds>>

-----------------------------------------------------------------------------
(* An operator cancels: cancelMeeting *)

\* With a fee that takes everything there is no chargeback.
CancelMeeting(p) ==
    \E chargeBack \in BOOLEAN, cancelFee \in Fees :
        /\ back' = [back EXCEPT ![p] = chargeBack /\ cancelFee < balance + reserved]
        /\ fee' = [fee EXCEPT ![p] = cancelFee]
        /\ fate' = [fate EXCEPT ![p] = "admin_cancel_fail"]
        /\ Start(p, "fail")
        /\ UNCHANGED <<order, money, lock, job, op, cast, amount, chosen>>

ReadForFee(p) ==
    /\ at[p] = "fee"
    /\ amount' = [amount EXCEPT ![p] = IF balance < fee[p] THEN fee[p] - balance ELSE 0]
    /\ Goto(p, IF balance < fee[p] THEN "feeCharge" ELSE "feeBook")
    /\ UNCHANGED <<order, money, lock, job, op, cast, chosen, fate, back, fee, bounds>>

ChargeForFee(p) ==
    /\ at[p] = "feeCharge"
    /\ taken' = taken + amount[p]
    /\ Goto(p, "feeCredit")
    /\ UNCHANGED <<order, balance, frozen, booked, lock, job, locals, bounds>>

\* The fee is not booked then.
ChargeForFeeRefused(p) ==
    /\ at[p] = "feeCharge"
    /\ Finish(p)
    /\ UNCHANGED <<order, money, lock, bounds>>

CreditForFee(p) ==
    /\ at[p] = "feeCredit"
    /\ booked' = booked + amount[p]
    /\ balance' = balance + amount[p]
    /\ Goto(p, "feeBook")
    /\ UNCHANGED <<order, frozen, taken, lock, job, locals, bounds>>

BookFee(p) ==
    /\ at[p] = "feeBook"
    /\ balance' = balance - fee[p]
    /\ Finish(p)
    /\ UNCHANGED <<order, frozen, taken, booked, lock, bounds>>

-----------------------------------------------------------------------------
(* The guest withdraws the request; a cast leaves *)

CancelRequest(p) ==
    /\ status = "requested"
    /\ Start(p, "withdraw")
    /\ UNCHANGED <<order, money, lock, job, locals>>

DismissAll(p) ==
    /\ at[p] = "withdraw"
    /\ role' = [c \in Casts |-> IF role[c] = "none" THEN "none" ELSE "out"]
    /\ Goto(p, "setWithdrawn")
    /\ UNCHANGED <<status, reserved, conversion, money, lock, job, locals, bounds>>

\* The status is set whatever it is by now; nothing is released.
SetWithdrawn(p) ==
    /\ at[p] = "setWithdrawn"
    /\ Unlocked
    /\ status' = "request_canceled_fail"
    /\ Finish(p)
    /\ UNCHANGED <<role, reserved, conversion, money, lock, bounds>>

WishToNotAttend(p) ==
    \E c \in Active :
        /\ Cardinality(Active) > Needed
        /\ cast' = [cast EXCEPT ![p] = c]
        /\ Start(p, "leave")
        /\ UNCHANGED <<order, money, lock, job, op, amount, chosen, fate, back, fee>>

Leave(p) ==
    /\ at[p] = "leave"
    /\ role' = [role EXCEPT ![cast[p]] = "out"]
    /\ Finish(p)
    /\ UNCHANGED <<status, reserved, conversion, money, lock, bounds>>

-----------------------------------------------------------------------------
(* The guest selects a cast: the select_cast route and selectCast *)

\* Any attendance of the order will do, also one that is out.
SelectCast(p) ==
    \E c \in Casts :
        /\ status = "cast_selectable"
        /\ role[c] # "none"
        /\ cast' = [cast EXCEPT ![p] = c]
        /\ Start(p, "select")
        /\ UNCHANGED <<order, money, lock, job, op, amount, chosen, fate, back, fee>>

AttendSelected(p) ==
    /\ at[p] = "select"
    /\ role' = [role EXCEPT ![cast[p]] = "attending"]
    /\ Goto(p, "countSelected")
    /\ UNCHANGED <<status, reserved, conversion, money, lock, job, locals, bounds>>

CountSelected(p) ==
    /\ at[p] = "countSelected"
    /\ IF Cardinality(Attending) >= Needed
       THEN Goto(p, "match") /\ UNCHANGED <<locals, job>>
       ELSE Finish(p)
    /\ UNCHANGED <<order, money, lock, bounds>>

-----------------------------------------------------------------------------
(* Automatic matching: AutoOpenMeetingWorker, the open route, autoOpenMeeting *)

\* Mutant of AutoOpenMeetingWorker: opened selections are forgotten.
AutoOpenMeetingWorkerRequested(p) ==
    /\ at[p] = "idle"
    /\ job = "waiting"
    /\ IF status = "requested"
       THEN /\ job' = "active"
            /\ op' = [op EXCEPT ![p] = "job"]
            /\ Goto(p, "matchCount")
       ELSE job' = "done" /\ UNCHANGED <<at, op>>
    /\ UNCHANGED <<order, money, lock, cast, amount, chosen, fate, back, fee, bounds>>

\* Recruitment is over: the job runs.
AutoOpenMeetingWorker(p) ==
    /\ at[p] = "idle"
    /\ job = "waiting"
    /\ IF status \in Recruiting
       THEN /\ job' = "active"
            /\ op' = [op EXCEPT ![p] = "job"]
            /\ Goto(p, "matchCount")
       ELSE job' = "done" /\ UNCHANGED <<at, op>>
    /\ UNCHANGED <<order, money, lock, cast, amount, chosen, fate, back, fee, bounds>>

WorkerCount(p) ==
    /\ at[p] = "matchCount"
    /\ IF Cardinality(Active) < Minimum
       THEN Goto(p, "fail") /\ fate' = [fate EXCEPT ![p] = "not_enough_cast_fail"]
       ELSE Goto(p, "match") /\ UNCHANGED fate
    /\ UNCHANGED <<order, money, lock, job, op, cast, amount, chosen, back, fee, bounds>>

\* The guest's button, and the back office's schedule call.
OpenOrder(p) ==
    /\ Start(p, "match")
    /\ UNCHANGED <<order, money, lock, job, locals>>

\* preDecide reads the status first.
MatchRead(p) ==
    /\ at[p] = "match"
    /\ status \in Recruiting
    /\ Goto(p, "decide")
    /\ UNCHANGED <<order, money, lock, job, locals, bounds>>

\* The error says that the status is not to be touched.  A route raises it, the
\* worker hands it to handleFailedMeeting as it does every error.
MatchTooLate(p) ==
    /\ at[p] = "match"
    /\ status \notin Recruiting
    /\ IF op[p] = "job"
       THEN /\ fate' = [fate EXCEPT ![p] = "dont_touch"]
            /\ Goto(p, "fail")
            /\ UNCHANGED <<op, cast, amount, chosen, back, fee, job>>
       ELSE Finish(p)
    /\ UNCHANGED <<order, money, lock, bounds>>

\* Mutant of Wanted: those the guest selected are not counted.
WantedAnew ==
    IF Cardinality(With("unconfirmed")) < Needed
    THEN Cardinality(With("unconfirmed")) ELSE Needed

\* How many of the unconfirmed casts are to attend; fewer than needed only when
\* a minimum allows it.
Wanted ==
    LET open == Needed - Cardinality(Attending)
    IN  IF Cardinality(With("unconfirmed")) < open
        THEN Cardinality(With("unconfirmed")) ELSE open

\* All of them if they just do, otherwise those with the best scores.
Decide(p) ==
    /\ at[p] = "decide"
    /\ Cardinality(Active) >= Minimum
    /\ Cardinality(Attending) <= Needed
    /\ \E C \in SUBSET With("unconfirmed") :
          /\ Cardinality(C) = Wanted
          /\ chosen' = [chosen EXCEPT ![p] = C]
    /\ Goto(p, "assign")
    /\ UNCHANGED <<order, money, lock, job, op, cast, amount, fate, back, fee, bounds>>

\* Too few casts, or the guest selected too many.
DecideFails(p) ==
    /\ at[p] = "decide"
    /\ \/ Cardinality(Active) < Minimum
       \/ Cardinality(Attending) > Needed
    /\ fate' = [fate EXCEPT ![p] = IF Cardinality(Active) < Minimum
                                   THEN "not_enough_cast_fail" ELSE "general_fail"]
    /\ Goto(p, "matchFail")
    /\ UNCHANGED <<order, money, lock, job, op, cast, amount, chosen, back, fee, bounds>>

\* The status is set; only the worker goes on to release the credits.
SetMatchFailed(p) ==
    /\ at[p] = "matchFail"
    /\ Unlocked
    /\ status' = fate[p]
    /\ IF op[p] = "job" THEN Goto(p, "fail") /\ UNCHANGED <<locals, job>> ELSE Finish(p)
    /\ UNCHANGED <<role, reserved, conversion, money, lock, bounds>>

Assign(p) ==
    /\ at[p] = "assign"
    /\ role' = [c \in Casts |-> IF c \in chosen[p] THEN "attending" ELSE role[c]]
    /\ Goto(p, "cleanup")
    /\ UNCHANGED <<status, reserved, conversion, money, lock, job, locals, bounds>>

CleanupAttendances(p) ==
    /\ at[p] = "cleanup"
    /\ role' = [c \in Casts |-> IF role[c] = "unconfirmed" THEN "out" ELSE role[c]]
    /\ Goto(p, "open")
    /\ UNCHANGED <<status, reserved, conversion, money, lock, job, locals, bounds>>

\* The conversation exists; the status is set whatever it is by now.
OpenConversation(p) ==
    /\ at[p] = "open"
    /\ Unlocked
    /\ status' = "scheduled"
    /\ Finish(p)
    /\ UNCHANGED <<role, reserved, conversion, money, lock, bounds>>

\* A database error on the way: the worker fails the order.
MatchError(p) ==
    /\ at[p] \in {"decide", "assign", "cleanup", "open"}
    /\ op[p] = "job"
    /\ faults < MaxFaults
    /\ faults' = faults + 1
    /\ fate' = [fate EXCEPT ![p] = "general_fail"]
    /\ Goto(p, "fail")
    /\ UNCHANGED <<order, money, lock, job, op, cast, amount, chosen, back, fee, started>>

-----------------------------------------------------------------------------
Enter(p)     == PrepareAttendance(p) \/ AlreadyIn(p) \/ CountActive(p)
Reserve(p)   == \/ LockOrder(p) \/ LockOrderTooLate(p) \/ ReadBalance(p) \/ RefuseDebtor(p)
                \/ ChargeCard(p) \/ CardRefused(p) \/ FreezeAndOpen(p) \/ FreezeRefused(p)
                \/ RecordPreChargeFail(p)
Fail(p)      == \/ FailRead(p) \/ FailUnfreeze(p) \/ ReturnMoney(p) \/ ReturnRefused(p)
                \/ BookBack(p) \/ SetFailed(p) \/ SetDontTouch(p)
Penalty(p)   == \/ ReadForFee(p) \/ ChargeForFee(p) \/ ChargeForFeeRefused(p)
                \/ CreditForFee(p) \/ BookFee(p)
Withdraw(p)  == DismissAll(p) \/ SetWithdrawn(p) \/ Leave(p)
Select(p)    == AttendSelected(p) \/ CountSelected(p)
Match(p)     == \/ WorkerCount(p) \/ MatchRead(p) \/ MatchTooLate(p) \/ Decide(p)
                \/ DecideFails(p) \/ SetMatchFailed(p) \/ Assign(p)
                \/ CleanupAttendances(p) \/ OpenConversation(p)

Step(p)    == Enter(p) \/ Reserve(p) \/ Fail(p) \/ Penalty(p) \/ Withdraw(p) \/ Select(p) \/ Match(p)
Request(p) == \/ WishToAttend(p) \/ WishToNotAttend(p) \/ SelectCast(p) \/ OpenOrder(p)
              \/ CancelRequest(p) \/ CancelMeeting(p) \/ SpendElsewhere(p)
Fault(p)   == Crash(p) \/ BookBackFails(p) \/ MatchError(p)

Next == \E p \in Procs : Request(p) \/ AutoOpenMeetingWorker(p) \/ Step(p) \/ Fault(p)

Spec == Init /\ [][Next]_vars

\* A started handler runs to its end, and the queue delivers the delayed job to
\* some worker.  Nobody has to send a request.
Fairness ==
    /\ \A p \in Procs : WF_vars(Step(p))
    /\ WF_vars(\E p \in Procs : AutoOpenMeetingWorker(p))

FairSpec == Spec /\ Fairness

-----------------------------------------------------------------------------
(* Properties *)

AtRest == \A p \in Procs : at[p] = "idle"

\* selection.ts:181-186: however the handlers interleave, what is frozen in the
\* guest's wallet is what this order and the guest's other orders say they have
\* reserved; a second reservation for the same order would break it.  Where the
\* guest has other orders it is checked one handler at a time: two handlers that
\* fail the order at once release what they both read from all that is frozen.
FrozenIsReserved == frozen = reserved + OtherFrozen

\* selection.ts:183-186: the card is charged only while the order waits for its
\* reservation, whatever the other handlers do to the status meanwhile.
ChargedOnlyWhileRequested ==
    [][\A p \in Procs : at[p] = "charge" /\ taken' # taken => status = "requested"]_vars

\* An order that left recruitment (scheduled, failed or withdrawn) is never
\* opened for selection again by a handler that read its status before.
NeverReopened == [][status \notin Recruiting => status' \notin Recruiting]_vars

\* queues.ts:111-117: the auto-open job ends recruitment, with a group chat or
\* a failure, also when handlers are cut off or the job is delivered again.
RecruitmentEnds == (status \in Recruiting) ~> (status \notin Recruiting)

\* finances.ts:15-17: an order that is to take place has its estimated cost
\* reserved.
ScheduledIsReserved == AtRest /\ status = "scheduled" => reserved = Cost

\* finances.ts:17-19: once an order has failed its credits are released.
FailedIsReleased == AtRest /\ status \in Failures => reserved = 0

\* selection.ts:281-284: an order that is to take place has exactly the casts it
\* needs (fewer only down to the minimum), and nobody is left undecided.
ScheduledIsStaffed ==
    AtRest /\ status = "scheduled" =>
        /\ Cardinality(Attending) \in Minimum..Needed
        /\ With("unconfirmed") = {}

\* buy-credits.ts:13-16: the money the gateway holds is what conversions record.
TakenIsBooked == AtRest => taken = booked
=============================================================================
