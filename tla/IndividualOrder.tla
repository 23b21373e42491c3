--------------------------- MODULE IndividualOrder ---------------------------
(***************************************************************************)
(* An order between one guest and one cast.  Either side proposes it, the  *)
(* other one accepts or refuses, the proposer can withdraw, the delayed    *)
(* job closes it 20 seconds before the start, and an operator can accept   *)
(* or cancel it (server/services/meetings/setup.ts, lifecycle.ts,          *)
(* selection.ts, finances.ts, jobs/handlers.ts and the routes).            *)
(*                                                                         *)
(* Unlike a group order it is never locked: every statement below is       *)
(* committed on its own.  No fee and no chargeback is asked for when it is *)
(* cancelled; GroupOrder has those.                                        *)
(***************************************************************************)
EXTENDS RequestHandlers, CardCharges

CONSTANTS
    Price,         \* estimatedCosts of the order
    OrderOpenings  \* spendable credits the guest may start with

ASSUME PriceAssumption == Price \in Nat \ {0} /\ OrderOpenings \subseteq Int

VARIABLES
    order,      \* meetings.status; "none" before the row exists
    seat,       \* role of the order's only cast attendance
    reserved,   \* meetings.frozen_credits
    spendable,  \* users.credit_balance of the guest
    frozen,     \* users.frozen_credits of the guest
    taken,      \* credits' worth of money the gateway has taken
    booked,     \* credits of the conversions recorded for it
    late,       \* request_end_time has passed
    closing,    \* the delayed AutoOpenMeetingWorker job
    seen,       \* seen[h]: the status, or the failure, h acts upon
    sum         \* sum[h]: credits h charges for, or releases

orderRow   == <<order, seat, reserved>>
purse      == <<spendable, frozen>>
card       == <<taken, booked>>
orderLocal == <<seen, sum>>
orderVars  == <<orderRow, purse, card, late, closing, orderLocal>>

Waiting == {"requested", "cast_requested"}
OrderFailures == {"not_enough_cast_fail", "request_denied_fail", "request_canceled_fail",
                  "pre_charge_fail", "general_fail", "admin_cancel_fail"}
OrderLabels ==
    {"idle", "setUp", "enqueue", "failNew", "charge", "credit", "note", "freeze", "attend",
     "schedule", "preFail", "seatOut", "refused", "seatsOut", "closed", "jobRead", "match",
     "expire", "matchFail", "fail", "release", "setFailed"}

OrderTypeOK ==
    /\ at \in [Handlers -> OrderLabels]
    /\ order \in {"none", "scheduled"} \cup Waiting \cup OrderFailures
    /\ seat \in {"none", "requested", "attending", "out"}
    /\ reserved \in {0, Price}
    /\ spendable \in Int /\ frozen \in Nat /\ taken \in Nat /\ booked \in Nat
    /\ late \in BOOLEAN /\ closing \in {"none", "waiting", "active", "done"}
    /\ seen \in [Handlers -> {"none", "dont_touch"} \cup Waiting \cup OrderFailures]
    /\ sum \in [Handlers -> Nat]

OrderIdle ==
    /\ order = "none" /\ seat = "none" /\ reserved = 0
    /\ frozen = 0 /\ taken = 0 /\ booked = 0
    /\ late = FALSE /\ closing = "none"
    /\ seen = [h \in Handlers |-> "none"]
    /\ sum = [h \in Handlers |-> 0]

OrderInit == HandlersInit /\ OrderIdle /\ spendable \in OrderOpenings

-----------------------------------------------------------------------------
(* Helpers *)

Act(h, s, n) == seen' = [seen EXCEPT ![h] = s] /\ sum' = [sum EXCEPT ![h] = n]

\* The handler ends and forgets what it has read.
Leave(h) == End(h) /\ Act(h, "none", 0)

\* A statement that writes only the status.
Mark(h, s) == order' = s /\ UNCHANGED <<seat, reserved, purse, card, late, closing>>

\* A statement that writes only the attendance.
Seat(h, r) == seat' = r /\ UNCHANGED <<order, reserved, purse, card, late, closing>>

\* A statement that only reads.
Reads == UNCHANGED <<orderRow, purse, card, late, closing>>

\* unfreezeCredits releases at most what is frozen.
Thawed(n) == IF n > frozen THEN frozen ELSE n

\* h runs the delayed job, not an operator's cancellation.
IsJob(h) ==
    /\ at[h] \in {"jobRead", "match", "expire", "matchFail", "fail", "release", "setFailed"}
    /\ seen[h] # "admin_cancel_fail"

TimePasses ==
    /\ order # "none" /\ ~late
    /\ late' = TRUE
    /\ UNCHANGED <<handlerVars, orderRow, purse, card, closing, orderLocal>>

-----------------------------------------------------------------------------
(* Proposing *)

\* A cast's proposal comes with the attendance, the guest's gets it below.
Propose(h) ==
    /\ order = "none"
    /\ Begin(h, "setUp")
    /\ \E s \in Waiting :
          /\ order' = s
          /\ seat' = IF s = "cast_requested" THEN "requested" ELSE "none"
          /\ Act(h, s, 0)
    /\ UNCHANGED <<reserved, purse, card, late, closing>>

SetUp(h) ==
    /\ at[h] = "setUp"
    /\ ~late /\ spendable >= 0
    /\ seat' = IF seen[h] = "requested" THEN "requested" ELSE seat
    /\ Continue(h, "enqueue")
    /\ UNCHANGED <<order, reserved, purse, card, late, closing, orderLocal>>

\* It is too late by now, or the guest has debts.
SetUpRefused(h) ==
    /\ at[h] = "setUp"
    /\ late \/ spendable < 0
    /\ Continue(h, "failNew")
    /\ Reads /\ UNCHANGED orderLocal

EnqueueAutoOpen(h) ==
    /\ at[h] = "enqueue"
    /\ closing' = "waiting"
    /\ Leave(h)
    /\ UNCHANGED <<orderRow, purse, card, late>>

\* failMeeting: unless it has failed otherwise.
FailMeeting(h) ==
    /\ at[h] = "failNew"
    /\ Mark(h, IF order \in OrderFailures THEN order ELSE "general_fail")
    /\ Leave(h)

-----------------------------------------------------------------------------
(* Accepting: acceptIndividualMeeting, from the accept and schedule routes *)

\* Status, end time and the guest's balance are read at once and never again.
Accept(h) ==
    /\ order \in Waiting /\ seat # "none" /\ ~late
    /\ Act(h, order, IF Price > spendable THEN Charged(Price - spendable) ELSE 0)
    /\ Begin(h, IF Price > spendable THEN "charge" ELSE "freeze")
    /\ Reads

CardAccepts(h) ==
    /\ at[h] = "charge" /\ "taken" \in CardAnswers(sum[h])
    /\ taken' = taken + sum[h]
    /\ Continue(h, "credit")
    /\ UNCHANGED <<orderRow, purse, booked, late, closing, orderLocal>>

CardRefuses(h) ==
    /\ at[h] = "charge" /\ "refused" \in CardAnswers(sum[h])
    /\ Continue(h, "preFail")
    /\ Reads /\ UNCHANGED orderLocal

CreditCharge(h) ==
    /\ at[h] = "credit"
    /\ spendable' = spendable + sum[h]
    /\ booked' = booked + sum[h]
    /\ Continue(h, "note")
    /\ UNCHANGED <<orderRow, frozen, taken, late, closing, orderLocal>>

\* pre_conversion_id; it is read for a chargeback only.
NoteConversion(h) ==
    /\ at[h] = "note"
    /\ Continue(h, "freeze")
    /\ Reads /\ UNCHANGED orderLocal

\* Whatever fails from the charge to here is a failed charge.
ChargeFails(h) ==
    /\ at[h] \in {"credit", "note"}
    /\ Refused(h, "preFail")
    /\ Reads /\ UNCHANGED orderLocal

RecordPreChargeFail(h) ==
    /\ at[h] = "preFail"
    /\ Mark(h, "pre_charge_fail")
    /\ Leave(h)

FreezePrice(h) ==
    /\ at[h] = "freeze"
    /\ spendable >= Price
    /\ spendable' = spendable - Price
    /\ frozen' = frozen + Price
    /\ reserved' = Price
    /\ Continue(h, "attend")
    /\ UNCHANGED <<order, seat, card, late, closing, orderLocal>>

\* NotEnoughCreditsError: the balance has dropped since it was read.
FreezeRefused(h) ==
    /\ at[h] = "freeze"
    /\ spendable < Price
    /\ Leave(h)
    /\ Reads

Attend(h) ==
    /\ at[h] = "attend"
    /\ Seat(h, "attending")
    /\ Continue(h, "schedule") /\ UNCHANGED orderLocal

\* The status is set whatever it is by now.
Schedule(h) ==
    /\ at[h] = "schedule"
    /\ Mark(h, "scheduled")
    /\ Leave(h)

\* The guest's credits are spent on something else meanwhile.
SpendOrderMoney(h) ==
    /\ order \in Waiting /\ spendable > 0
    /\ Begin(h, "idle")
    /\ spendable' = spendable - 1
    /\ UNCHANGED <<orderRow, frozen, card, late, closing, orderLocal>>

-----------------------------------------------------------------------------
(* Refusing and withdrawing *)

\* Mutant of Refuse: a scheduled order can be refused as well.
RefuseScheduled(h) ==
    /\ order \in Waiting \cup {"scheduled"} /\ seat # "none"
    /\ Begin(h, IF order = "cast_requested" THEN "refused" ELSE "seatOut")
    /\ Act(h, IF order = "cast_requested" THEN "request_denied_fail" ELSE "not_enough_cast_fail", 0)
    /\ Reads

\* The refuse route: the side that has to answer.
Refuse(h) ==
    /\ order \in Waiting /\ seat # "none"
    /\ Begin(h, IF order = "cast_requested" THEN "refused" ELSE "seatOut")
    /\ Act(h, IF order = "cast_requested" THEN "request_denied_fail" ELSE "not_enough_cast_fail", 0)
    /\ Reads

\* The cancel_request route: the side that proposed.
CancelRequest(h) ==
    /\ order \in Waiting
    /\ Begin(h, "seatOut")
    /\ Act(h, "request_canceled_fail", 0)
    /\ Reads

\* A cast's refusal and a withdrawal write the attendance, then the status.
SeatOut(h) ==
    /\ at[h] = "seatOut"
    /\ Seat(h, IF seat = "none" THEN "none" ELSE "out")
    /\ Continue(h, "closed") /\ UNCHANGED orderLocal

Closed(h) ==
    /\ at[h] = "closed"
    /\ Mark(h, seen[h])
    /\ Leave(h)

\* A guest's refusal writes the status, then the attendance.
GuestRefused(h) ==
    /\ at[h] = "refused"
    /\ Mark(h, seen[h])
    /\ Continue(h, "seatsOut") /\ UNCHANGED orderLocal

SeatsOut(h) ==
    /\ at[h] = "seatsOut"
    /\ Seat(h, "out")
    /\ Leave(h)

-----------------------------------------------------------------------------
(* The delayed job *)

\* Mutant of AutoOpenMeetingWorker: a cast's proposals are forgotten.
AutoOpenMeetingWorkerRequested(h) ==
    /\ closing = "waiting" /\ late
    /\ IF order = "requested"
       THEN Deliver(h, "jobRead") /\ UNCHANGED begun /\ closing' = "active"
       ELSE UNCHANGED handlerVars /\ closing' = "done"
    /\ UNCHANGED <<orderRow, purse, card, late, orderLocal>>

AutoOpenMeetingWorker(h) ==
    /\ closing = "waiting" /\ late
    /\ IF order \in Waiting
       THEN Deliver(h, "jobRead") /\ UNCHANGED begun /\ closing' = "active"
       ELSE UNCHANGED handlerVars /\ closing' = "done"
    /\ UNCHANGED <<orderRow, purse, card, late, orderLocal>>

\* Nobody is in who could attend: the order fails, otherwise it is matched.
CountSeats(h) ==
    /\ at[h] = "jobRead"
    /\ IF seat \in {"none", "out"}
       THEN Continue(h, "fail") /\ Act(h, "not_enough_cast_fail", 0)
       ELSE Continue(h, "match") /\ UNCHANGED orderLocal
    /\ Reads

\* preDecide: an individual order that gets here was not accepted in time.
PreDecide(h) ==
    /\ at[h] = "match"
    /\ IF order \notin Waiting
       THEN Continue(h, "fail") /\ Act(h, "dont_touch", 0)
       ELSE IF seat \in {"none", "out"}
       THEN Continue(h, "matchFail") /\ Act(h, "not_enough_cast_fail", 0)
       ELSE /\ Continue(h, "expire")
            /\ Act(h, IF order = "cast_requested" THEN "request_canceled_fail"
                                                  ELSE "not_enough_cast_fail", 0)
    /\ Reads

ExpireSeat(h) ==
    /\ at[h] = "expire"
    /\ Seat(h, "out")
    /\ Continue(h, "matchFail") /\ UNCHANGED orderLocal

MatchFailed(h) ==
    /\ at[h] = "matchFail"
    /\ Mark(h, seen[h])
    /\ Continue(h, "fail") /\ UNCHANGED orderLocal

-----------------------------------------------------------------------------
(* handleFailedMeeting, for the job and for an operator who cancels *)

CancelMeeting(h) ==
    /\ order # "none"
    /\ Begin(h, "fail")
    /\ Act(h, "admin_cancel_fail", 0)
    /\ Reads

FailRead(h) ==
    /\ at[h] = "fail"
    /\ sum' = [sum EXCEPT ![h] = reserved]
    /\ Continue(h, IF reserved > 0 THEN "release" ELSE "setFailed")
    /\ Reads /\ UNCHANGED seen

\* Mutant of ReleasePrice: what the order says is reserved is not reset.
ReleasePriceOnly(h) ==
    /\ at[h] = "release"
    /\ spendable' = spendable + Thawed(sum[h])
    /\ frozen' = frozen - Thawed(sum[h])
    /\ Continue(h, "setFailed")
    /\ UNCHANGED <<orderRow, card, late, closing, orderLocal>>

ReleasePrice(h) ==
    /\ at[h] = "release"
    /\ spendable' = spendable + Thawed(sum[h])
    /\ frozen' = frozen - Thawed(sum[h])
    /\ reserved' = 0
    /\ Continue(h, "setFailed")
    /\ UNCHANGED <<order, seat, card, late, closing, orderLocal>>

\* "dont_touch" is no status: the statement raises, and the worker logs it.
SetFailed(h) ==
    /\ at[h] = "setFailed"
    /\ order' = IF seen[h] = "dont_touch" THEN order ELSE seen[h]
    /\ closing' = IF IsJob(h) THEN "done" ELSE closing
    /\ Leave(h)
    /\ UNCHANGED <<seat, reserved, purse, card, late>>

\* The database refuses a statement of the matching: the job fails the order.
MatchError(h) ==
    /\ at[h] \in {"match", "expire", "matchFail"}
    /\ Refused(h, "fail")
    /\ Act(h, "general_fail", 0)
    /\ Reads

\* A process dies, or the database refuses a statement nobody handles.  A job
\* whose worker dies is stalled, and the queue runs it again.
OrderDie(h) ==
    /\ Die(h)
    /\ closing' = IF IsJob(h) THEN "waiting" ELSE closing
    /\ Act(h, "none", 0)
    /\ UNCHANGED <<orderRow, purse, card, late>>

-----------------------------------------------------------------------------
OrderRequest(h) ==
    \/ Propose(h) \/ Accept(h) \/ Refuse(h) \/ CancelRequest(h) \/ CancelMeeting(h)
    \/ SpendOrderMoney(h)
OrderStep(h) ==
    \/ SetUp(h) \/ SetUpRefused(h) \/ EnqueueAutoOpen(h) \/ FailMeeting(h)
    \/ CardAccepts(h) \/ CardRefuses(h) \/ CreditCharge(h) \/ NoteConversion(h)
    \/ RecordPreChargeFail(h) \/ FreezePrice(h) \/ FreezeRefused(h) \/ Attend(h) \/ Schedule(h)
    \/ SeatOut(h) \/ Closed(h) \/ GuestRefused(h) \/ SeatsOut(h)
    \/ CountSeats(h) \/ PreDecide(h) \/ ExpireSeat(h) \/ MatchFailed(h)
    \/ FailRead(h) \/ ReleasePrice(h) \/ SetFailed(h)
OrderFault(h) == ChargeFails(h) \/ MatchError(h) \/ OrderDie(h)

OrderNext ==
    \/ \E h \in Handlers :
          OrderRequest(h) \/ OrderStep(h) \/ AutoOpenMeetingWorker(h) \/ OrderFault(h)
    \/ TimePasses

OrderSpec == OrderInit /\ [][OrderNext]_<<handlerVars, orderVars>>

-----------------------------------------------------------------------------
(* Properties *)

\* lifecycle.ts:386-388, refuse/route.ts:22-26: one handler at a time, an order
\* that is to take place has its cast and its price reserved, and nothing stays
\* frozen for one that is closed, whichever side, job or operator closed it.
AnsweredIsSettled ==
    Undisturbed =>
        /\ order = "scheduled" => seat = "attending" /\ reserved = Price
        /\ order # "scheduled" => reserved = 0
        /\ frozen = reserved

\* finances.ts:206-214, lifecycle.ts:461-464: however accepting, failing and
\* cancelling handlers interleave and are cut off, what the order says it has
\* reserved is frozen in the guest's wallet.
ReservedIsFrozen == reserved <= frozen

\* queues.ts:111-117: once the job is queued a proposal does not stay open.
RequestCloses == (closing # "none" /\ order \in Waiting) ~> order \notin Waiting
=============================================================================
