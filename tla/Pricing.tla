------------------------------- MODULE Pricing -------------------------------
(***************************************************************************)
(* What one cast's attendance costs the guest and earns the cast           *)
(* (server/services/meetings/costs.ts and model.ts, lib/time-range.ts,     *)
(* lib/money.ts): times are minutes, the division by the float             *)
(* cost_time_interval_divider can lose a credit.                           *)
(***************************************************************************)
EXTENDS Integers

CONSTANTS
    Bookings,        \* planned times of an order
    Day,             \* minutes of a day
    NightEnd,        \* the night is from 00:00 to this, both included
    MinInterval,     \* minutes of a block
    Divider,         \* blocks of a charge interval
    BaseCost,        \* credits of a charge interval as planned
    ProlongCost,     \* credits of a charge interval of the prolongation
    NightSurcharge,  \* credits when the attendance touches the night
    FeePermille,     \* the cast's share
    Roundings,       \* sets of block counts whose product loses a credit
    MaxClock         \* bound: the last minute

ASSUME PricingAssumption ==
    /\ MinInterval \in Nat \ {0} /\ Divider \in Nat \ {0} /\ Day \in Nat \ {0}
    /\ BaseCost \in Nat /\ ProlongCost \in Nat /\ NightSurcharge \in Nat
    /\ FeePermille \in 0..1000
    /\ NightEnd \in Int /\ MaxClock \in Nat
    /\ Bookings \subseteq {b \in [from : Nat, to : Nat] : b.from <= b.to}

VARIABLES
    booking,   \* planned_start_time and planned_end_time
    rounding,  \* the block counts whose product loses a credit
    clock,     \* now
    came,      \* start_time; -1 before
    left,      \* end_time; -1 before
    bill,      \* the buckets charged for the attendance
    share      \* what the cast earns of it

priceVars == <<booking, rounding, clock, came, left, bill, share>>

NoBill == [base |-> 0, prolong |-> 0, night |-> 0]

PriceIdle ==
    /\ clock = 0 /\ came = -1 /\ left = -1
    /\ bill = NoBill /\ share = -1

PriceInit == PriceIdle /\ booking \in Bookings /\ rounding \in Roundings

-----------------------------------------------------------------------------
(* Night *)

RangesOverlap(a, b) == a.from <= b.to /\ b.from <= a.to

\* TimeRange.overlaps: only the times of day count, and an attendance that ends
\* at an earlier one is split at midnight.
TouchesNight(from, to) ==
    LET night == [from |-> 0, to |-> NightEnd]
        span(f, t) == [from |-> f, to |-> t]
        f1 == from % Day
        t1 == to % Day
    IN  IF t1 < f1
        THEN RangesOverlap(night, span(0, t1)) \/ RangesOverlap(night, span(f1, Day - 1))
        ELSE RangesOverlap(night, span(f1, t1))

NightCharge(from, to) == IF TouchesNight(from, to) THEN NightSurcharge ELSE 0

-----------------------------------------------------------------------------
(* The estimate and the bill *)

PlannedLength == booking.to - booking.from

\* estimatedCosts of one cast: whole charge intervals only.
Estimated ==
    BaseCost * (PlannedLength \div (MinInterval * Divider)) + NightCharge(booking.from, booking.to)

\* Mutant of VirtualPlannedEnd: a late arrival pulls the end in.
VirtualPlannedEndSwapped(from) ==
    IF from > booking.from THEN booking.to - (from - booking.from)
                           ELSE booking.to + (from - booking.from)

\* virtualPlannedEndTimeFor: the end is late by as much as the cast was, and
\* early by as much (costs_for_being_early).
VirtualPlannedEnd(from) == booking.to + (from - booking.from)

\* toI((blocks / divider) * cost): an exact product can come out a bit smaller.
BlockCharge(blocks, cost) ==
    LET exact == (blocks * cost) \div Divider
    IN  IF (blocks * cost) % Divider = 0 /\ blocks % Divider # 0 /\ blocks \in rounding
            /\ exact # 0
        THEN exact - 1 ELSE exact

Later(a, b) == IF a > b THEN a ELSE b

\* charges: in the prolongation the planned length and the rest, otherwise paid
\* from the later start to the later end.
Charges(from, to) ==
    LET end       == VirtualPlannedEnd(from)
        prolonged == to >= end + MinInterval
        time      == Later(booking.to, to) - Later(booking.from, from)
        baseTime  == IF prolonged THEN PlannedLength ELSE time
        rest      == IF prolonged THEN to - end ELSE 0
    IN  [base    |-> BlockCharge(baseTime \div MinInterval, BaseCost),
         prolong |-> BlockCharge(rest \div MinInterval, ProlongCost),
         night   |-> NightCharge(from, to)]

Total(costs) == costs.base + costs.prolong + costs.night

\* attendanceEarnings: every bucket is floored on its own.
Earnings(costs) ==
    LET cut(amount) == (amount * FeePermille) \div 1000
    IN  cut(costs.base) + cut(costs.prolong) + cut(costs.night)

-----------------------------------------------------------------------------
PriceTick ==
    /\ clock < MaxClock
    /\ clock' = clock + 1
    /\ UNCHANGED <<booking, rounding, came, left, bill, share>>

CastComes ==
    /\ came = -1
    /\ came' = clock
    /\ UNCHANGED <<booking, rounding, clock, left, bill, share>>

CastLeaves ==
    /\ came # -1 /\ left = -1
    /\ left' = clock
    /\ UNCHANGED <<booking, rounding, clock, came, bill, share>>

\* calculateMeetingCosts and the cast's earnings of it.
CalculateCosts ==
    /\ left # -1 /\ share = -1
    /\ bill' = Charges(came, left)
    /\ share' = Earnings(Charges(came, left))
    /\ UNCHANGED <<booking, rounding, clock, came, left>>

PriceNext == PriceTick \/ CastComes \/ CastLeaves \/ CalculateCosts
PriceSpec == PriceInit /\ [][PriceNext]_priceVars

-----------------------------------------------------------------------------
(* Properties *)

WholeIntervals == PlannedLength % (MinInterval * Divider) = 0

\* costs.ts:16-20, model.ts:98-111, 139-147: a cast who is there as planned is
\* billed what the guest was told; if it is for less than a day, whoever comes in
\* time and stays at least as long is not billed less, staying on never makes the
\* bill smaller and coming later never makes it larger; and the cast gets no more
\* than the guest pays.
FairBill ==
    share # -1 =>
        /\ WholeIntervals /\ came = booking.from /\ left = booking.to => Total(bill) = Estimated
        /\ WholeIntervals /\ came <= booking.from /\ left >= booking.to /\ left - came < Day =>
              Total(bill) >= Estimated
        /\ \A t \in left..MaxClock : t - came < Day => Total(Charges(came, t)) >= Total(bill)
        /\ \A f \in came..left : left - came < Day => Total(Charges(f, left)) <= Total(bill)
        /\ share \in 0..Total(bill)
=============================================================================
