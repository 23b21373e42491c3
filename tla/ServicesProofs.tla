---------------------------- MODULE ServicesProofs ----------------------------
(***************************************************************************)
(* Proofs about the four services of Services, each for any number of      *)
(* handlers, requests and faults: IndividualOrder for any price and any    *)
(* credits the guest may have, CardPayment for any registrations,          *)
(* purchases and callbacks, Gifts for any prices, fees, rewards and        *)
(* recipients, and Payouts for any fees, earnings and net amounts.         *)
(***************************************************************************)
EXTENDS IndividualOrder, CardPayment, Gifts, Payouts, RequestHandlersProofs

-----------------------------------------------------------------------------
(* IndividualOrder *)

\* One handler at a time, and none of them cut off so far.
Calm == ~overlapped /\ faults = 0

\* What AnsweredIsSettled says of the order; the wallet has a conjunct below.
Settled ==
    /\ order = "scheduled" => seat = "attending" /\ reserved = Price
    /\ order # "scheduled" => reserved = 0

\* Handlers of an order that is still waiting for its answer.
Early == {"setUp", "enqueue", "failNew", "charge", "credit", "note", "preFail", "freeze",
          "refused", "seatOut", "closed", "jobRead", "match", "expire", "matchFail"}

\* Handlers that write a failure they have decided on.
Refusing == {"refused", "seatOut", "closed", "expire", "matchFail"}
Failing  == {"fail", "release", "setFailed"}

\* A handler that writes a failure knows which one, whatever happens elsewhere.
KnowsFailure(h) ==
    /\ at[h] \in Refusing => seen[h] \in OrderFailures
    /\ at[h] \in Failing => seen[h] \in OrderFailures \cup {"dont_touch"}

\* What h relies on while it is the only one.
Place(h) ==
    /\ at[h] \in Early => order \in Waiting /\ reserved = 0
    /\ at[h] \in {"attend", "schedule"} => order \in Waiting /\ reserved = Price
    /\ at[h] = "schedule" => seat = "attending"
    /\ at[h] = "seatsOut" => order \in OrderFailures /\ reserved = 0
    /\ at[h] = "fail" => Settled
    /\ at[h] = "release" => sum[h] = reserved
    /\ at[h] = "setFailed" => reserved = 0
    /\ at[h] \in Failing => seen[h] \in OrderFailures

\* The rows have their types; the handlers' labels are apart.
RowsOK ==
    /\ order \in {"none", "scheduled"} \cup Waiting \cup OrderFailures
    /\ seat \in {"none", "requested", "attending", "out"}
    /\ reserved \in {0, Price}
    /\ spendable \in Int /\ frozen \in Nat /\ taken \in Nat /\ booked \in Nat
    /\ late \in BOOLEAN /\ closing \in {"none", "waiting", "active", "done"}
    /\ seen \in [Handlers -> {"none", "dont_touch"} \cup Waiting \cup OrderFailures]
    /\ sum \in [Handlers -> Nat]

LabelsOK == at \in [Handlers -> OrderLabels] /\ Bounded /\ Sequential

CalmInv == Calm => frozen = reserved /\ (AtRest => Settled) /\ \A h \in Handlers : Place(h)

OrderIInv ==
    /\ LabelsOK /\ RowsOK /\ ReservedIsFrozen
    /\ \A h \in Handlers : KnowsFailure(h)
    /\ CalmInv

\* What one step of h has to show.
Shows(h) ==
    /\ RowsOK' /\ ReservedIsFrozen' /\ KnowsFailure(h)'
    /\ \A g \in Handlers \ {h} : seen'[g] = seen[g]
    /\ Calm' => frozen' = reserved' /\ Place(h)' /\ (at'[h] = "idle" => Settled')

-----------------------------------------------------------------------------
\* A charge is a natural number.
LEMMA ChargedIsNat == \A n \in Nat : Charged(n) \in Nat
<1> SUFFICES ASSUME NEW n \in Nat PROVE Charged(n) \in Nat
  OBVIOUS
<1> DEFINE m == n + ChargeUnit - 1
           q == m \div ChargeUnit
<1>1. m \in Nat /\ ChargeUnit \in Nat /\ ChargeUnit > 0
  BY ChargeUnitAssumption
<1> HIDE DEF m
<1>2. q \in Nat
  BY <1>1
<1> HIDE DEF q
<1>3. ChargeUnit * q \in Nat
  BY <1>1, <1>2
<1> QED
  BY <1>3 DEF Charged, q, m

\* The invariant holds initially.
LEMMA InitOrder == OrderInit => OrderIInv
<1> SUFFICES ASSUME OrderInit PROVE OrderIInv
  OBVIOUS
<1>1. HandlersInit /\ OrderIdle /\ spendable \in OrderOpenings
  BY DEF OrderInit
<1>2. at = Idle /\ begun = 0 /\ faults = 0 /\ Bounded /\ Sequential
  BY <1>1, InitBounded
<1>3. \A h \in Handlers : at[h] = "idle"
  BY <1>2 DEF Idle
<1>4. LabelsOK
  BY <1>2 DEF LabelsOK, Idle, OrderLabels
<1>5. RowsOK /\ ReservedIsFrozen
  <2>1. late \in BOOLEAN /\ closing \in {"none", "waiting", "active", "done"}
    BY <1>1 DEF OrderIdle
  <2>2. seen \in [Handlers -> {"none", "dont_touch"} \cup Waiting \cup OrderFailures]
    BY <1>1 DEF OrderIdle
  <2>3. sum \in [Handlers -> Nat]
    BY <1>1 DEF OrderIdle
  <2>4. spendable \in Int /\ reserved = 0 /\ frozen = 0 /\ taken = 0 /\ booked = 0
    BY <1>1, PriceAssumption DEF OrderIdle
  <2> QED
    BY <1>1, <2>1, <2>2, <2>3, <2>4 DEF OrderIdle, RowsOK, ReservedIsFrozen
<1>6. \A h \in Handlers : KnowsFailure(h) /\ Place(h)
  BY <1>3 DEF KnowsFailure, Place, Refusing, Failing, Early
<1>7. frozen = reserved /\ Settled
  BY <1>1 DEF OrderIdle, Settled
<1> QED
  BY <1>4, <1>5, <1>6, <1>7 DEF OrderIInv, CalmInv

\* What h shows is enough, as long as it runs alone or the calm is over.
LEMMA ShowsIsEnough ==
  ASSUME OrderIInv, NEW h \in Handlers, NEW l \in OrderLabels,
         MovesTo(h, l), LabelsOK', Shows(h),
         Calm' => OnlyOne(h)
  PROVE  OrderIInv'
<1>1. RowsOK' /\ ReservedIsFrozen'
  BY DEF Shows
<1>2. \A g \in Handlers \ {h} : KnowsFailure(g)'
  BY DEF OrderIInv, KnowsFailure, Shows, MovesTo
<1>3. \A g \in Handlers : KnowsFailure(g)'
  BY <1>2 DEF Shows
<1>4. ASSUME Calm' PROVE frozen' = reserved' /\ (AtRest' => Settled') /\ \A g \in Handlers : Place(g)'
  <2>1. frozen' = reserved' /\ Place(h)' /\ (at'[h] = "idle" => Settled')
    BY <1>4 DEF Shows
  <2>2. \A g \in Handlers \ {h} : at'[g] = "idle"
    BY <1>4 DEF MovesTo, OnlyOne
  <2>3. \A g \in Handlers \ {h} : Place(g)'
    BY <2>2 DEF Place, Early, Failing
  <2>4. AtRest' => at'[h] = "idle"
    BY DEF AtRest, Idle
  <2> QED
    BY <2>1, <2>3, <2>4
<1> QED
  BY <1>1, <1>3, <1>4 DEF OrderIInv, CalmInv

-----------------------------------------------------------------------------
(* The steps of a handler that has started *)

\* Every one of them goes on at some statement.
LEMMA StepContinues ==
  ASSUME NEW h \in Handlers, OrderStep(h)
  PROVE  at[h] # "idle" /\ \E l \in OrderLabels : Continue(h, l)
<1> USE DEF OrderLabels, Leave, End
<1>1. CASE SetUp(h) \/ SetUpRefused(h) \/ EnqueueAutoOpen(h) \/ FailMeeting(h)
  BY <1>1 DEF SetUp, SetUpRefused, EnqueueAutoOpen, FailMeeting
<1>2. CASE CardAccepts(h) \/ CardRefuses(h) \/ CreditCharge(h) \/ NoteConversion(h)
  BY <1>2 DEF CardAccepts, CardRefuses, CreditCharge, NoteConversion
<1>3. CASE RecordPreChargeFail(h) \/ FreezePrice(h) \/ FreezeRefused(h) \/ Attend(h) \/ Schedule(h)
  BY <1>3 DEF RecordPreChargeFail, FreezePrice, FreezeRefused, Attend, Schedule
<1>4. CASE SeatOut(h) \/ Closed(h) \/ GuestRefused(h) \/ SeatsOut(h)
  BY <1>4 DEF SeatOut, Closed, GuestRefused, SeatsOut
<1>5. CASE CountSeats(h) \/ PreDecide(h)
  BY <1>5 DEF CountSeats, PreDecide
<1>6. CASE ExpireSeat(h) \/ MatchFailed(h) \/ FailRead(h) \/ ReleasePrice(h) \/ SetFailed(h)
  BY <1>6 DEF ExpireSeat, MatchFailed, FailRead, ReleasePrice, SetFailed
<1> QED
  BY <1>1, <1>2, <1>3, <1>4, <1>5, <1>6 DEF OrderStep

\* Where a handler goes, and what it remembers.
LEMMA Arrives == ASSUME LabelsOK, NEW h \in Handlers, NEW l, Goto(h, l) PROVE at'[h] = l
BY DEF LabelsOK, Goto

LEMMA Remembers ==
  ASSUME RowsOK, NEW h \in Handlers, NEW s, NEW n, Act(h, s, n)
  PROVE  /\ seen'[h] = s /\ sum'[h] = n
         /\ \A g \in Handlers \ {h} : seen'[g] = seen[g] /\ sum'[g] = sum[g]
         /\ s \in {"none", "dont_touch"} \cup Waiting \cup OrderFailures =>
                seen' \in [Handlers -> {"none", "dont_touch"} \cup Waiting \cup OrderFailures]
         /\ n \in Nat => sum' \in [Handlers -> Nat]
BY DEF RowsOK, Act

\* A calm step follows a calm one, and h relies on its place.
LEMMA StaysCalm ==
  ASSUME OrderIInv, NEW h \in Handlers, NEW l, Continue(h, l)
  PROVE  Calm' => Calm /\ frozen = reserved /\ Place(h)
BY DEF OrderIInv, CalmInv, Calm, Continue

LEMMA ProposalShows ==
  ASSUME OrderIInv, NEW h \in Handlers,
         SetUp(h) \/ SetUpRefused(h) \/ EnqueueAutoOpen(h) \/ FailMeeting(h)
  PROVE  Shows(h)
<1> USE DEF OrderIInv, Shows, RowsOK, ReservedIsFrozen, KnowsFailure, Refusing, Failing, Settled,
            Place, Early, Waiting, OrderFailures, Leave, End, Mark, Reads, Continue,
            orderRow, purse, card, orderLocal
<1>1. CASE SetUp(h)
  <2>1. at'[h] = "enqueue" /\ at[h] = "setUp"
    BY <1>1, Arrives DEF SetUp
  <2> QED
    BY <1>1, <2>1, StaysCalm DEF SetUp
<1>2. CASE SetUpRefused(h)
  <2>1. at'[h] = "failNew" /\ at[h] = "setUp"
    BY <1>2, Arrives DEF SetUpRefused
  <2> QED
    BY <1>2, <2>1, StaysCalm DEF SetUpRefused
<1>3. CASE EnqueueAutoOpen(h)
  <2>1. at'[h] = "idle" /\ at[h] = "enqueue"
    BY <1>3, Arrives DEF EnqueueAutoOpen
  <2> QED
    BY <1>3, <2>1, StaysCalm, Remembers DEF EnqueueAutoOpen
<1>4. CASE FailMeeting(h)
  <2>1. at'[h] = "idle" /\ at[h] = "failNew"
    BY <1>4, Arrives DEF FailMeeting
  <2> QED
    BY <1>4, <2>1, StaysCalm, Remembers DEF FailMeeting
<1> QED
  BY <1>1, <1>2, <1>3, <1>4

\* Accepting charges the card, freezes the price and attends, in this order.
LEMMA AnswerShows ==
  ASSUME OrderIInv, NEW h \in Handlers,
         CardAccepts(h) \/ CardRefuses(h) \/ CreditCharge(h) \/ NoteConversion(h) \/ RecordPreChargeFail(h) \/ FreezePrice(h) \/ FreezeRefused(h) \/ Attend(h) \/ Schedule(h)
  PROVE  Shows(h)
<1> USE DEF OrderIInv, Shows, RowsOK, ReservedIsFrozen, KnowsFailure, Refusing, Failing, Settled,
            Place, Early, Waiting, OrderFailures, Leave, End, Mark, Seat, Reads, Continue,
            orderRow, purse, card, orderLocal
<1>1. CASE CardAccepts(h)
  <2>1. at'[h] = "credit" /\ at[h] = "charge"
    BY <1>1, Arrives DEF CardAccepts
  <2> QED
    BY <1>1, <2>1, StaysCalm DEF CardAccepts
<1>2. CASE CardRefuses(h)
  <2>1. at'[h] = "preFail" /\ at[h] = "charge"
    BY <1>2, Arrives DEF CardRefuses
  <2> QED
    BY <1>2, <2>1, StaysCalm DEF CardRefuses
<1>3. CASE CreditCharge(h)
  <2>1. at'[h] = "note" /\ at[h] = "credit"
    BY <1>3, Arrives DEF CreditCharge
  <2> QED
    BY <1>3, <2>1, StaysCalm DEF CreditCharge
<1>4. CASE NoteConversion(h)
  <2>1. at'[h] = "freeze" /\ at[h] = "note"
    BY <1>4, Arrives DEF NoteConversion
  <2> QED
    BY <1>4, <2>1, StaysCalm DEF NoteConversion
<1>5. CASE RecordPreChargeFail(h)
  <2>1. at'[h] = "idle" /\ at[h] = "preFail"
    BY <1>5, Arrives DEF RecordPreChargeFail
  <2> QED
    BY <1>5, <2>1, StaysCalm, Remembers DEF RecordPreChargeFail
<1>6. CASE FreezePrice(h)
  <2>1. at'[h] = "attend" /\ at[h] = "freeze"
    BY <1>6, Arrives DEF FreezePrice
  <2> QED
    BY <1>6, <2>1, StaysCalm, PriceAssumption DEF FreezePrice
<1>7. CASE FreezeRefused(h)
  <2>1. at'[h] = "idle" /\ at[h] = "freeze"
    BY <1>7, Arrives DEF FreezeRefused
  <2> QED
    BY <1>7, <2>1, StaysCalm, Remembers DEF FreezeRefused
<1>8. CASE Attend(h)
  <2>1. at'[h] = "schedule" /\ at[h] = "attend"
    BY <1>8, Arrives DEF Attend
  <2> QED
    BY <1>8, <2>1, StaysCalm DEF Attend
<1>9. CASE Schedule(h)
  <2>1. at'[h] = "idle" /\ at[h] = "schedule"
    BY <1>9, Arrives DEF Schedule
  <2> QED
    BY <1>9, <2>1, StaysCalm, Remembers DEF Schedule
<1> QED
  BY <1>1, <1>2, <1>3, <1>4, <1>5, <1>6, <1>7, <1>8, <1>9

\* Refusals write what was decided when they started.
LEMMA RefusalShows ==
  ASSUME OrderIInv, NEW h \in Handlers,
         SeatOut(h) \/ Closed(h) \/ GuestRefused(h) \/ SeatsOut(h)
  PROVE  Shows(h)
<1> USE DEF OrderIInv, Shows, RowsOK, ReservedIsFrozen, KnowsFailure, Refusing, Failing, Settled,
            Place, Early, Waiting, OrderFailures, Leave, End, Mark, Seat, Reads, Continue,
            orderRow, purse, card, orderLocal
<1>1. CASE SeatOut(h)
  <2>1. at'[h] = "closed" /\ at[h] = "seatOut"
    BY <1>1, Arrives DEF SeatOut
  <2> QED
    BY <1>1, <2>1, StaysCalm DEF SeatOut
<1>2. CASE Closed(h)
  <2>1. at'[h] = "idle" /\ at[h] = "closed"
    BY <1>2, Arrives DEF Closed
  <2> QED
    BY <1>2, <2>1, StaysCalm, Remembers DEF Closed
<1>3. CASE GuestRefused(h)
  <2>1. at'[h] = "seatsOut" /\ at[h] = "refused"
    BY <1>3, Arrives DEF GuestRefused
  <2> QED
    BY <1>3, <2>1, StaysCalm DEF GuestRefused
<1>4. CASE SeatsOut(h)
  <2>1. at'[h] = "idle" /\ at[h] = "seatsOut"
    BY <1>4, Arrives DEF SeatsOut
  <2> QED
    BY <1>4, <2>1, StaysCalm, Remembers DEF SeatsOut
<1> QED
  BY <1>1, <1>2, <1>3, <1>4

\* The delayed job finds an order waiting, or fails it.
LEMMA MatchShows ==
  ASSUME OrderIInv, NEW h \in Handlers,
         CountSeats(h) \/ PreDecide(h) \/ ExpireSeat(h) \/ MatchFailed(h)
  PROVE  Shows(h)
<1> USE DEF OrderIInv, Shows, RowsOK, ReservedIsFrozen, KnowsFailure, Refusing, Failing, Settled,
            Place, Early, Waiting, OrderFailures, Leave, End, Mark, Seat, Reads, Continue,
            orderRow, purse, card, orderLocal
<1>1. CASE CountSeats(h)
  <2>1. at[h] = "jobRead" /\ Reads
    BY <1>1 DEF CountSeats
  <2>2. CASE seat \in {"none", "out"}
    <3>1. at'[h] = "fail" /\ Act(h, "not_enough_cast_fail", 0) /\ Continue(h, "fail")
      BY <1>1, <2>2, Arrives DEF CountSeats
    <3> QED
      BY <2>1, <3>1, StaysCalm, Remembers
  <2>3. CASE seat \notin {"none", "out"}
    <3>1. at'[h] = "match" /\ UNCHANGED orderLocal /\ Continue(h, "match")
      BY <1>1, <2>3, Arrives DEF CountSeats
    <3> QED
      BY <2>1, <3>1, StaysCalm
  <2> QED
    BY <2>2, <2>3
<1>2. CASE PreDecide(h)
  <2>1. at[h] = "match" /\ Reads
    BY <1>2 DEF PreDecide
  <2>2. CASE order \notin Waiting
    <3>1. at'[h] = "fail" /\ Act(h, "dont_touch", 0) /\ Continue(h, "fail")
      BY <1>2, <2>2, Arrives DEF PreDecide
    <3> QED
      BY <2>1, <2>2, <3>1, StaysCalm, Remembers
  <2>3. CASE order \in Waiting /\ seat \in {"none", "out"}
    <3>1. at'[h] = "matchFail" /\ Act(h, "not_enough_cast_fail", 0) /\ Continue(h, "matchFail")
      BY <1>2, <2>3, Arrives DEF PreDecide
    <3> QED
      BY <2>1, <3>1, StaysCalm, Remembers
  <2>4. CASE order \in Waiting /\ seat \notin {"none", "out"}
    <3>1. PICK s \in {"request_canceled_fail", "not_enough_cast_fail"} :
             at'[h] = "expire" /\ Act(h, s, 0) /\ Continue(h, "expire")
      BY <1>2, <2>4, Arrives DEF PreDecide
    <3> QED
      BY <2>1, <3>1, StaysCalm, Remembers
  <2> QED
    BY <2>2, <2>3, <2>4
<1>3. CASE ExpireSeat(h)
  <2>1. at'[h] = "matchFail" /\ at[h] = "expire"
    BY <1>3, Arrives DEF ExpireSeat
  <2> QED
    BY <1>3, <2>1, StaysCalm DEF ExpireSeat
<1>4. CASE MatchFailed(h)
  <2>1. at'[h] = "fail" /\ at[h] = "matchFail"
    BY <1>4, Arrives DEF MatchFailed
  <2> QED
    BY <1>4, <2>1, StaysCalm DEF MatchFailed
<1> QED
  BY <1>1, <1>2, <1>3, <1>4

\* handleFailedMeeting releases what it has read.
LEMMA FailureShows ==
  ASSUME OrderIInv, NEW h \in Handlers,
         FailRead(h) \/ ReleasePrice(h) \/ SetFailed(h)
  PROVE  Shows(h)
<1> USE DEF OrderIInv, Shows, RowsOK, ReservedIsFrozen, KnowsFailure, Refusing, Failing, Settled,
            Place, Early, Waiting, OrderFailures, Leave, End, Mark, Seat, Reads, Continue,
            orderRow, purse, card, orderLocal
<1>1. CASE FailRead(h)
  <2>1. at[h] = "fail" /\ UNCHANGED <<order, seat, reserved, spendable, frozen, taken, booked, late, closing, seen>>
    BY <1>1 DEF FailRead
  <2>2. sum' = [sum EXCEPT ![h] = reserved] /\ reserved \in Nat
    BY <1>1, PriceAssumption DEF FailRead
  <2>3. CASE reserved > 0
    <3>1. at'[h] = "release" /\ Continue(h, "release")
      BY <1>1, <2>3, Arrives DEF FailRead
    <3> QED
      BY <2>1, <2>2, <3>1, StaysCalm
  <2>4. CASE ~ (reserved > 0)
    <3>1. at'[h] = "setFailed" /\ Continue(h, "setFailed") /\ reserved = 0
      BY <1>1, <2>2, <2>4, Arrives DEF FailRead
    <3> QED
      BY <2>1, <2>2, <3>1, StaysCalm
  <2> QED
    BY <2>3, <2>4
<1>2. CASE ReleasePrice(h)
  <2>1. at'[h] = "setFailed" /\ at[h] = "release"
    BY <1>2, Arrives DEF ReleasePrice
  <2>2. Continue(h, "setFailed") /\ reserved' = 0
        /\ UNCHANGED <<order, seat, taken, booked, late, closing, seen, sum>>
    BY <1>2 DEF ReleasePrice
  <2>3. sum[h] \in Nat /\ frozen \in Nat /\ spendable \in Int
    OBVIOUS
  <2>4. Thawed(sum[h]) \in 0..frozen /\ (sum[h] = frozen => Thawed(sum[h]) = frozen)
    BY <2>3 DEF Thawed
  <2>5. spendable' \in Int /\ frozen' \in Nat /\ (sum[h] = frozen => frozen' = 0)
    BY <1>2, <2>3, <2>4 DEF ReleasePrice
  <2> QED
    BY <2>1, <2>2, <2>5, StaysCalm
<1>3. CASE SetFailed(h)
  <2>1. at'[h] = "idle" /\ at[h] = "setFailed"
    BY <1>3, Arrives DEF SetFailed
  <2> QED
    BY <1>3, <2>1, StaysCalm, Remembers DEF SetFailed
<1> QED
  BY <1>1, <1>2, <1>3

\* A step of a handler that has started keeps the invariant.
LEMMA StepKeeps ==
  ASSUME OrderIInv, NEW h \in Handlers, OrderStep(h)
  PROVE  OrderIInv'
<1>1. PICK l \in OrderLabels : Continue(h, l) /\ at[h] # "idle"
  BY StepContinues
<1>2. /\ LabelsOK' /\ MovesTo(h, l)
      /\ faults' = faults /\ overlapped' = overlapped /\ (~overlapped => OnlyOne(h))
  BY <1>1, ContinueMoves DEF OrderIInv, LabelsOK
<1>3. Calm' => OnlyOne(h)
  BY <1>2 DEF Calm
<1>4. Shows(h)
  BY ProposalShows, AnswerShows, RefusalShows, MatchShows, FailureShows DEF OrderStep
<1> QED
  BY <1>2, <1>3, <1>4, ShowsIsEnough

-----------------------------------------------------------------------------
(* Requests, the job's delivery, faults *)

\* A request that finds everybody idle finds the order settled.
LEMMA BeginsSettled ==
  ASSUME OrderIInv, NEW h \in Handlers, NEW l \in OrderLabels, Begin(h, l)
  PROVE  /\ LabelsOK' /\ MovesTo(h, l) /\ at[h] = "idle"
         /\ Calm' => OnlyOne(h) /\ Settled /\ frozen = reserved
<1>1. /\ LabelsOK' /\ MovesTo(h, l) /\ at[h] = "idle" /\ faults' = faults
      /\ ~overlapped' => ~overlapped /\ AtRest
  BY BeginMoves DEF OrderIInv, LabelsOK
<1>2. AtRest => OnlyOne(h)
  BY DEF AtRest, Idle, OnlyOne
<1>3. Calm' => Calm /\ AtRest
  BY <1>1 DEF Calm
<1> QED
  BY <1>1, <1>2, <1>3 DEF OrderIInv, CalmInv

\* Every request keeps the invariant.
LEMMA RequestKeeps ==
  ASSUME OrderIInv, NEW h \in Handlers, OrderRequest(h)
  PROVE  OrderIInv'
<1> USE DEF OrderIInv, Shows, RowsOK, ReservedIsFrozen, KnowsFailure, Refusing, Failing, Settled,
            Place, Early, Waiting, OrderFailures, Reads, OrderLabels,
            orderRow, purse, card, orderLocal
<1>1. CASE Propose(h)
  <2>1. Begin(h, "setUp")
    BY <1>1 DEF Propose
  <2>2. LabelsOK' /\ MovesTo(h, "setUp") /\ (Calm' => OnlyOne(h) /\ Settled /\ frozen = reserved)
    BY <2>1, BeginsSettled
  <2>3. Shows(h)
    BY <1>1, <2>2, Remembers, PriceAssumption DEF Propose, MovesTo
  <2> QED
    BY <2>2, <2>3, ShowsIsEnough
<1>2. CASE Accept(h)
  <2>1. PICK l \in {"charge", "freeze"} : Begin(h, l)
    BY <1>2 DEF Accept
  <2>2. LabelsOK' /\ MovesTo(h, l) /\ (Calm' => OnlyOne(h) /\ Settled /\ frozen = reserved)
    BY <2>1, BeginsSettled
  <2>3. PICK n \in Nat : Act(h, order, n)
    <3>1. Price > spendable => Price - spendable \in Nat
      BY PriceAssumption
    <3>2. (IF Price > spendable THEN Charged(Price - spendable) ELSE 0) \in Nat
      BY <3>1, ChargedIsNat
    <3> QED
      BY <1>2, <3>2 DEF Accept
  <2>4. order \in Waiting /\ UNCHANGED <<order, seat, reserved, spendable, frozen, taken, booked, late, closing>>
    BY <1>2 DEF Accept
  <2>5. Shows(h)
    BY <2>1, <2>2, <2>3, <2>4, Remembers, PriceAssumption DEF MovesTo
  <2> QED
    BY <2>1, <2>2, <2>5, ShowsIsEnough
<1>3. CASE Refuse(h)
  <2>1. PICK l \in {"refused", "seatOut"} : Begin(h, l)
    BY <1>3 DEF Refuse
  <2>2. LabelsOK' /\ MovesTo(h, l) /\ (Calm' => OnlyOne(h) /\ Settled /\ frozen = reserved)
    BY <2>1, BeginsSettled
  <2>3. Shows(h)
    BY <1>3, <2>2, Remembers, PriceAssumption DEF Refuse, MovesTo
  <2> QED
    BY <2>1, <2>2, <2>3, ShowsIsEnough
<1>4. CASE CancelRequest(h)
  <2>1. Begin(h, "seatOut")
    BY <1>4 DEF CancelRequest
  <2>2. LabelsOK' /\ MovesTo(h, "seatOut") /\ (Calm' => OnlyOne(h) /\ Settled /\ frozen = reserved)
    BY <2>1, BeginsSettled
  <2>3. Shows(h)
    BY <1>4, <2>2, Remembers, PriceAssumption DEF CancelRequest, MovesTo
  <2> QED
    BY <2>2, <2>3, ShowsIsEnough
<1>5. CASE CancelMeeting(h)
  <2>1. Begin(h, "fail")
    BY <1>5 DEF CancelMeeting
  <2>2. LabelsOK' /\ MovesTo(h, "fail") /\ (Calm' => OnlyOne(h) /\ Settled /\ frozen = reserved)
    BY <2>1, BeginsSettled
  <2>3. Shows(h)
    BY <1>5, <2>2, Remembers, PriceAssumption DEF CancelMeeting, MovesTo
  <2> QED
    BY <2>2, <2>3, ShowsIsEnough
<1>6. CASE SpendOrderMoney(h)
  <2>1. Begin(h, "idle")
    BY <1>6 DEF SpendOrderMoney
  <2>2. LabelsOK' /\ MovesTo(h, "idle") /\ (Calm' => OnlyOne(h) /\ Settled /\ frozen = reserved)
    BY <2>1, BeginsSettled
  <2>3. Shows(h)
    BY <1>6, <2>2, Remembers, PriceAssumption DEF SpendOrderMoney, MovesTo
  <2> QED
    BY <2>2, <2>3, ShowsIsEnough
<1> QED
  BY <1>1, <1>2, <1>3, <1>4, <1>5, <1>6 DEF OrderRequest

\* The queue delivers the job, or drops it when the order is not waiting.
LEMMA DeliveryKeeps ==
  ASSUME OrderIInv, NEW h \in Handlers, AutoOpenMeetingWorker(h)
  PROVE  OrderIInv'
<1>1. UNCHANGED <<order, seat, reserved, spendable, frozen, taken, booked, late, seen, sum>>
  BY DEF AutoOpenMeetingWorker, orderRow, purse, card, orderLocal
<1>2. CASE order \in Waiting
  <2>1. Deliver(h, "jobRead") /\ begun' = begun /\ closing' = "active"
    BY <1>2 DEF AutoOpenMeetingWorker
  <2>2. /\ at' \in [Handlers -> OrderLabels] /\ Sequential' /\ overlapped' \in BOOLEAN
        /\ MovesTo(h, "jobRead") /\ at[h] = "idle" /\ faults' = faults
        /\ ~overlapped' => ~overlapped /\ AtRest
    <3>1. at \in [Handlers -> OrderLabels] /\ overlapped \in BOOLEAN /\ Sequential
      BY DEF OrderIInv, LabelsOK, Bounded
    <3>2. "jobRead" \in OrderLabels
      BY DEF OrderLabels
    <3> QED
      BY <2>1, <3>1, <3>2, DeliverMoves
  <2>3. LabelsOK'
    BY <2>1, <2>2 DEF OrderIInv, LabelsOK, Bounded
  <2>4. Calm' => OnlyOne(h) /\ Settled /\ frozen = reserved
    BY <2>2 DEF OrderIInv, CalmInv, Calm, OnlyOne, AtRest, Idle
  <2>5. RowsOK' /\ ReservedIsFrozen'
    BY <1>1, <2>1 DEF OrderIInv, RowsOK, ReservedIsFrozen
  <2>6. KnowsFailure(h)' /\ at'[h] = "jobRead"
    BY <2>2 DEF MovesTo, KnowsFailure, Refusing, Failing
  <2>7. Calm' => Place(h)'
    BY <1>1, <1>2, <2>4, <2>6 DEF Place, Settled, Early, Failing, Waiting
  <2>8. Shows(h)
    BY <1>1, <2>4, <2>5, <2>6, <2>7 DEF Shows
  <2> QED
    BY <2>2, <2>3, <2>4, <2>8, ShowsIsEnough DEF OrderLabels
<1>3. CASE order \notin Waiting
  <2>1. UNCHANGED <<at, begun, faults, overlapped>> /\ closing' = "done"
    BY <1>3 DEF AutoOpenMeetingWorker, handlerVars
  <2>2. LabelsOK' /\ RowsOK' /\ ReservedIsFrozen'
    BY <1>1, <2>1 DEF OrderIInv, LabelsOK, Bounded, Sequential, OnlyOne, RowsOK, ReservedIsFrozen
  <2>3. \A g \in Handlers : KnowsFailure(g)'
    BY <1>1, <2>1 DEF OrderIInv, KnowsFailure
  <2>4. CalmInv'
    BY <1>1, <2>1 DEF OrderIInv, CalmInv, Calm, AtRest, Settled, Place
  <2> QED
    BY <2>2, <2>3, <2>4 DEF OrderIInv
<1> QED
  BY <1>2, <1>3

\* The time of the order passes for everybody.
LEMMA TimeKeeps == ASSUME OrderIInv, TimePasses PROVE OrderIInv'
<1>1. UNCHANGED <<at, begun, faults, overlapped, order, seat, reserved, spendable, frozen, taken,
                  booked, closing, seen, sum>>
  BY DEF TimePasses, handlerVars, orderRow, purse, card, orderLocal
<1>2. late' \in BOOLEAN
  BY DEF TimePasses
<1>3. LabelsOK'
  BY <1>1 DEF OrderIInv, LabelsOK, Bounded, Sequential, OnlyOne
<1>4. RowsOK' /\ ReservedIsFrozen'
  BY <1>1, <1>2 DEF OrderIInv, RowsOK, ReservedIsFrozen
<1>5. \A g \in Handlers : KnowsFailure(g)'
  BY <1>1 DEF OrderIInv, KnowsFailure
<1>6. CalmInv'
  BY <1>1 DEF OrderIInv, CalmInv, Calm, AtRest, Settled, Place
<1> QED
  BY <1>3, <1>4, <1>5, <1>6 DEF OrderIInv

\* After a fault there is no calm; what is left to show are the rows.
LEMMA FaultKeeps ==
  ASSUME OrderIInv, NEW h \in Handlers, OrderFault(h)
  PROVE  OrderIInv'
<1>1. PICK l \in OrderLabels : Refused(h, l) /\ at[h] # "idle"
  <2>1. CASE ChargeFails(h)
    BY <2>1 DEF ChargeFails, OrderLabels
  <2>2. CASE MatchError(h)
    BY <2>2 DEF MatchError, OrderLabels
  <2>3. CASE OrderDie(h)
    BY <2>3 DEF OrderDie, Die, OrderLabels
  <2> QED
    BY <2>1, <2>2, <2>3 DEF OrderFault
<1>2. LabelsOK' /\ MovesTo(h, l) /\ faults' = faults + 1
  BY <1>1, RefusedMoves DEF OrderIInv, LabelsOK
<1> USE DEF OrderIInv, RowsOK, ReservedIsFrozen, Reads, orderRow, purse, card, orderLocal
<1>3. ~ Calm'
  BY <1>2 DEF LabelsOK, Bounded, Calm
<1>4. CASE ChargeFails(h)
  <2>1. at'[h] = "preFail"
    BY <1>4, Arrives DEF ChargeFails, Refused
  <2> QED
    BY <1>2, <1>3, <1>4, <2>1, ShowsIsEnough DEF ChargeFails, Shows, KnowsFailure, Refusing, Failing
<1>5. CASE MatchError(h)
  <2>1. Act(h, "general_fail", 0) /\ at'[h] = "fail"
    BY <1>5, Arrives DEF MatchError, Refused
  <2>2. KnowsFailure(h)' /\ RowsOK' /\ ReservedIsFrozen' /\ \A g \in Handlers \ {h} : seen'[g] = seen[g]
    BY <1>5, <2>1, Remembers DEF MatchError, KnowsFailure, Refusing, Failing, OrderFailures
  <2> QED
    BY <1>2, <1>3, <2>2, ShowsIsEnough DEF Shows
<1>6. CASE OrderDie(h)
  <2>1. Act(h, "none", 0) /\ at'[h] = "idle"
    BY <1>6, Arrives DEF OrderDie, Die, Refused
  <2>2. closing' \in {"none", "waiting", "active", "done"}
    BY <1>6 DEF OrderDie
  <2>3. KnowsFailure(h)' /\ RowsOK' /\ ReservedIsFrozen' /\ \A g \in Handlers \ {h} : seen'[g] = seen[g]
    BY <1>6, <2>1, <2>2, Remembers DEF OrderDie, KnowsFailure, Refusing, Failing
  <2> QED
    BY <1>2, <1>3, <2>3, ShowsIsEnough DEF Shows
<1> QED
  BY <1>4, <1>5, <1>6 DEF OrderFault

-----------------------------------------------------------------------------
(* The theorems *)

\* Every step keeps the invariant.
LEMMA NextOrder == OrderIInv /\ [OrderNext]_<<handlerVars, orderVars>> => OrderIInv'
<1> SUFFICES ASSUME OrderIInv, [OrderNext]_<<handlerVars, orderVars>> PROVE OrderIInv'
  OBVIOUS
<1>1. CASE \E h \in Handlers :
               OrderRequest(h) \/ OrderStep(h) \/ AutoOpenMeetingWorker(h) \/ OrderFault(h)
  BY <1>1, RequestKeeps, StepKeeps, DeliveryKeeps, FaultKeeps
<1>2. CASE TimePasses
  BY <1>2, TimeKeeps
<1>3. CASE UNCHANGED <<handlerVars, orderVars>>
  <2>1. UNCHANGED <<at, begun, faults, overlapped, order, seat, reserved, spendable, frozen, taken,
                    booked, late, closing, seen, sum>>
    BY <1>3 DEF handlerVars, orderVars, orderRow, purse, card, orderLocal
  <2>2. LabelsOK' /\ RowsOK' /\ ReservedIsFrozen'
    BY <2>1 DEF OrderIInv, LabelsOK, Bounded, Sequential, OnlyOne, RowsOK, ReservedIsFrozen
  <2>3. \A g \in Handlers : KnowsFailure(g)'
    BY <2>1 DEF OrderIInv, KnowsFailure
  <2>4. CalmInv'
    BY <2>1 DEF OrderIInv, CalmInv, Calm, AtRest, Settled, Place
  <2> QED
    BY <2>2, <2>3, <2>4 DEF OrderIInv
<1> QED
  BY <1>1, <1>2, <1>3 DEF OrderNext

\* The invariant holds in every behaviour.
THEOREM OrderInvariant == OrderSpec => []OrderIInv
<1>1. OrderInit => OrderIInv
  BY InitOrder
<1>2. OrderIInv /\ [OrderNext]_<<handlerVars, orderVars>> => OrderIInv'
  BY NextOrder
<1> QED
  BY <1>1, <1>2, PTL DEF OrderSpec

\* Every variable of an individual order keeps its type, whoever crashes.
THEOREM OrderTypes == OrderSpec => []OrderTypeOK
<1>1. OrderIInv => OrderTypeOK
  BY DEF OrderIInv, LabelsOK, RowsOK, OrderTypeOK
<1> QED
  BY <1>1, OrderInvariant, PTL

\* However handlers interleave and are cut off, what the order says it has
\* reserved is frozen in the guest's wallet.
THEOREM OrderReservedIsFrozen == OrderSpec => []ReservedIsFrozen
<1>1. OrderIInv => ReservedIsFrozen
  BY DEF OrderIInv
<1> QED
  BY <1>1, OrderInvariant, PTL

\* One handler at a time, whatever the sequence of proposals, answers, failures,
\* timeouts and cancellations: an order that takes place has its cast and its
\* price, and nothing stays frozen for one that does not.
THEOREM OrderAnsweredIsSettled == OrderSpec => []AnsweredIsSettled
<1>1. OrderIInv => AnsweredIsSettled
  BY DEF OrderIInv, CalmInv, Calm, AnsweredIsSettled, Undisturbed, Settled
<1> QED
  BY <1>1, OrderInvariant, PTL

-----------------------------------------------------------------------------
(* CardPayment *)

\* One handler at a time, and none of them cut off so far.
CalmCard == ~overlapped /\ faults = 0

CardRowsOK ==
    /\ token \in Token /\ cardRow \in {"none", "invalid", "valid"}
    /\ tokens \in Nat /\ enrolled \subseteq Nat \ {0}
    /\ bought \in [Purchases -> [state : {"none", "enrolled", "captured"}, sendId : Token]]
    /\ entries \in [Purchases -> Nat]
    /\ renewed \in BOOLEAN
    /\ turn \in [Handlers -> Turn]

CardLabelsOK == at \in [Handlers -> CardLabels] /\ Bounded /\ Sequential

\* A callback is about a purchase there is, a registration about a token.
Buying      == {"capture", "findUser", "look", "bookBuy"}
Registering == {"enrollCard", "findPending", "setToken"}
KnowsTurn(h) ==
    /\ at[h] \in Buying => turn[h].id \in Purchases
    /\ at[h] \in Registering => turn[h].id # 0

\* A handler that books alone books what nobody has booked.
KnowsUnbooked(h) == at[h] = "bookBuy" => entries[turn[h].id] = 0

\* The user the gateway's answer s leads to is found.
Found(s) == token = s \/ (~s.pending /\ token = [id |-> s.id, pending |-> TRUE])

\* What CardIsConfirmed says.
Confirmed ==
    /\ (cardRow = "valid") = (token.id # 0 /\ ~token.pending)
    /\ token.id = tokens

\* Every captured purchase is booked, i excepted.
BookedBut(i) == \A j \in Purchases \ {i} : bought[j].state = "captured" => entries[j] > 0

\* Whoever has a purchase open is found by its token.
OpenFound ==
    \A i \in Purchases : bought[i].state # "none" /\ entries[i] = 0 => Found(bought[i].sendId)

\* What h relies on while it is the only one: the card, ...
CardPlace(h) ==
    /\ at[h] \notin {"newToken", "setValid"} => Confirmed
    /\ at[h] = "newToken" => cardRow = "invalid" /\ token.id = tokens
    /\ at[h] = "setValid" => token.id # 0 /\ ~token.pending /\ token.id = tokens
    /\ at[h] = "setToken" => token = [id |-> turn[h].id, pending |-> TRUE]

\* ... and the purchase.
BuyPlace(h) ==
    /\ at[h] = "enrollBuy" => turn[h].sendId = token
    /\ at[h] \in Buying => turn[h].sendId = bought[turn[h].id].sendId
                           /\ bought[turn[h].id].state # "none"
    /\ at[h] \notin Buying \ {"capture"} => BookedBut(0)
    /\ at[h] \in Buying \ {"capture"} => BookedBut(turn[h].id)

LoneCard == ~overlapped => /\ \A i \in Purchases : entries[i] <= 1
                           /\ \A h \in Handlers : KnowsUnbooked(h)

CalmCardInv ==
    CalmCard =>
        /\ AtRest => Confirmed
        /\ \A h \in Handlers : at[h] # "idle" => CardPlace(h)
        /\ ~renewed => /\ OpenFound
                       /\ AtRest => BookedBut(0)
                       /\ \A h \in Handlers : at[h] # "idle" => BuyPlace(h)

CardIInv ==
    /\ CardLabelsOK /\ CardRowsOK
    /\ \A h \in Handlers : KnowsTurn(h)
    /\ LoneCard /\ CalmCardInv

\* What one step of h has to show: the rows, what is booked, the card, the purchase.
RowsShown(h)   == CardRowsOK' /\ KnowsTurn(h)' /\ \A g \in Handlers \ {h} : turn'[g] = turn[g]
LoneShown(h)   == ~overlapped' => (\A i \in Purchases : entries'[i] <= 1) /\ KnowsUnbooked(h)'
CardShown(h)   == CalmCard' => IF at'[h] = "idle" THEN Confirmed' ELSE CardPlace(h)'
BoughtShown(h) == CalmCard' /\ ~renewed' =>
                      OpenFound' /\ IF at'[h] = "idle" THEN BookedBut(0)' ELSE BuyPlace(h)'

CardShows(h) == RowsShown(h) /\ LoneShown(h) /\ CardShown(h) /\ BoughtShown(h)

-----------------------------------------------------------------------------
\* The invariant holds initially.
LEMMA InitCard == CardInit => CardIInv
<1> SUFFICES ASSUME CardInit PROVE CardIInv
  OBVIOUS
<1>1. HandlersInit /\ tokens \in {0, 1} /\ CardIdle
  BY DEF CardInit
<1>2. at = Idle /\ Bounded /\ Sequential
  BY <1>1, InitBounded
<1>3. \A h \in Handlers : at[h] = "idle"
  BY <1>2 DEF Idle
<1>4. CardLabelsOK
  BY <1>2 DEF CardLabelsOK, Idle, CardLabels
<1>5. CardRowsOK
  <2>1. token \in Token /\ tokens \in Nat
    BY <1>1 DEF CardIdle, Token
  <2>2. enrolled \subseteq Nat \ {0}
    BY <1>1 DEF CardIdle
  <2>3. NoToken \in Token
    BY DEF NoToken, Token
  <2>4. turn \in [Handlers -> Turn]
    BY <1>1, <2>3 DEF CardIdle, NoTurn, Turn
  <2>5. bought \in [Purchases -> [state : {"none", "enrolled", "captured"}, sendId : Token]]
    BY <1>1, <2>3 DEF CardIdle, NoPurchase
  <2>6. entries \in [Purchases -> Nat]
    BY <1>1 DEF CardIdle
  <2>7. cardRow \in {"none", "invalid", "valid"}
    BY <1>1 DEF CardIdle
  <2>8. renewed \in BOOLEAN
    BY <1>1 DEF CardIdle
  <2> QED
    BY <2>1, <2>2, <2>4, <2>5, <2>6, <2>7, <2>8 DEF CardRowsOK
<1>6. \A h \in Handlers : KnowsTurn(h) /\ KnowsUnbooked(h)
  BY <1>3 DEF KnowsTurn, Buying, Registering, KnowsUnbooked
<1>7. \A i \in Purchases : bought[i].state = "none" /\ entries[i] = 0
  BY <1>1 DEF CardIdle, NoPurchase
<1>8. LoneCard
  BY <1>6, <1>7 DEF LoneCard
<1>9. Confirmed
  <2>1. token.id = tokens /\ token.pending = FALSE
    BY <1>1 DEF CardIdle
  <2>2. CASE tokens = 0
    BY <1>1, <2>1, <2>2 DEF CardIdle, Confirmed
  <2>3. CASE tokens = 1
    BY <1>1, <2>1, <2>3 DEF CardIdle, Confirmed
  <2> QED
    BY <1>1, <2>2, <2>3
<1>10. OpenFound /\ BookedBut(0)
  BY <1>7 DEF OpenFound, BookedBut
<1> QED
  BY <1>3, <1>4, <1>5, <1>6, <1>8, <1>9, <1>10 DEF CardIInv, CalmCardInv

\* What h shows is enough, as long as it runs alone or others overlap.
LEMMA CardShowsIsEnough ==
  ASSUME CardIInv, NEW h \in Handlers, NEW l \in CardLabels,
         MovesTo(h, l), CardLabelsOK', CardShows(h),
         ~overlapped' => OnlyOne(h)
  PROVE  CardIInv'
<1>1. CardRowsOK'
  BY DEF CardShows, RowsShown
<1>2. \A g \in Handlers : KnowsTurn(g)'
  <2>1. \A g \in Handlers \ {h} : KnowsTurn(g)'
    BY DEF CardIInv, KnowsTurn, CardShows, RowsShown, MovesTo
  <2> QED
    BY <2>1 DEF CardShows, RowsShown
<1>3. ~overlapped' => \A g \in Handlers \ {h} : at'[g] = "idle"
  BY DEF MovesTo, OnlyOne
<1>4. LoneCard'
  <2>1. ~overlapped' => \A g \in Handlers \ {h} : KnowsUnbooked(g)'
    BY <1>3 DEF KnowsUnbooked
  <2> QED
    BY <2>1 DEF LoneCard, CardShows, LoneShown
<1>5. ASSUME CalmCard' PROVE /\ AtRest' => Confirmed'
                             /\ \A g \in Handlers : at'[g] # "idle" => CardPlace(g)'
                             /\ ~renewed' => /\ OpenFound'
                                             /\ AtRest' => BookedBut(0)'
                                             /\ \A g \in Handlers : at'[g] # "idle" => BuyPlace(g)'
  <2>1. \A g \in Handlers \ {h} : at'[g] = "idle"
    BY <1>3, <1>5 DEF CalmCard
  <2>2. AtRest' => at'[h] = "idle"
    BY DEF AtRest, Idle
  <2>3. IF at'[h] = "idle" THEN Confirmed' ELSE CardPlace(h)'
    BY <1>5 DEF CardShows, CardShown
  <2>4. ~renewed' => OpenFound' /\ IF at'[h] = "idle" THEN BookedBut(0)' ELSE BuyPlace(h)'
    BY <1>5 DEF CardShows, BoughtShown
  <2> QED
    BY <2>1, <2>2, <2>3, <2>4
<1> QED
  BY <1>1, <1>2, <1>4, <1>5 DEF CardIInv, CalmCardInv

\* Where a handler goes, and what it is about.
LEMMA CardArrives ==
  ASSUME CardLabelsOK, NEW h \in Handlers, NEW l, Goto(h, l) PROVE at'[h] = l
BY DEF CardLabelsOK, Goto

LEMMA Takes ==
  ASSUME CardRowsOK, NEW h \in Handlers, NEW i \in Nat, NEW t \in Token, Take(h, i, t)
  PROVE  /\ turn'[h].id = i /\ turn'[h].sendId = t
         /\ \A g \in Handlers \ {h} : turn'[g] = turn[g]
         /\ turn' \in [Handlers -> Turn]
<1>1. [id |-> i, sendId |-> t] \in Turn
  BY DEF Turn
<1> QED
  BY <1>1 DEF CardRowsOK, Take

\* A handler that ends is about nothing.
LEMMA CardEnds ==
  ASSUME CardRowsOK, CardLabelsOK, NEW h \in Handlers, CardDone(h)
  PROVE  /\ Continue(h, "idle") /\ at'[h] = "idle"
         /\ \A g \in Handlers \ {h} : turn'[g] = turn[g]
         /\ turn' \in [Handlers -> Turn]
<1>1. NoTurn \in Turn
  BY DEF NoTurn, NoToken, Turn, Token
<1> QED
  BY <1>1, CardArrives DEF CardRowsOK, CardDone, End, Continue

\* A calm step follows a calm one, and h relies on its place.
LEMMA StaysLone ==
  ASSUME CardIInv, NEW h \in Handlers, NEW l, Continue(h, l), at[h] # "idle"
  PROVE  /\ overlapped' = overlapped
         /\ ~overlapped => (\A i \in Purchases : entries[i] <= 1) /\ KnowsUnbooked(h)
         /\ CalmCard' => CardPlace(h)
         /\ CalmCard' /\ ~renewed => OpenFound /\ BuyPlace(h)
BY DEF CardIInv, LoneCard, CalmCardInv, CalmCard, Continue

-----------------------------------------------------------------------------
(* Registering a card *)

\* A new token is pending; whoever has a purchase open is not found any more.
LEMMA NewTokenShows == ASSUME CardIInv, NEW h \in Handlers, NewToken(h) PROVE CardShows(h)
<1> DEFINE t == [id |-> tokens + 1, pending |-> TRUE]
<1>1. /\ at[h] = "newToken" /\ at'[h] = "enrollCard" /\ Continue(h, "enrollCard")
      /\ tokens' = tokens + 1 /\ token' = t /\ renewed' = (renewed \/ InProgress)
      /\ UNCHANGED <<cardRow, enrolled, bought, entries>>
  BY CardArrives DEF CardIInv, NewToken, Continue, SetToken
<1>2. tokens \in Nat /\ t \in Token /\ NoToken \in Token
  BY DEF CardIInv, CardRowsOK, Token, NoToken
<1>3. turn'[h].id = tokens + 1 /\ turn' \in [Handlers -> Turn] /\ \A g \in Handlers \ {h} : turn'[g] = turn[g]
  BY <1>2, Takes DEF CardIInv, NewToken
<1>4. renewed' \in BOOLEAN
  BY <1>1 DEF CardIInv, CardRowsOK
<1>5. RowsShown(h)
  BY <1>1, <1>2, <1>3, <1>4 DEF CardIInv, CardRowsOK, RowsShown, KnowsTurn, Buying, Registering
<1>6. LoneShown(h)
  BY <1>1, StaysLone DEF LoneShown, KnowsUnbooked
<1>7. CardShown(h)
  <2>1. CalmCard' => cardRow = "invalid"
    BY <1>1, StaysLone DEF CardPlace
  <2>2. token'.id = tokens' /\ token'.pending = TRUE
    BY <1>1
  <2> QED
    BY <1>1, <2>1, <2>2 DEF CardShown, CardPlace, Confirmed
<1>8. BoughtShown(h)
  <2>1. ~renewed' => \A i \in Purchases : bought[i].state # "none" => entries[i] # 0
    BY <1>1 DEF InProgress
  <2>2. CalmCard' /\ ~renewed' => BookedBut(0)
    BY <1>1, StaysLone DEF BuyPlace, Buying
  <2> QED
    BY <1>1, <2>1, <2>2 DEF BoughtShown, OpenFound, BuyPlace, BookedBut, Buying
<1> QED
  BY <1>5, <1>6, <1>7, <1>8 DEF CardShows

\* The gateway's answer to an enrolment changes no card yet.
LEMMA EnrollCardShows == ASSUME CardIInv, NEW h \in Handlers, EnrollCard(h) PROVE CardShows(h)
<1>1. /\ at[h] = "enrollCard" /\ at'[h] = "idle" /\ Continue(h, "idle")
      /\ turn' \in [Handlers -> Turn] /\ \A g \in Handlers \ {h} : turn'[g] = turn[g]
      /\ UNCHANGED <<token, renewed, cardRow, tokens, bought, entries>>
  BY CardEnds DEF CardIInv, EnrollCard, KeepToken, Enroll3ds
<1>2. turn[h].id \in Nat /\ turn[h].id # 0
  BY <1>1 DEF CardIInv, CardRowsOK, KnowsTurn, Registering, Turn
<1>3. enrolled' \subseteq Nat \ {0}
  BY <1>2 DEF CardIInv, CardRowsOK, EnrollCard, Enroll3ds
<1>4. RowsShown(h)
  BY <1>1, <1>3 DEF CardIInv, CardRowsOK, RowsShown, KnowsTurn, Buying, Registering
<1>5. LoneShown(h)
  BY <1>1, StaysLone DEF LoneShown, KnowsUnbooked
<1>6. CardShown(h)
  BY <1>1, StaysLone DEF CardShown, CardPlace, Confirmed
<1>7. BoughtShown(h)
  BY <1>1, StaysLone DEF BoughtShown, OpenFound, Found, BuyPlace, BookedBut, Buying
<1> QED
  BY <1>4, <1>5, <1>6, <1>7 DEF CardShows

\* The callback goes on when the token it names is the pending one.
LEMMA FindPendingShows == ASSUME CardIInv, NEW h \in Handlers, FindPending(h) PROVE CardShows(h)
<1> DEFINE found == token = [id |-> turn[h].id, pending |-> TRUE]
<1>1. at[h] = "findPending" /\ UNCHANGED <<token, renewed, cardRow, tokens, enrolled, bought, entries>>
  BY DEF FindPending, KeepToken
<1>2. /\ at'[h] \in {"setToken", "idle"} /\ Continue(h, at'[h])
      /\ turn' \in [Handlers -> Turn] /\ \A g \in Handlers \ {h} : turn'[g] = turn[g]
      /\ at'[h] = "setToken" => found /\ turn' = turn
  <2>1. CASE found
    BY <2>1, CardArrives DEF FindPending, CardIInv, CardRowsOK, Continue
  <2>2. CASE ~found
    BY <2>2, CardEnds DEF FindPending, CardIInv
  <2> QED
    BY <2>1, <2>2
<1>3. RowsShown(h)
  BY <1>1, <1>2 DEF CardIInv, CardRowsOK, RowsShown, KnowsTurn, Buying, Registering
<1>4. LoneShown(h)
  BY <1>1, <1>2, StaysLone DEF LoneShown, KnowsUnbooked
<1>5. CardShown(h)
  BY <1>1, <1>2, StaysLone DEF CardShown, CardPlace, Confirmed
<1>6. BoughtShown(h)
  BY <1>1, <1>2, StaysLone DEF BoughtShown, OpenFound, Found, BuyPlace, BookedBut, Buying
<1> QED
  BY <1>3, <1>4, <1>5, <1>6 DEF CardShows

\* The token is confirmed; the row of the card follows.
LEMMA ConfirmTokenShows == ASSUME CardIInv, NEW h \in Handlers, ConfirmToken(h) PROVE CardShows(h)
<1> DEFINE t == [id |-> turn[h].id, pending |-> FALSE]
<1>1. /\ at[h] = "setToken" /\ at'[h] = "setValid" /\ Continue(h, "setValid")
      /\ token' = t /\ renewed' = (renewed \/ InProgress)
      /\ UNCHANGED <<cardRow, tokens, enrolled, bought, entries, turn>>
  BY CardArrives DEF CardIInv, ConfirmToken, Continue, SetToken
<1>2. turn[h].id \in Nat /\ turn[h].id # 0 /\ t \in Token
  BY <1>1 DEF CardIInv, CardRowsOK, KnowsTurn, Registering, Turn, Token
<1>3. renewed' \in BOOLEAN
  BY <1>1 DEF CardIInv, CardRowsOK
<1>4. RowsShown(h)
  BY <1>1, <1>2, <1>3 DEF CardIInv, CardRowsOK, RowsShown, KnowsTurn, Buying, Registering
<1>5. LoneShown(h)
  BY <1>1, StaysLone DEF LoneShown, KnowsUnbooked
<1>6. CardShown(h)
  <2>1. CalmCard' => token.id = tokens /\ token.id = turn[h].id
    BY <1>1, StaysLone DEF CardPlace, Confirmed
  <2>2. token'.id = turn[h].id /\ token'.pending = FALSE
    BY <1>1
  <2> QED
    BY <1>1, <1>2, <2>1, <2>2 DEF CardShown, CardPlace
<1>7. BoughtShown(h)
  <2>1. ~renewed' => \A i \in Purchases : bought[i].state # "none" => entries[i] # 0
    BY <1>1 DEF InProgress
  <2>2. CalmCard' /\ ~renewed' => BookedBut(0)
    BY <1>1, StaysLone DEF BuyPlace, Buying
  <2> QED
    BY <1>1, <2>1, <2>2 DEF BoughtShown, OpenFound, BuyPlace, BookedBut, Buying
<1> QED
  BY <1>4, <1>5, <1>6, <1>7 DEF CardShows

LEMMA ConfirmCardShows == ASSUME CardIInv, NEW h \in Handlers, ConfirmCard(h) PROVE CardShows(h)
<1>1. /\ at[h] = "setValid" /\ at'[h] = "idle" /\ Continue(h, "idle") /\ cardRow' = "valid"
      /\ turn' \in [Handlers -> Turn] /\ \A g \in Handlers \ {h} : turn'[g] = turn[g]
      /\ UNCHANGED <<token, renewed, tokens, enrolled, bought, entries>>
  BY CardEnds DEF CardIInv, ConfirmCard, KeepToken
<1>2. RowsShown(h)
  BY <1>1 DEF CardIInv, CardRowsOK, RowsShown, KnowsTurn, Buying, Registering
<1>3. LoneShown(h)
  BY <1>1, StaysLone DEF LoneShown, KnowsUnbooked
<1>4. CardShown(h)
  BY <1>1, StaysLone DEF CardShown, CardPlace, Confirmed
<1>5. BoughtShown(h)
  BY <1>1, StaysLone DEF BoughtShown, OpenFound, Found, BuyPlace, BookedBut, Buying
<1> QED
  BY <1>2, <1>3, <1>4, <1>5 DEF CardShows

-----------------------------------------------------------------------------
(* Buying points *)

\* A purchase is enrolled under the token of the moment.
LEMMA EnrollPurchaseShows ==
  ASSUME CardIInv, NEW h \in Handlers, EnrollPurchase(h) PROVE CardShows(h)
<1> DEFINE p == [state |-> "enrolled", sendId |-> turn[h].sendId]
<1>1. /\ at[h] = "enrollBuy" /\ at'[h] = "idle" /\ Continue(h, "idle")
      /\ turn' \in [Handlers -> Turn] /\ \A g \in Handlers \ {h} : turn'[g] = turn[g]
      /\ UNCHANGED <<token, renewed, cardRow, tokens, enrolled, entries>>
  BY CardEnds DEF CardIInv, EnrollPurchase, KeepToken
<1>2. bought \in [Purchases -> [state : {"none", "enrolled", "captured"}, sendId : Token]]
      /\ turn[h].sendId \in Token
  BY DEF CardIInv, CardRowsOK, Turn
<1>3. bought' = bought \/ \E i : bought' = [bought EXCEPT ![i] = p]
  BY DEF EnrollPurchase, Enroll3ds
<1>4. /\ bought' \in [Purchases -> [state : {"none", "enrolled", "captured"}, sendId : Token]]
      /\ \A j \in Purchases : bought'[j] = bought[j] \/ bought'[j] = p
  BY <1>2, <1>3
<1>5. RowsShown(h)
  BY <1>1, <1>4 DEF CardIInv, CardRowsOK, RowsShown, KnowsTurn, Buying, Registering
<1>6. LoneShown(h)
  BY <1>1, StaysLone DEF LoneShown, KnowsUnbooked
<1>7. CardShown(h)
  BY <1>1, StaysLone DEF CardShown, CardPlace, Confirmed
<1>8. BoughtShown(h)
  <2> SUFFICES ASSUME CalmCard', ~renewed' PROVE OpenFound' /\ BookedBut(0)'
    BY <1>1 DEF BoughtShown
  <2>1. OpenFound /\ BookedBut(0) /\ turn[h].sendId = token
    BY <1>1, StaysLone DEF BuyPlace, Buying
  <2>2. p.state = "enrolled" /\ p.sendId = token
    BY <2>1
  <2>3. BookedBut(0)'
    BY <1>1, <1>4, <2>1, <2>2 DEF BookedBut
  <2>4. OpenFound'
    BY <1>1, <1>4, <2>1, <2>2 DEF OpenFound, Found
  <2> QED
    BY <2>3, <2>4
<1> QED
  BY <1>5, <1>6, <1>7, <1>8 DEF CardShows

\* The money is captured; the purchase stays the same one.
LEMMA CaptureShows == ASSUME CardIInv, NEW h \in Handlers, Capture(h) PROVE CardShows(h)
<1> DEFINE k == turn[h].id
           p == [state |-> "captured", sendId |-> bought[k].sendId]
<1>1. /\ at[h] = "capture" /\ at'[h] = "findUser" /\ Continue(h, "findUser")
      /\ bought' = [bought EXCEPT ![k] = p]
      /\ UNCHANGED <<token, renewed, cardRow, tokens, enrolled, entries, turn>>
  BY CardArrives DEF CardIInv, Capture, KeepToken, Continue, Payment3ds
<1>2. /\ bought \in [Purchases -> [state : {"none", "enrolled", "captured"}, sendId : Token]]
      /\ k \in Purchases
  BY <1>1 DEF CardIInv, CardRowsOK, KnowsTurn, Buying
<1>3. bought[k].sendId \in Token
  BY <1>2
<1> HIDE DEF k
<1>4. p.state = "captured" /\ p.sendId = bought[k].sendId
  OBVIOUS
<1>5. /\ bought' \in [Purchases -> [state : {"none", "enrolled", "captured"}, sendId : Token]]
      /\ bought'[k] = p /\ \A j \in Purchases \ {k} : bought'[j] = bought[j]
  BY <1>1, <1>2, <1>3
<1> HIDE DEF p
<1>6. RowsShown(h)
  BY <1>1, <1>2, <1>5 DEF CardIInv, CardRowsOK, RowsShown, KnowsTurn, Buying, Registering, k
<1>7. LoneShown(h)
  BY <1>1, StaysLone DEF LoneShown, KnowsUnbooked
<1>8. CardShown(h)
  BY <1>1, StaysLone DEF CardShown, CardPlace, Confirmed
<1>9. BoughtShown(h)
  <2> SUFFICES ASSUME CalmCard', ~renewed' PROVE OpenFound' /\ BuyPlace(h)'
    BY <1>1 DEF BoughtShown
  <2>1. OpenFound /\ BookedBut(0) /\ turn[h].sendId = bought[k].sendId /\ bought[k].state # "none"
    BY <1>1, StaysLone DEF BuyPlace, Buying, k
  <2>2. OpenFound'
    BY <1>1, <1>4, <1>5, <2>1 DEF OpenFound, Found
  <2>3. \A j \in Purchases \ {k} : bought'[j].state = "captured" => entries'[j] > 0
    <3>1. k # 0 /\ 0 \notin Purchases
      BY <1>2 DEF Purchases
    <3> QED
      BY <1>1, <1>5, <2>1, <3>1 DEF BookedBut
  <2>4. turn'[h].id = k /\ turn'[h].sendId = bought'[k].sendId /\ bought'[k].state = "captured"
    BY <1>1, <1>4, <1>5, <2>1 DEF k
  <2> QED
    BY <1>1, <2>2, <2>3, <2>4 DEF BuyPlace, BookedBut, Buying
<1> QED
  BY <1>6, <1>7, <1>8, <1>9 DEF CardShows

LEMMA CaptureRefusedShows ==
  ASSUME CardIInv, NEW h \in Handlers, CaptureRefused(h) PROVE CardShows(h)
<1>1. /\ at[h] = "capture" /\ at'[h] = "idle" /\ Continue(h, "idle")
      /\ turn' \in [Handlers -> Turn] /\ \A g \in Handlers \ {h} : turn'[g] = turn[g]
      /\ UNCHANGED <<token, renewed, cardRow, tokens, enrolled, bought, entries>>
  BY CardEnds DEF CardIInv, CaptureRefused, KeepToken
<1>2. RowsShown(h)
  BY <1>1 DEF CardIInv, CardRowsOK, RowsShown, KnowsTurn, Buying, Registering
<1>3. LoneShown(h)
  BY <1>1, StaysLone DEF LoneShown, KnowsUnbooked
<1>4. CardShown(h)
  BY <1>1, StaysLone DEF CardShown, CardPlace, Confirmed
<1>5. BoughtShown(h)
  BY <1>1, StaysLone DEF BoughtShown, OpenFound, Found, BuyPlace, BookedBut, Buying
<1> QED
  BY <1>2, <1>3, <1>4, <1>5 DEF CardShows

\* A guest whose purchase is not booked is found, unless the token has changed.
LEMMA FindUserShows == ASSUME CardIInv, NEW h \in Handlers, FindUser(h) PROVE CardShows(h)
<1> DEFINE found == Found(turn[h].sendId)
<1>1. at[h] = "findUser" /\ UNCHANGED <<token, renewed, cardRow, tokens, enrolled, bought, entries>>
  BY DEF FindUser, KeepToken
<1>2. /\ at'[h] \in {"look", "idle"} /\ Continue(h, at'[h])
      /\ turn' \in [Handlers -> Turn] /\ \A g \in Handlers \ {h} : turn'[g] = turn[g]
      /\ at'[h] = "look" => turn' = turn
      /\ at'[h] = "idle" => ~found
  <2>1. CASE found
    <3>1. Continue(h, "look") /\ turn' = turn
      BY <2>1 DEF FindUser, Found
    <3> QED
      BY <2>1, <3>1, CardArrives DEF CardIInv, CardRowsOK, Continue
  <2>2. CASE ~found
    <3>1. CardDone(h)
      BY <2>2 DEF FindUser, Found
    <3> QED
      BY <2>2, <3>1, CardEnds DEF CardIInv
  <2> QED
    BY <2>1, <2>2
<1>3. turn[h].id \in Purchases
  BY <1>1 DEF CardIInv, KnowsTurn, Buying
<1>4. RowsShown(h)
  BY <1>1, <1>2, <1>3 DEF CardIInv, CardRowsOK, RowsShown, KnowsTurn, Buying, Registering
<1>5. LoneShown(h)
  BY <1>1, <1>2, StaysLone DEF LoneShown, KnowsUnbooked
<1>6. CardShown(h)
  BY <1>1, <1>2, StaysLone DEF CardShown, CardPlace, Confirmed
<1>7. BoughtShown(h)
  <2> SUFFICES ASSUME CalmCard', ~renewed'
               PROVE  OpenFound' /\ IF at'[h] = "idle" THEN BookedBut(0)' ELSE BuyPlace(h)'
    BY DEF BoughtShown
  <2>1. /\ OpenFound /\ BookedBut(turn[h].id) /\ turn[h].sendId = bought[turn[h].id].sendId
        /\ bought[turn[h].id].state # "none"
    BY <1>1, <1>2, StaysLone DEF BuyPlace, Buying
  <2>2. OpenFound'
    BY <1>1, <2>1 DEF OpenFound, Found
  <2>3. CASE at'[h] = "look"
    BY <1>1, <1>2, <2>1, <2>2, <2>3 DEF BuyPlace, BookedBut, Buying
  <2>4. CASE at'[h] = "idle"
    <3>1. entries[turn[h].id] # 0
      BY <1>2, <1>3, <2>1, <2>4 DEF OpenFound
    <3>2. entries[turn[h].id] > 0
      BY <1>3, <3>1 DEF CardIInv, CardRowsOK
    <3>3. BookedBut(0)'
      BY <1>1, <2>1, <3>2 DEF BookedBut
    <3> QED
      BY <2>2, <2>4, <3>3
  <2> QED
    BY <1>2, <2>3, <2>4
<1> QED
  BY <1>4, <1>5, <1>6, <1>7 DEF CardShows

\* What is booked already is not booked again.
LEMMA FindBookedShows == ASSUME CardIInv, NEW h \in Handlers, FindBooked(h) PROVE CardShows(h)
<1>1. at[h] = "look" /\ UNCHANGED <<token, renewed, cardRow, tokens, enrolled, bought, entries>>
  BY DEF FindBooked, KeepToken
<1>2. turn[h].id \in Purchases /\ entries[turn[h].id] \in Nat
  BY <1>1 DEF CardIInv, CardRowsOK, KnowsTurn, Buying
<1>3. /\ at'[h] \in {"bookBuy", "idle"} /\ Continue(h, at'[h])
      /\ turn' \in [Handlers -> Turn] /\ \A g \in Handlers \ {h} : turn'[g] = turn[g]
      /\ at'[h] = "bookBuy" => turn' = turn /\ entries[turn[h].id] = 0
      /\ at'[h] = "idle" => entries[turn[h].id] > 0
  <2>1. CASE entries[turn[h].id] > 0
    <3>1. CardDone(h)
      BY <2>1 DEF FindBooked
    <3> QED
      BY <2>1, <3>1, CardEnds DEF CardIInv
  <2>2. CASE ~ (entries[turn[h].id] > 0)
    <3>1. Continue(h, "bookBuy") /\ turn' = turn /\ entries[turn[h].id] = 0
      BY <1>2, <2>2 DEF FindBooked
    <3> QED
      BY <3>1, CardArrives DEF CardIInv, CardRowsOK, Continue
  <2> QED
    BY <2>1, <2>2
<1>4. RowsShown(h)
  BY <1>1, <1>2, <1>3 DEF CardIInv, CardRowsOK, RowsShown, KnowsTurn, Buying, Registering
<1>5. LoneShown(h)
  BY <1>1, <1>3, StaysLone DEF LoneShown, KnowsUnbooked
<1>6. CardShown(h)
  BY <1>1, <1>3, StaysLone DEF CardShown, CardPlace, Confirmed
<1>7. BoughtShown(h)
  <2> SUFFICES ASSUME CalmCard', ~renewed'
               PROVE  OpenFound' /\ IF at'[h] = "idle" THEN BookedBut(0)' ELSE BuyPlace(h)'
    BY DEF BoughtShown
  <2>1. /\ OpenFound /\ BookedBut(turn[h].id) /\ turn[h].sendId = bought[turn[h].id].sendId
        /\ bought[turn[h].id].state # "none"
    BY <1>1, <1>3, StaysLone DEF BuyPlace, Buying
  <2>2. OpenFound'
    BY <1>1, <2>1 DEF OpenFound, Found
  <2>3. CASE at'[h] = "bookBuy"
    BY <1>1, <1>3, <2>1, <2>2, <2>3 DEF BuyPlace, BookedBut, Buying
  <2>4. CASE at'[h] = "idle"
    BY <1>1, <1>3, <2>1, <2>2, <2>4 DEF BookedBut
  <2> QED
    BY <1>3, <2>3, <2>4
<1> QED
  BY <1>4, <1>5, <1>6, <1>7 DEF CardShows

\* The purchase is booked.
LEMMA BuyCreditsShows == ASSUME CardIInv, NEW h \in Handlers, BuyCredits3d(h) PROVE CardShows(h)
<1> DEFINE k == turn[h].id
<1>1. /\ at[h] = "bookBuy" /\ at'[h] = "idle" /\ Continue(h, "idle")
      /\ turn' \in [Handlers -> Turn] /\ \A g \in Handlers \ {h} : turn'[g] = turn[g]
      /\ UNCHANGED <<token, renewed, cardRow, tokens, enrolled, bought>>
  BY CardEnds DEF CardIInv, BuyCredits3d, KeepToken
<1>2. k \in Purchases /\ entries \in [Purchases -> Nat]
  BY <1>1 DEF CardIInv, CardRowsOK, KnowsTurn, Buying
<1>3. /\ entries' \in [Purchases -> Nat] /\ entries'[k] = entries[k] + 1
      /\ \A j \in Purchases \ {k} : entries'[j] = entries[j]
  BY <1>2 DEF BuyCredits3d
<1>4. RowsShown(h)
  BY <1>1, <1>3 DEF CardIInv, CardRowsOK, RowsShown, KnowsTurn, Buying, Registering
<1>5. LoneShown(h)
  <2>1. ~overlapped' => entries[k] = 0 /\ \A i \in Purchases : entries[i] <= 1
    BY <1>1, StaysLone DEF KnowsUnbooked
  <2> QED
    BY <1>1, <1>2, <1>3, <2>1 DEF LoneShown, KnowsUnbooked
<1>6. CardShown(h)
  BY <1>1, StaysLone DEF CardShown, CardPlace, Confirmed
<1>7. BoughtShown(h)
  <2> SUFFICES ASSUME CalmCard', ~renewed' PROVE OpenFound' /\ BookedBut(0)'
    BY <1>1 DEF BoughtShown
  <2>1. OpenFound /\ BookedBut(k)
    BY <1>1, StaysLone DEF BuyPlace, Buying
  <2>2. \A j \in Purchases : entries'[j] >= entries[j] /\ (j = k => entries'[j] > 0)
    BY <1>2, <1>3
  <2>3. BookedBut(0)'
    BY <1>1, <1>2, <1>3, <2>1, <2>2 DEF BookedBut
  <2>4. OpenFound'
    BY <1>1, <1>2, <1>3, <2>1, <2>2 DEF OpenFound, Found
  <2> QED
    BY <2>3, <2>4
<1> QED
  BY <1>4, <1>5, <1>6, <1>7 DEF CardShows

\* A step of a handler that has started keeps the invariant.
CardStep(h) ==
    \/ NewToken(h) \/ EnrollCard(h) \/ FindPending(h) \/ ConfirmToken(h) \/ ConfirmCard(h)
    \/ EnrollPurchase(h) \/ Capture(h) \/ CaptureRefused(h) \/ FindUser(h)
    \/ FindBooked(h) \/ BuyCredits3d(h)

LEMMA CardContinues ==
  ASSUME NEW h \in Handlers, CardStep(h)
  PROVE  at[h] # "idle" /\ \E l \in CardLabels : Continue(h, l)
<1> USE DEF CardLabels, CardDone, End
<1>1. CASE NewToken(h) \/ EnrollCard(h) \/ FindPending(h) \/ ConfirmToken(h) \/ ConfirmCard(h)
  BY <1>1 DEF NewToken, EnrollCard, FindPending, ConfirmToken, ConfirmCard
<1>2. CASE EnrollPurchase(h) \/ Capture(h) \/ CaptureRefused(h)
  BY <1>2 DEF EnrollPurchase, Capture, CaptureRefused
<1>3. CASE FindUser(h)
  BY <1>3 DEF FindUser
<1>4. CASE FindBooked(h) \/ BuyCredits3d(h)
  BY <1>4 DEF FindBooked, BuyCredits3d
<1> QED
  BY <1>1, <1>2, <1>3, <1>4 DEF CardStep

LEMMA CardStepKeeps == ASSUME CardIInv, NEW h \in Handlers, CardStep(h) PROVE CardIInv'
<1>1. PICK l \in CardLabels : Continue(h, l) /\ at[h] # "idle"
  BY CardContinues
<1>2. CardLabelsOK' /\ MovesTo(h, l) /\ overlapped' = overlapped /\ (~overlapped => OnlyOne(h))
  BY <1>1, ContinueMoves DEF CardIInv, CardLabelsOK
<1>3. CardShows(h)
  BY NewTokenShows, EnrollCardShows, FindPendingShows, ConfirmTokenShows, ConfirmCardShows,
     EnrollPurchaseShows, CaptureShows, CaptureRefusedShows, FindUserShows, FindBookedShows,
     BuyCreditsShows DEF CardStep
<1> QED
  BY <1>2, <1>3, CardShowsIsEnough

-----------------------------------------------------------------------------
(* Requests, callbacks, and processes that die *)

\* Who starts alone finds everything confirmed and booked.
LEMMA DeliversAlone ==
  ASSUME CardIInv, NEW h \in Handlers, NEW l \in CardLabels, Begin(h, l) \/ (Deliver(h, l) /\ begun' = begun)
  PROVE  /\ CardLabelsOK' /\ MovesTo(h, l) /\ at'[h] = l /\ at[h] = "idle" /\ faults' = faults
         /\ ~overlapped' => OnlyOne(h) /\ \A i \in Purchases : entries[i] <= 1
         /\ CalmCard' => Confirmed
         /\ CalmCard' /\ ~renewed => OpenFound /\ BookedBut(0)
<1>1. /\ CardLabelsOK' /\ MovesTo(h, l) /\ at[h] = "idle" /\ faults' = faults
      /\ ~overlapped' => ~overlapped /\ AtRest
  <2>1. at \in [Handlers -> CardLabels] /\ Bounded /\ Sequential
    BY DEF CardIInv, CardLabelsOK
  <2>2. CASE Begin(h, l)
    BY <2>1, <2>2, BeginMoves DEF CardLabelsOK
  <2>3. CASE Deliver(h, l) /\ begun' = begun
    <3>1. /\ at' \in [Handlers -> CardLabels] /\ Sequential' /\ overlapped' \in BOOLEAN
          /\ MovesTo(h, l) /\ at[h] = "idle" /\ faults' = faults
          /\ ~overlapped' => ~overlapped /\ AtRest
      BY <2>1, <2>3, DeliverMoves DEF Bounded
    <3> QED
      BY <2>1, <2>3, <3>1 DEF CardLabelsOK, Bounded
  <2> QED
    BY <2>2, <2>3
<1>2. AtRest => OnlyOne(h)
  BY DEF AtRest, Idle, OnlyOne
<1>3. CalmCard' => CalmCard /\ AtRest
  BY <1>1 DEF CalmCard
<1> QED
  BY <1>1, <1>2, <1>3 DEF CardIInv, CalmCardInv, LoneCard, MovesTo

LEMMA RegisterCardKeeps == ASSUME CardIInv, NEW h \in Handlers, RegisterCard(h) PROVE CardIInv'
<1>1. /\ Begin(h, "newToken") /\ cardRow' = "invalid"
      /\ UNCHANGED <<token, renewed, tokens, enrolled, bought, entries, turn>>
  BY DEF RegisterCard, KeepToken
<1>2. "newToken" \in CardLabels
  BY DEF CardLabels
<1>3. /\ CardLabelsOK' /\ MovesTo(h, "newToken") /\ at'[h] = "newToken"
      /\ ~overlapped' => OnlyOne(h) /\ \A i \in Purchases : entries[i] <= 1
      /\ CalmCard' => Confirmed
      /\ CalmCard' /\ ~renewed => OpenFound /\ BookedBut(0)
  BY <1>1, <1>2, DeliversAlone
<1>4. RowsShown(h)
  BY <1>1, <1>3 DEF CardIInv, CardRowsOK, RowsShown, KnowsTurn, Buying, Registering
<1>5. LoneShown(h)
  BY <1>1, <1>3 DEF LoneShown, KnowsUnbooked
<1>6. CardShown(h)
  BY <1>1, <1>3 DEF CardShown, CardPlace, Confirmed
<1>7. BoughtShown(h)
  BY <1>1, <1>3 DEF BoughtShown, OpenFound, Found, BuyPlace, BookedBut, Buying
<1> QED
  BY <1>2, <1>3, <1>4, <1>5, <1>6, <1>7, CardShowsIsEnough DEF CardShows

LEMMA MakeChargeKeeps == ASSUME CardIInv, NEW h \in Handlers, MakeCharge(h) PROVE CardIInv'
<1>1. /\ Begin(h, "enrollBuy") /\ Take(h, 0, token)
      /\ UNCHANGED <<token, renewed, cardRow, tokens, enrolled, bought, entries>>
  BY DEF MakeCharge, KeepToken
<1>2. "enrollBuy" \in CardLabels
  BY DEF CardLabels
<1>3. /\ CardLabelsOK' /\ MovesTo(h, "enrollBuy") /\ at'[h] = "enrollBuy"
      /\ ~overlapped' => OnlyOne(h) /\ \A i \in Purchases : entries[i] <= 1
      /\ CalmCard' => Confirmed
      /\ CalmCard' /\ ~renewed => OpenFound /\ BookedBut(0)
  BY <1>1, <1>2, DeliversAlone
<1>4. /\ turn'[h].sendId = token
      /\ turn' \in [Handlers -> Turn] /\ \A g \in Handlers \ {h} : turn'[g] = turn[g]
  BY <1>1, Takes DEF CardIInv, CardRowsOK
<1>5. RowsShown(h)
  BY <1>1, <1>3, <1>4 DEF CardIInv, CardRowsOK, RowsShown, KnowsTurn, Buying, Registering
<1>6. LoneShown(h)
  BY <1>1, <1>3 DEF LoneShown, KnowsUnbooked
<1>7. CardShown(h)
  BY <1>1, <1>3 DEF CardShown, CardPlace, Confirmed
<1>8. BoughtShown(h)
  BY <1>1, <1>3, <1>4 DEF BoughtShown, OpenFound, Found, BuyPlace, BookedBut, Buying
<1> QED
  BY <1>2, <1>3, <1>5, <1>6, <1>7, <1>8, CardShowsIsEnough DEF CardShows

LEMMA RegistrationCallbackKeeps ==
  ASSUME CardIInv, NEW h \in Handlers, RegistrationCallback(h) PROVE CardIInv'
<1>1. PICK t \in enrolled : Take(h, t, NoToken)
  BY DEF RegistrationCallback
<1>2. /\ Deliver(h, "findPending") /\ begun' = begun
      /\ UNCHANGED <<token, renewed, cardRow, tokens, enrolled, bought, entries>>
  BY DEF RegistrationCallback, KeepToken
<1>3. "findPending" \in CardLabels
  BY DEF CardLabels
<1>4. /\ CardLabelsOK' /\ MovesTo(h, "findPending") /\ at'[h] = "findPending"
      /\ ~overlapped' => OnlyOne(h) /\ \A i \in Purchases : entries[i] <= 1
      /\ CalmCard' => Confirmed
      /\ CalmCard' /\ ~renewed => OpenFound /\ BookedBut(0)
  BY <1>2, <1>3, DeliversAlone
<1>5. t \in Nat /\ t # 0 /\ NoToken \in Token
  BY <1>1 DEF CardIInv, CardRowsOK, NoToken, Token
<1>6. /\ turn'[h].id # 0
      /\ turn' \in [Handlers -> Turn] /\ \A g \in Handlers \ {h} : turn'[g] = turn[g]
  BY <1>1, <1>5, Takes DEF CardIInv
<1>7. RowsShown(h)
  BY <1>2, <1>4, <1>6 DEF CardIInv, CardRowsOK, RowsShown, KnowsTurn, Buying, Registering
<1>8. LoneShown(h)
  BY <1>2, <1>4 DEF LoneShown, KnowsUnbooked
<1>9. CardShown(h)
  BY <1>2, <1>4 DEF CardShown, CardPlace, Confirmed
<1>10. BoughtShown(h)
  BY <1>2, <1>4 DEF BoughtShown, OpenFound, Found, BuyPlace, BookedBut, Buying
<1> QED
  BY <1>3, <1>4, <1>7, <1>8, <1>9, <1>10, CardShowsIsEnough DEF CardShows

LEMMA BuyCallbackKeeps == ASSUME CardIInv, NEW h \in Handlers, BuyCallback(h) PROVE CardIInv'
<1>1. PICK i \in Purchases : bought[i].state # "none" /\ Take(h, i, bought[i].sendId)
  BY DEF BuyCallback
<1>2. /\ Deliver(h, "capture") /\ begun' = begun
      /\ UNCHANGED <<token, renewed, cardRow, tokens, enrolled, bought, entries>>
  BY DEF BuyCallback, KeepToken
<1>3. "capture" \in CardLabels
  BY DEF CardLabels
<1>4. /\ CardLabelsOK' /\ MovesTo(h, "capture") /\ at'[h] = "capture"
      /\ ~overlapped' => OnlyOne(h) /\ \A j \in Purchases : entries[j] <= 1
      /\ CalmCard' => Confirmed
      /\ CalmCard' /\ ~renewed => OpenFound /\ BookedBut(0)
  BY <1>2, <1>3, DeliversAlone
<1>5. i \in Nat /\ bought[i].sendId \in Token
  BY DEF CardIInv, CardRowsOK, Purchases
<1>6. /\ turn'[h].id = i /\ turn'[h].sendId = bought[i].sendId
      /\ turn' \in [Handlers -> Turn] /\ \A g \in Handlers \ {h} : turn'[g] = turn[g]
  BY <1>1, <1>5, Takes DEF CardIInv
<1>7. RowsShown(h)
  BY <1>2, <1>4, <1>6 DEF CardIInv, CardRowsOK, RowsShown, KnowsTurn, Buying, Registering
<1>8. LoneShown(h)
  BY <1>2, <1>4 DEF LoneShown, KnowsUnbooked
<1>9. CardShown(h)
  BY <1>2, <1>4 DEF CardShown, CardPlace, Confirmed
<1>10. BoughtShown(h)
  BY <1>1, <1>2, <1>4, <1>6 DEF BoughtShown, OpenFound, Found, BuyPlace, BookedBut, Buying
<1> QED
  BY <1>3, <1>4, <1>7, <1>8, <1>9, <1>10, CardShowsIsEnough DEF CardShows

LEMMA CardDieKeeps == ASSUME CardIInv, NEW h \in Handlers, CardDie(h) PROVE CardIInv'
<1>1. /\ Refused(h, "idle") /\ at[h] # "idle" /\ turn' = [turn EXCEPT ![h] = NoTurn]
      /\ UNCHANGED <<token, renewed, cardRow, tokens, enrolled, bought, entries>>
  BY DEF CardDie, Die, KeepToken
<1>2. "idle" \in CardLabels
  BY DEF CardLabels
<1>3. /\ CardLabelsOK' /\ MovesTo(h, "idle") /\ at'[h] = "idle"
      /\ faults' = faults + 1 /\ overlapped' = overlapped /\ (~overlapped => OnlyOne(h))
  BY <1>1, <1>2, RefusedMoves DEF CardIInv, CardLabelsOK, MovesTo
<1>4. ~CalmCard'
  BY <1>3 DEF CardIInv, CardLabelsOK, Bounded, CalmCard
<1>5. NoTurn \in Turn
  BY DEF NoTurn, NoToken, Turn, Token
<1>6. RowsShown(h)
  BY <1>1, <1>3, <1>5 DEF CardIInv, CardRowsOK, RowsShown, KnowsTurn, Buying, Registering
<1>7. LoneShown(h)
  BY <1>1, <1>3 DEF CardIInv, LoneCard, LoneShown, KnowsUnbooked
<1> QED
  BY <1>2, <1>3, <1>4, <1>6, <1>7, CardShowsIsEnough DEF CardShows, CardShown, BoughtShown

-----------------------------------------------------------------------------
(* The theorems *)

\* Every step keeps the invariant.
LEMMA NextCard == CardIInv /\ [CardNext]_<<handlerVars, cardVars>> => CardIInv'
<1> SUFFICES ASSUME CardIInv, [CardNext]_<<handlerVars, cardVars>> PROVE CardIInv'
  OBVIOUS
<1>1. CASE CardNext
  BY <1>1, CardStepKeeps, RegisterCardKeeps, MakeChargeKeeps, RegistrationCallbackKeeps,
     BuyCallbackKeeps, CardDieKeeps DEF CardNext, CardStep
<1>2. CASE UNCHANGED <<handlerVars, cardVars>>
  <2>1. UNCHANGED <<at, begun, faults, overlapped, token, cardRow, tokens, enrolled, bought, entries,
                    renewed, turn>>
    BY <1>2 DEF handlerVars, cardVars
  <2>2. CardLabelsOK' /\ CardRowsOK' /\ \A h \in Handlers : KnowsTurn(h)'
    BY <2>1 DEF CardIInv, CardLabelsOK, Bounded, Sequential, OnlyOne, CardRowsOK, KnowsTurn
  <2>3. LoneCard'
    BY <2>1 DEF CardIInv, LoneCard, KnowsUnbooked
  <2>4. CalmCardInv'
    BY <2>1 DEF CardIInv, CalmCardInv, CalmCard, AtRest, Confirmed, CardPlace, OpenFound, Found,
                BookedBut, BuyPlace
  <2> QED
    BY <2>2, <2>3, <2>4 DEF CardIInv
<1> QED
  BY <1>1, <1>2

\* The invariant holds in every behaviour.
THEOREM CardInvariant == CardSpec => []CardIInv
<1>1. CardInit => CardIInv
  BY InitCard
<1>2. CardIInv /\ [CardNext]_<<handlerVars, cardVars>> => CardIInv'
  BY NextCard
<1> QED
  BY <1>1, <1>2, PTL DEF CardSpec

\* Every variable of the card payments keeps its type, whoever crashes.
THEOREM CardTypes == CardSpec => []CardTypeOK
<1>1. CardIInv => CardTypeOK
  BY DEF CardIInv, CardLabelsOK, CardRowsOK, CardTypeOK
<1> QED
  BY <1>1, CardInvariant, PTL

\* As long as callbacks do not overlap a purchase is booked once, whoever dies
\* and however often the gateway calls.
THEOREM CardBookedOnce == CardSpec => []BookedOnce
<1>1. CardIInv => BookedOnce
  BY DEF CardIInv, LoneCard, BookedOnce
<1> QED
  BY <1>1, CardInvariant, PTL

\* Money that was captured is booked, unless the guest's token has changed.
THEOREM CardCapturedIsBooked == CardSpec => []CapturedIsBooked
<1>1. CardIInv => CapturedIsBooked
  <2> SUFFICES ASSUME CardIInv, Undisturbed, ~renewed,
                      NEW i \in Purchases, bought[i].state = "captured"
               PROVE  entries[i] > 0
    BY DEF CapturedIsBooked
  <2>1. BookedBut(0)
    BY DEF CardIInv, CalmCardInv, CalmCard, Undisturbed
  <2>2. i # 0
    BY DEF Purchases
  <2> QED
    BY <2>1, <2>2 DEF BookedBut
<1> QED
  BY <1>1, CardInvariant, PTL

\* A card is valid exactly when the token of the latest registration is confirmed.
THEOREM CardValidIsConfirmed == CardSpec => []CardIsConfirmed
<1>1. CardIInv => CardIsConfirmed
  BY DEF CardIInv, CalmCardInv, CalmCard, Undisturbed, Confirmed, CardIsConfirmed
<1> QED
  BY <1>1, CardInvariant, PTL

-----------------------------------------------------------------------------
(* Gifts *)

GiftLabels ==
    {"idle", "topUp", "gatewayTopUp", "creditTopUp", "give", "sell",
     "findRoll", "newRoll", "pickRoll", "payRoll", "prize", "closeRoll",
     "countToday", "recipientToday", "giveEvent", "reward"}

GiftRead == [n : Nat, to : Recipients \cup {"nobody"}]

GiftRowsOK ==
    /\ wallet \in Int /\ handed \in Nat /\ sold \in Nat
    /\ rolls \in [Rolls -> {"none", "pending", "done"}]
    /\ fees \in [Rolls -> Nat] /\ prizes \in [Rolls -> Nat]
    /\ today \in [Recipients -> Nat] /\ earlier \in Nat /\ rewarded \in Nat
    /\ gift \in [Handlers -> GiftRead]

GiftLabelsOK == at \in [Handlers -> GiftLabels] /\ Bounded /\ Sequential

\* A roll that is paid for is one of the rolls, a gift goes to a recipient.
KnowsGift(h) ==
    /\ at[h] \in {"payRoll", "prize", "closeRoll"} => gift[h].n \in Rolls
    /\ at[h] \in {"countToday", "recipientToday", "giveEvent", "reward"} => gift[h].to \in Recipients

\* Gifts handed over for which a handler at l is about to charge the guest, and
\* campaign gifts it is about to reward.
Owed(l) == IF l = "sell" THEN 1 ELSE 0
Due(l)  == IF l = "reward" THEN 1 ELSE 0

\* The wallet and the gifts, while a handler at l that has read g is the only one.
DebtFacts(l, g) ==
    /\ handed > 0 \/ (\E i \in Rolls : fees[i] > 0) => wallet >= 0
    /\ handed - sold - Owed(l) \in 0..faults
    /\ l \in {"give", "sell"} => wallet >= GiftPrice
    /\ l \in {"gatewayTopUp", "creditTopUp"} => wallet >= 0 /\ wallet + g.n >= GiftPrice
    /\ l \in {"pickRoll", "payRoll"} => wallet >= RollFee

\* The rolls; the used ones are the first n.
RollFacts(l, g) ==
    /\ \A i, j \in Rolls : rolls[i] = "pending" /\ rolls[j] = "pending" => i = j
    /\ l = "newRoll" => \A i \in Rolls : rolls[i] # "pending"
    /\ l \in {"payRoll", "prize", "closeRoll"} => rolls[g.n] = "pending"
    /\ \A i \in Rolls :
          /\ fees[i] = IF rolls[i] = "done" \/ (l \in {"prize", "closeRoll"} /\ g.n = i)
                       THEN 1 ELSE 0
          /\ prizes[i] = IF rolls[i] = "done" \/ (l = "closeRoll" /\ g.n = i) THEN 1 ELSE 0

UsedRolls(n) == \A i \in Rolls : (rolls[i] # "none") <=> (i <= n)
RollsLeft(l) == \E n \in 0..begun : UsedRolls(n) /\ (l # "idle" => n < begun)

\* The rewards of the first n gifts.
RewardsOf(n) == IF Milestone = 0 \/ n < Milestone THEN n * Reward ELSE 2 * n * Reward
RewardFacts(l) ==
    LET n == earlier + HandedToday
    IN  n >= Due(l) /\ rewarded = RewardsOf(n - Due(l))

GiftFacts(l, g) ==
    /\ DebtFacts(l, g)
    /\ faults = 0 => RollFacts(l, g) /\ RollsLeft(l) /\ RewardFacts(l)

\* What a handler relies on while it is the only one, and what the next one finds.
GiftLone ==
    ~overlapped =>
        /\ AtRest => GiftFacts("idle", NoGift)
        /\ \A h \in Handlers : at[h] # "idle" => GiftFacts(at[h], gift[h])

GiftIInv ==
    /\ GiftLabelsOK /\ GiftRowsOK
    /\ \A h \in Handlers : KnowsGift(h)
    /\ GiftLone

-----------------------------------------------------------------------------
(* Amounts *)

\* A charge covers what is asked for.
LEMMA ChargedCovers ==
  ASSUME NEW n \in Nat \ {0}
  PROVE  Charged(n) \in Nat /\ Charged(n) >= n
<1>1. ChargeUnit \in Nat \ {0}
  BY ChargeUnitAssumption
<1> DEFINE u == ChargeUnit
           q == (n + u - 1) \div u
<1>2. q \in Nat /\ u * q <= n + u - 1 /\ n + u - 1 < u * (q + 1)
  BY <1>1
<1> HIDE DEF q
<1>3. u * (q + 1) = u * q + u /\ u * q \in Nat
  BY <1>1, <1>2
<1>4. Charged(n) = u * q
  BY DEF Charged, q
<1> QED
  BY <1>1, <1>2, <1>3, <1>4

LEMMA TodayIsSum == HandedToday = SumOver(today, DOMAIN today)
BY Zenon DEF HandedToday, FoldFunction, SumOver

LEMMA TodayIsSumNext == HandedToday' = SumOver(today', DOMAIN today')
<1>1. (HandedToday = SumOver(today, DOMAIN today))'
  BY TodayIsSum, PTL
<1> QED
  BY <1>1

\* The gifts of today are counted recipient by recipient.
LEMMA HandedTodayIsSum ==
  ASSUME GiftRowsOK
  PROVE  /\ IsFiniteSet(Recipients) /\ HandedToday = SumOver(today, Recipients)
         /\ HandedToday \in Nat
<1>1. IsFiniteSet(Recipients)
  BY GiftAssumption
<1>2. DOMAIN today = Recipients /\ \A r \in Recipients : today[r] \in Nat
  BY DEF GiftRowsOK
<1>3. HandedToday = SumOver(today, DOMAIN today)
  BY TodayIsSum
<1>4. SumOver(today, Recipients) \in Nat
  BY <1>1, <1>2, SumNat
<1> QED
  BY <1>1, <1>2, <1>3, <1>4

\* One more gift for r.
LEMMA OneMoreToday ==
  ASSUME GiftRowsOK, NEW r \in Recipients, today' = [today EXCEPT ![r] = today[r] + 1]
  PROVE  today' \in [Recipients -> Nat] /\ HandedToday' = HandedToday + 1
<1>1. PICK f, g : f = today /\ g = today'
  OBVIOUS
<1>2. f \in [Recipients -> Nat] /\ g = [f EXCEPT ![r] = f[r] + 1]
  BY <1>1 DEF GiftRowsOK
<1>3. /\ g \in [Recipients -> Nat] /\ g[r] = f[r] + 1 /\ f[r] \in Nat
      /\ \A s \in Recipients \ {r} : g[s] = f[s]
      /\ \A s \in Recipients : f[s] \in Int /\ g[s] \in Int
  BY <1>2
<1>4. IsFiniteSet(Recipients) /\ SumOver(f, Recipients) \in Int /\ SumOver(g, Recipients) \in Int
  BY <1>3, SumInt, GiftAssumption
<1>5. SumOver(g, Recipients) = SumOver(f, Recipients) - f[r] + g[r]
  BY <1>3, <1>4, SumUpdate
<1>6. HandedToday = SumOver(f, Recipients)
  BY <1>1, HandedTodayIsSum
<1>7. HandedToday' = SumOver(g, Recipients)
  BY <1>1, <1>3, TodayIsSumNext
<1> QED
  BY <1>1, <1>3, <1>4, <1>5, <1>6, <1>7

\* The reward of the n-th gift is what the first n are worth more.
LEMMA RewardsGrow ==
  ASSUME NEW n \in Nat \ {0}
  PROVE  RewardsOf(n) = RewardsOf(n - 1) + RewardFor(n)
<1>1. Milestone \in Nat /\ Reward \in Nat
  BY GiftAssumption
<1>2. (n - 1) * Reward = n * Reward - Reward /\ n * Reward \in Nat
  BY <1>1
<1>3. 2 * (n - 1) * Reward = 2 * (n * Reward) - 2 * Reward /\ 2 * n * Reward = 2 * (n * Reward)
  BY <1>1, <1>2
<1>4. CASE Milestone = 0 \/ n < Milestone
  BY <1>1, <1>2, <1>4 DEF RewardsOf, RewardFor
<1>5. CASE Milestone # 0 /\ n = Milestone
  <2>1. RewardFor(n) = Reward + Reward * n /\ Reward * n = n * Reward
    BY <1>1, <1>5 DEF RewardFor
  <2>2. RewardsOf(n - 1) = (n - 1) * Reward /\ RewardsOf(n) = 2 * n * Reward
    BY <1>1, <1>5 DEF RewardsOf
  <2> QED
    BY <1>1, <1>2, <1>3, <2>1, <2>2
<1>6. CASE Milestone # 0 /\ n > Milestone
  <2>1. RewardFor(n) = 2 * Reward
    BY <1>1, <1>6 DEF RewardFor
  <2>2. RewardsOf(n - 1) = 2 * (n - 1) * Reward /\ RewardsOf(n) = 2 * n * Reward
    BY <1>1, <1>6 DEF RewardsOf
  <2> QED
    BY <1>1, <1>2, <1>3, <2>1, <2>2
<1> QED
  BY <1>1, <1>4, <1>5, <1>6
-----------------------------------------------------------------------------
(* Steps *)

\* h has gone to l and holds g now.
Holds(h, l, g) ==
    /\ MovesTo(h, l) /\ GiftLabelsOK' /\ GiftRowsOK'
    /\ gift'[h] = g /\ \A k \in Handlers \ {h} : gift'[k] = gift[k]

\* A step to l with g that is shown to keep what h relies on keeps the invariant.
LEMMA GiftShows ==
  ASSUME GiftIInv, NEW h \in Handlers, NEW l, NEW g, Holds(h, l, g), KnowsGift(h)',
         ~overlapped' => OnlyOne(h) /\ GiftFacts(l, g)'
  PROVE  GiftIInv'
<1>1. \A k \in Handlers : KnowsGift(k)'
  BY DEF GiftIInv, KnowsGift, Holds, MovesTo
<1>2. GiftLone'
  <2> SUFFICES ASSUME ~overlapped'
               PROVE  /\ AtRest' => GiftFacts("idle", NoGift)'
                      /\ \A k \in Handlers : at'[k] # "idle" => GiftFacts(at[k], gift[k])'
    BY DEF GiftLone
  <2>1. at'[h] = l /\ gift'[h] = g /\ \A k \in Handlers \ {h} : at'[k] = "idle"
    BY DEF Holds, MovesTo, OnlyOne
  <2>2. AtRest' => l = "idle"
    BY <2>1 DEF AtRest, Idle
  <2>3. GiftFacts("idle", g)' => GiftFacts("idle", NoGift)'
    BY DEF GiftFacts, DebtFacts, RollFacts
  <2>4. GiftFacts(at[h], gift[h])'
    BY <2>1
  <2> QED
    BY <2>1, <2>2, <2>3, <2>4
<1> QED
  BY <1>1, <1>2 DEF GiftIInv, Holds

\* A handler that goes on: it knows what it relied on.
LEMMA GiftContinues ==
  ASSUME GiftIInv, NEW h \in Handlers, NEW l \in GiftLabels, Continue(h, l), at[h] # "idle"
  PROVE  /\ GiftLabelsOK' /\ MovesTo(h, l)
         /\ begun' = begun /\ faults' = faults /\ overlapped' = overlapped
         /\ ~overlapped' => OnlyOne(h) /\ GiftFacts(at[h], gift[h])
<1>1. at \in [Handlers -> GiftLabels] /\ Bounded /\ Sequential
  BY DEF GiftIInv, GiftLabelsOK
<1>2. /\ at' \in [Handlers -> GiftLabels] /\ Bounded' /\ Sequential' /\ MovesTo(h, l)
      /\ begun' = begun /\ faults' = faults /\ overlapped' = overlapped
      /\ ~overlapped => OnlyOne(h)
  BY <1>1, ContinueMoves
<1> QED
  BY <1>2 DEF GiftIInv, GiftLabelsOK, GiftLone

\* A request that begins finds what the last one left.
LEMMA GiftBegins ==
  ASSUME GiftIInv, NEW h \in Handlers, NEW l \in GiftLabels, Begin(h, l)
  PROVE  /\ GiftLabelsOK' /\ MovesTo(h, l) /\ begun \in Nat
         /\ begun' = begun + 1 /\ faults' = faults
         /\ ~overlapped' => OnlyOne(h) /\ GiftFacts("idle", NoGift)
<1>1. at \in [Handlers -> GiftLabels] /\ Bounded /\ Sequential
  BY DEF GiftIInv, GiftLabelsOK
<1>2. /\ at' \in [Handlers -> GiftLabels] /\ Bounded' /\ Sequential' /\ MovesTo(h, l)
      /\ begun' = begun + 1 /\ faults' = faults
      /\ ~overlapped' => ~overlapped /\ AtRest
  BY <1>1, BeginMoves
<1>3. AtRest => OnlyOne(h)
  BY DEF AtRest, Idle, OnlyOne
<1>4. begun \in Nat
  BY <1>1 DEF Bounded
<1> QED
  BY <1>2, <1>3, <1>4 DEF GiftIInv, GiftLabelsOK, GiftLone

\* A step that reads, and holds g next.
LEMMA GiftHolds ==
  ASSUME GiftRowsOK, GiftReads, NEW h \in Handlers, NEW l, NEW g \in GiftRead,
         GiftLabelsOK', MovesTo(h, l), gift' = [gift EXCEPT ![h] = g]
  PROVE  Holds(h, l, g)
BY DEF GiftRowsOK, GiftReads, SalesSame, RouletteSame, CampaignSame, Holds

LEMMA NoGiftIsRead == NoGift \in GiftRead /\ NoGift = [n |-> 0, to |-> "nobody"]
BY DEF NoGift, GiftRead

-----------------------------------------------------------------------------
(* What a step is not about *)

RollLabels == {"newRoll", "payRoll", "prize", "closeRoll"}

\* The rolls stay: a handler that goes on, ends or begins relies on them as before.
LEMMA RouletteStays ==
  ASSUME RouletteSame, NEW k, NEW l, NEW g, NEW f, k \notin RollLabels, l \notin RollLabels,
         RollFacts(k, g), RollsLeft(k), begun \in Nat,
         \/ begun' = begun /\ (l # "idle" => k # "idle")
         \/ begun' = begun + 1
  PROVE  RollFacts(l, f)' /\ RollsLeft(l)'
<1>1. RollFacts(l, f)'
  BY DEF RouletteSame, RollFacts, RollLabels
<1>2. RollsLeft(l)'
  <2>1. PICK n \in 0..begun : UsedRolls(n) /\ (k # "idle" => n < begun)
    BY DEF RollsLeft
  <2>2. UsedRolls(n)' /\ n \in 0..begun' /\ (l # "idle" => n < begun')
    BY <2>1 DEF UsedRolls, RouletteSame
  <2> QED
    BY <2>2 DEF RollsLeft
<1> QED
  BY <1>1, <1>2

\* The campaign stays.
LEMMA CampaignStays ==
  ASSUME CampaignSame, NEW k, NEW l, k # "reward", l # "reward", RewardFacts(k)
  PROVE  RewardFacts(l)'
<1>1. HandedToday' = HandedToday
  BY TodayIsSum, TodayIsSumNext DEF CampaignSame
<1>2. (earlier + HandedToday)' = earlier + HandedToday /\ rewarded' = rewarded
  BY <1>1 DEF CampaignSame
<1> QED
  BY <1>2 DEF RewardFacts, Due

\* The wallet and what is paid from it stay.
LEMMA DebtStays ==
  ASSUME SalesSame, wallet' = wallet, fees' = fees, faults' = faults,
         NEW k, NEW l, NEW g, NEW f, DebtFacts(k, g),
         k # "sell", l \notin {"gatewayTopUp", "creditTopUp", "give", "sell", "pickRoll", "payRoll"}
  PROVE  DebtFacts(l, f)'
BY DEF DebtFacts, SalesSame, Owed

\* A handler goes on, and what it relied on gives what it relies on now.
LEMMA GiftGoesOn ==
  ASSUME GiftIInv, NEW h \in Handlers, NEW l \in GiftLabels, NEW g \in GiftRead,
         Continue(h, l), at[h] # "idle",
         gift' = [gift EXCEPT ![h] = g], GiftRowsOK', KnowsGift(h)',
         GiftFacts(at[h], gift[h]) => GiftFacts(l, g)'
  PROVE  GiftIInv'
<1>1. /\ GiftLabelsOK' /\ MovesTo(h, l) /\ overlapped' = overlapped
      /\ ~overlapped' => OnlyOne(h) /\ GiftFacts(at[h], gift[h])
  BY GiftContinues
<1>2. gift \in [Handlers -> GiftRead]
  BY DEF GiftIInv, GiftRowsOK
<1>3. Holds(h, l, g)
  BY <1>1, <1>2 DEF Holds
<1> QED
  BY <1>1, <1>3, GiftShows

\* The same for a step about neither the rolls nor the campaign.
LEMMA SaleGoesOn ==
  ASSUME GiftIInv, NEW h \in Handlers, NEW l \in GiftLabels, NEW g \in GiftRead,
         Continue(h, l), at[h] \notin RollLabels \cup {"idle", "reward"},
         l \notin RollLabels \cup {"countToday", "recipientToday", "giveEvent", "reward"},
         gift' = [gift EXCEPT ![h] = g], RouletteSame, CampaignSame,
         wallet' \in Int, handed' \in Nat, sold' \in Nat,
         DebtFacts(at[h], gift[h]) => DebtFacts(l, g)'
  PROVE  GiftIInv'
<1>1. begun' = begun /\ faults' = faults /\ begun \in Nat /\ at'[h] = l
  BY GiftContinues DEF GiftIInv, GiftLabelsOK, Bounded, MovesTo
<1>2. GiftRowsOK'
  BY DEF GiftIInv, GiftRowsOK, RouletteSame, CampaignSame
<1>3. KnowsGift(h)'
  BY <1>1 DEF KnowsGift, RollLabels
<1>4. GiftFacts(at[h], gift[h]) => GiftFacts(l, g)'
  <2>1. RollFacts(at[h], gift[h]) /\ RollsLeft(at[h]) => RollFacts(l, g)' /\ RollsLeft(l)'
    BY <1>1, RouletteStays
  <2>2. RewardFacts(at[h]) => RewardFacts(l)'
    BY CampaignStays
  <2> QED
    BY <1>1, <2>1, <2>2 DEF GiftFacts
<1> QED
  BY <1>2, <1>3, <1>4, GiftGoesOn DEF RollLabels

\* A request that begins: it finds what the last one left.
LEMMA GiftRequest ==
  ASSUME GiftIInv, NEW h \in Handlers, NEW l \in GiftLabels, NEW g \in GiftRead,
         Begin(h, l), l \notin RollLabels \cup {"gatewayTopUp", "creditTopUp", "give", "sell",
                                               "payRoll", "reward"},
         gift' = [gift EXCEPT ![h] = g], RouletteSame, CampaignSame, SalesSame, KnowsGift(h)',
         wallet' \in Int, wallet' = wallet \/ wallet' >= 0, l = "pickRoll" => wallet' >= RollFee
  PROVE  GiftIInv'
<1>1. /\ GiftLabelsOK' /\ MovesTo(h, l) /\ begun \in Nat
      /\ begun' = begun + 1 /\ faults' = faults
      /\ ~overlapped' => OnlyOne(h) /\ GiftFacts("idle", NoGift)
  BY GiftBegins
<1>2. GiftRowsOK' /\ gift \in [Handlers -> GiftRead]
  BY DEF GiftIInv, GiftRowsOK, RouletteSame, CampaignSame, SalesSame
<1>3. Holds(h, l, g)
  BY <1>1, <1>2 DEF Holds
<1>4. GiftFacts("idle", NoGift) => GiftFacts(l, g)'
  <2>1. DebtFacts("idle", NoGift) => DebtFacts(l, g)'
    BY <1>1 DEF DebtFacts, SalesSame, RouletteSame, Owed, RollLabels
  <2>2. RollFacts("idle", NoGift) /\ RollsLeft("idle") => RollFacts(l, g)' /\ RollsLeft(l)'
    BY <1>1, RouletteStays DEF RollLabels
  <2>3. RewardFacts("idle") => RewardFacts(l)'
    BY CampaignStays
  <2> QED
    BY <1>1, <2>1, <2>2, <2>3 DEF GiftFacts
<1> QED
  BY <1>1, <1>3, <1>4, GiftShows

-----------------------------------------------------------------------------
(* The actions *)

LEMMA GiftBeginnings ==
  ASSUME GiftIInv, NEW h \in Handlers,
         \/ PurchaseSticker(h) \/ OpenRoulette(h) \/ PayForPrize(h) \/ PurchaseEventGift(h)
         \/ SpendGiftMoney(h)
  PROVE  GiftIInv'
<1> USE DEF GiftLabels, RollLabels, GiftReads
<1>0. /\ gift \in [Handlers -> GiftRead] /\ wallet \in Int /\ gift[h] \in GiftRead
      /\ gift = [gift EXCEPT ![h] = gift[h]]
  BY DEF GiftIInv, GiftRowsOK
<1>1. ASSUME NEW l, Begin(h, l) PROVE at'[h] = l
  BY <1>1 DEF Begin, Deliver, Goto, GiftIInv, GiftLabelsOK
<1>2. CASE PurchaseSticker(h)
  BY <1>0, <1>1, <1>2, GiftRequest DEF PurchaseSticker, KnowsGift
<1>3. CASE OpenRoulette(h)
  BY <1>0, <1>1, <1>3, GiftRequest DEF OpenRoulette, KnowsGift
<1>4. CASE PayForPrize(h)
  BY <1>0, <1>1, <1>4, GiftRequest DEF PayForPrize, KnowsGift
<1>5. CASE PurchaseEventGift(h)
  <2>1. PICK r \in Recipients : gift' = [gift EXCEPT ![h] = [n |-> 0, to |-> r]]
    BY <1>5 DEF PurchaseEventGift, Hold
  <2>2. [n |-> 0, to |-> r] \in GiftRead
    BY DEF GiftRead
  <2>3. KnowsGift(h)'
    BY <1>0, <1>1, <1>5, <2>1 DEF PurchaseEventGift, KnowsGift
  <2> QED
    BY <1>0, <1>1, <1>5, <2>1, <2>2, <2>3, GiftRequest DEF PurchaseEventGift
<1>6. CASE SpendGiftMoney(h)
  BY <1>0, <1>1, <1>6, GiftRequest DEF SpendGiftMoney, KnowsGift
<1> QED
  BY <1>2, <1>3, <1>4, <1>5, <1>6

\* The guest buys a gift.
LEMMA GiftSales ==
  ASSUME GiftIInv, NEW h \in Handlers,
         \/ PrepareStickerFinances(h) \/ TopUpAccepted(h) \/ TopUpRefused(h) \/ CreditTopUp(h)
         \/ GiveSticker(h) \/ CreateStickerTransactions(h)
  PROVE  GiftIInv'
<1> USE DEF GiftLabels, RollLabels, GiftReads
<1>0. /\ gift \in [Handlers -> GiftRead] /\ gift[h] \in GiftRead /\ gift[h].n \in Nat
      /\ gift = [gift EXCEPT ![h] = gift[h]] /\ NoGift \in GiftRead
      /\ wallet \in Int /\ handed \in Nat /\ sold \in Nat /\ faults \in Nat
      /\ GiftPrice \in Nat \ {0} /\ RollFee \in Nat
  BY GiftAssumption, NoGiftIsRead
     DEF GiftIInv, GiftRowsOK, GiftRead, GiftLabelsOK, Bounded
<1>1. ASSUME NEW l, Continue(h, l) PROVE faults' = faults
  BY <1>1 DEF Continue
<1>2. ASSUME GiftDone(h) PROVE Continue(h, "idle") /\ gift' = [gift EXCEPT ![h] = NoGift]
  BY <1>2 DEF GiftDone, End, Hold, NoGift
<1>3. CASE PrepareStickerFinances(h)
  <2>1. at[h] = "topUp" /\ SalesSame /\ RouletteSame /\ CampaignSame /\ wallet' = wallet
    BY <1>3 DEF PrepareStickerFinances
  <2>2. CASE wallet < 0
    <3>1. Continue(h, "idle") /\ gift' = [gift EXCEPT ![h] = NoGift] /\ faults' = faults
      BY <1>1, <1>2, <1>3, <2>2 DEF PrepareStickerFinances
    <3>2. DebtFacts(at[h], gift[h]) => DebtFacts("idle", NoGift)'
      BY <1>0, <2>1, <3>1 DEF DebtFacts, SalesSame, RouletteSame, Owed
    <3> QED
      BY <1>0, <2>1, <3>1, <3>2, SaleGoesOn DEF SalesSame
  <2>3. CASE wallet >= GiftPrice
    <3>1. Continue(h, "give") /\ gift' = gift /\ faults' = faults
      BY <1>0, <1>1, <1>3, <2>3 DEF PrepareStickerFinances
    <3>2. DebtFacts(at[h], gift[h]) => DebtFacts("give", gift[h])'
      BY <1>0, <2>1, <2>3, <3>1 DEF DebtFacts, SalesSame, RouletteSame, Owed
    <3> QED
      BY <1>0, <2>1, <3>1, <3>2, SaleGoesOn DEF SalesSame
  <2>4. CASE wallet >= 0 /\ wallet < GiftPrice
    <3> DEFINE g == [n |-> Charged(GiftPrice - wallet), to |-> "nobody"]
    <3>1. Continue(h, "gatewayTopUp") /\ gift' = [gift EXCEPT ![h] = g] /\ faults' = faults
      BY <1>0, <1>1, <1>3, <2>4 DEF PrepareStickerFinances, Hold
    <3>2. g \in GiftRead /\ g.n >= GiftPrice - wallet
      BY <1>0, <2>4, ChargedCovers DEF GiftRead
    <3> PICK f \in GiftRead : f = g
      BY <3>2
    <3> HIDE DEF g
    <3>3. DebtFacts(at[h], gift[h]) => DebtFacts("gatewayTopUp", f)'
      BY <1>0, <2>1, <2>4, <3>1, <3>2 DEF DebtFacts, SalesSame, RouletteSame, Owed, GiftRead
    <3> QED
      BY <1>0, <2>1, <3>1, <3>3, SaleGoesOn DEF SalesSame
  <2> QED
    BY <1>0, <2>2, <2>3, <2>4
<1>4. CASE TopUpAccepted(h)
  <2>1. /\ at[h] = "gatewayTopUp" /\ SalesSame /\ RouletteSame /\ CampaignSame /\ wallet' = wallet
        /\ Continue(h, "creditTopUp") /\ gift' = gift /\ faults' = faults
    BY <1>1, <1>4 DEF TopUpAccepted
  <2>2. DebtFacts(at[h], gift[h]) => DebtFacts("creditTopUp", gift[h])'
    BY <1>0, <2>1 DEF DebtFacts, SalesSame, RouletteSame, Owed
  <2> QED
    BY <1>0, <2>1, <2>2, SaleGoesOn DEF SalesSame
<1>5. CASE TopUpRefused(h)
  <2>1. /\ at[h] = "gatewayTopUp" /\ SalesSame /\ RouletteSame /\ CampaignSame /\ wallet' = wallet
        /\ Continue(h, "idle") /\ gift' = [gift EXCEPT ![h] = NoGift] /\ faults' = faults
    BY <1>1, <1>2, <1>5 DEF TopUpRefused
  <2>2. DebtFacts(at[h], gift[h]) => DebtFacts("idle", NoGift)'
    BY <1>0, <2>1 DEF DebtFacts, SalesSame, RouletteSame, Owed
  <2> QED
    BY <1>0, <2>1, <2>2, SaleGoesOn DEF SalesSame
<1>6. CASE CreditTopUp(h)
  <2>1. /\ at[h] = "creditTopUp" /\ SalesSame /\ RouletteSame /\ CampaignSame
        /\ wallet' = wallet + gift[h].n /\ wallet' \in Int
        /\ Continue(h, "give") /\ gift' = gift /\ faults' = faults
    BY <1>0, <1>1, <1>6 DEF CreditTopUp
  <2>2. DebtFacts(at[h], gift[h]) => DebtFacts("give", gift[h])'
    BY <1>0, <2>1 DEF DebtFacts, SalesSame, RouletteSame, Owed
  <2> QED
    BY <1>0, <2>1, <2>2, SaleGoesOn DEF SalesSame
<1>7. CASE GiveSticker(h)
  <2>1. /\ at[h] = "give" /\ sold' = sold /\ RouletteSame /\ CampaignSame
        /\ wallet' = wallet /\ handed' = handed + 1
        /\ Continue(h, "sell") /\ gift' = gift /\ faults' = faults
    BY <1>1, <1>7 DEF GiveSticker
  <2>2. DebtFacts(at[h], gift[h]) => DebtFacts("sell", gift[h])'
    BY <1>0, <2>1 DEF DebtFacts, RouletteSame, Owed
  <2> QED
    BY <1>0, <2>1, <2>2, SaleGoesOn
<1>8. CASE CreateStickerTransactions(h)
  <2>1. /\ at[h] = "sell" /\ handed' = handed /\ RouletteSame /\ CampaignSame
        /\ wallet' = wallet - GiftPrice /\ sold' = sold + 1
        /\ wallet' \in Int /\ handed' \in Nat /\ sold' \in Nat
        /\ Continue(h, "idle") /\ gift' = [gift EXCEPT ![h] = NoGift] /\ faults' = faults
    BY <1>0, <1>1, <1>2, <1>8 DEF CreateStickerTransactions
  <2>2. DebtFacts(at[h], gift[h]) => DebtFacts("idle", NoGift)'
    BY <1>0, <2>1 DEF DebtFacts, RouletteSame, Owed
  <2> QED
    BY <1>0, <2>1, <2>2, SaleGoesOn
<1> QED
  BY <1>3, <1>4, <1>5, <1>6, <1>7, <1>8

\* What each step of the roulette shows about the rolls and what is paid for them.
LEMMA RouletteGoesOn ==
  ASSUME GiftIInv, NEW h \in Handlers, NEW l \in GiftLabels, NEW g \in GiftRead,
         Continue(h, l), at[h] \in {"findRoll", "pickRoll"} \cup RollLabels,
         l \in RollLabels \cup {"idle"}, SalesSame, CampaignSame,
         gift' = [gift EXCEPT ![h] = g], GiftRowsOK', KnowsGift(h)',
         DebtFacts(at[h], gift[h]) => DebtFacts(l, g)',
         RollFacts(at[h], gift[h]) /\ RollsLeft(at[h]) => RollFacts(l, g)' /\ RollsLeft(l)'
  PROVE  GiftIInv'
<1>1. faults' = faults
  BY DEF Continue
<1>2. RewardFacts(at[h]) => RewardFacts(l)'
  BY CampaignStays DEF RollLabels
<1>3. GiftFacts(at[h], gift[h]) => GiftFacts(l, g)'
  BY <1>1, <1>2 DEF GiftFacts
<1>4. at[h] # "idle"
  BY DEF RollLabels
<1> QED
  BY <1>3, <1>4, GiftGoesOn

\* A roll is looked for, opened and taken.
LEMMA GiftRolls ==
  ASSUME GiftIInv, NEW h \in Handlers, FindRoll(h) \/ CreateRoll(h) \/ PickRoll(h)
  PROVE  GiftIInv'
<1> USE DEF GiftLabels, RollLabels
<1>0. /\ gift \in [Handlers -> GiftRead] /\ gift[h] \in GiftRead
      /\ gift = [gift EXCEPT ![h] = gift[h]] /\ NoGift \in GiftRead
      /\ at \in [Handlers -> GiftLabels] /\ begun \in 0..MaxRequests /\ MaxRequests \in Nat
      /\ rolls \in [Rolls -> {"none", "pending", "done"}]
  BY NoGiftIsRead, HandlerBoundAssumption DEF GiftIInv, GiftRowsOK, GiftLabelsOK, Bounded
<1>1. ASSUME NEW l, Continue(h, l) PROVE faults' = faults /\ begun' = begun /\ at'[h] = l
  BY <1>0, <1>1 DEF Continue, Goto
<1>2. ASSUME GiftDone(h) PROVE Continue(h, "idle") /\ gift' = [gift EXCEPT ![h] = NoGift]
  BY <1>2 DEF GiftDone, End, Hold, NoGift
<1>3. ASSUME GiftReads, NEW l \in GiftLabels, NEW g \in GiftRead, Continue(h, l),
             gift' = [gift EXCEPT ![h] = g], at[h] \in {"findRoll", "pickRoll"},
             l \in {"idle", "newRoll", "payRoll"}, l = "payRoll" => at[h] = "pickRoll",
             l = "newRoll" => \A i \in Rolls : rolls[i] # "pending",
             l = "payRoll" => g.n \in Rolls /\ rolls[g.n] = "pending"
      PROVE  GiftIInv'
  <2>1. faults' = faults /\ begun' = begun /\ at'[h] = l
    BY <1>1, <1>3
  <2>2. GiftRowsOK'
    BY <1>3 DEF GiftIInv, GiftRowsOK, GiftReads, SalesSame, RouletteSame, CampaignSame
  <2>3. KnowsGift(h)'
    BY <1>0, <1>3, <2>1 DEF KnowsGift
  <2>4. DebtFacts(at[h], gift[h]) => DebtFacts(l, g)'
    BY <1>3, <2>1 DEF DebtFacts, GiftReads, SalesSame, RouletteSame, Owed
  <2>5. RollFacts(at[h], gift[h]) => RollFacts(l, g)'
    BY <1>0, <1>3 DEF RollFacts, GiftReads, RouletteSame
  <2>6. RollsLeft(at[h]) => RollsLeft(l)'
    BY <1>3, <2>1 DEF RollsLeft, UsedRolls, GiftReads, RouletteSame
  <2> QED
    BY <1>3, <2>2, <2>3, <2>4, <2>5, <2>6, RouletteGoesOn DEF GiftReads
<1>4. CASE FindRoll(h)
  <2>1. CASE \E i \in Rolls : rolls[i] = "pending"
    BY <1>0, <1>2, <1>3, <1>4, <2>1 DEF FindRoll
  <2>2. CASE \A i \in Rolls : rolls[i] # "pending"
    BY <1>0, <1>3, <1>4, <2>2 DEF FindRoll
  <2> QED
    BY <2>1, <2>2
<1>5. CASE PickRoll(h)
  <2>1. CASE \A i \in Rolls : rolls[i] # "pending"
    BY <1>0, <1>2, <1>3, <1>5, <2>1 DEF PickRoll
  <2>2. CASE \E i \in Rolls : rolls[i] = "pending"
    <3>1. PICK i \in Rolls : rolls[i] = "pending" /\ Continue(h, "payRoll") /\ Hold(h, i, "nobody")
      BY <1>5, <2>2 DEF PickRoll
    <3>2. [n |-> i, to |-> "nobody"] \in GiftRead
      BY <1>0 DEF GiftRead, Rolls
    <3>3. at[h] = "pickRoll" /\ GiftReads /\ gift' = [gift EXCEPT ![h] = [n |-> i, to |-> "nobody"]]
      BY <1>5, <3>1 DEF PickRoll, Hold
    <3>4. PICK g \in GiftRead : g = [n |-> i, to |-> "nobody"]
      BY <3>2
    <3>5. gift' = [gift EXCEPT ![h] = g] /\ g.n = i
      BY <3>3, <3>4
    <3> QED
      BY <1>0, <1>3, <3>1, <3>3, <3>5
  <2> QED
    BY <2>1, <2>2
<1>6. CASE CreateRoll(h)
  <2> DEFINE c == CHOOSE j \in Rolls : rolls[j] = "none" /\ \A k \in 1..j - 1 : rolls[k] # "none"
  <2>1. /\ at[h] = "newRoll" /\ rolls' = [rolls EXCEPT ![c] = "pending"]
        /\ SalesSame /\ CampaignSame /\ wallet' = wallet /\ fees' = fees /\ prizes' = prizes
    BY <1>6 DEF CreateRoll
  <2>2. Continue(h, "idle") /\ gift' = [gift EXCEPT ![h] = NoGift]
    BY <1>2, <1>6 DEF CreateRoll
  <2>3. PICK i : i = c
    OBVIOUS
  <2>4. rolls' = [rolls EXCEPT ![i] = "pending"]
    BY <2>1, <2>3
  <2>5. ASSUME NEW n \in 0..begun, UsedRolls(n), n < begun
        PROVE  i = n + 1 /\ i \in Rolls /\ rolls[i] = "none"
    <3>1. n + 1 \in Rolls /\ rolls[n + 1] = "none" /\ \A k \in 1..n + 1 - 1 : rolls[k] # "none"
      BY <1>0, <2>5 DEF UsedRolls, Rolls
    <3>2. c \in Rolls /\ rolls[c] = "none" /\ \A k \in 1..c - 1 : rolls[k] # "none"
      BY <3>1
    <3>3. i \in Rolls /\ rolls[i] = "none" /\ \A k \in 1..i - 1 : rolls[k] # "none"
      BY <2>3, <3>2
    <3>4. ~(i < n + 1) /\ ~(n + 1 < i)
      BY <1>0, <2>5, <3>1, <3>3 DEF UsedRolls, Rolls
    <3> QED
      BY <3>3, <3>4 DEF Rolls
  <2> HIDE DEF c
  <2>6. faults' = faults /\ begun' = begun /\ at'[h] = "idle"
    BY <1>1, <2>2
  <2>7. GiftRowsOK'
    BY <1>0, <2>1, <2>2, <2>4 DEF GiftIInv, GiftRowsOK, SalesSame, CampaignSame
  <2>8. KnowsGift(h)'
    BY <2>6 DEF KnowsGift
  <2>9. DebtFacts(at[h], gift[h]) => DebtFacts("idle", NoGift)'
    BY <2>1, <2>6, DebtStays
  <2>10. RollFacts(at[h], gift[h]) /\ RollsLeft(at[h])
         => RollFacts("idle", NoGift)' /\ RollsLeft("idle")'
    <3> SUFFICES ASSUME RollFacts(at[h], gift[h]), NEW n \in 0..begun, UsedRolls(n), n < begun
                 PROVE  RollFacts("idle", NoGift)' /\ RollsLeft("idle")'
      BY <2>1 DEF RollsLeft
    <3>1. i = n + 1 /\ i \in Rolls /\ rolls[i] = "none"
      BY <2>5
    <3>2. rolls'[i] = "pending" /\ \A j \in Rolls \ {i} : rolls'[j] = rolls[j]
      BY <1>0, <2>4, <3>1
    <3>3. RollFacts("idle", NoGift)'
      BY <2>1, <3>1, <3>2 DEF RollFacts
    <3>4. UsedRolls(n + 1)'
      BY <1>0, <3>1, <3>2 DEF UsedRolls, Rolls
    <3>5. n + 1 \in 0..begun'
      BY <1>0, <2>6
    <3> QED
      BY <3>3, <3>4, <3>5 DEF RollsLeft
  <2> QED
    BY <1>0, <2>1, <2>2, <2>7, <2>8, <2>9, <2>10, RouletteGoesOn
<1> QED
  BY <1>4, <1>5, <1>6

\* A roll is paid for, the prize is handed over, and the roll is closed.
LEMMA GiftPrizes ==
  ASSUME GiftIInv, NEW h \in Handlers, PayRoll(h) \/ GivePrize(h) \/ CloseRoll(h)
  PROVE  GiftIInv'
<1> USE DEF GiftLabels, RollLabels
<1>0. /\ gift \in [Handlers -> GiftRead] /\ gift[h] \in GiftRead
      /\ gift = [gift EXCEPT ![h] = gift[h]] /\ NoGift \in GiftRead
      /\ at \in [Handlers -> GiftLabels] /\ wallet \in Int /\ RollFee \in Nat
      /\ rolls \in [Rolls -> {"none", "pending", "done"}]
      /\ fees \in [Rolls -> Nat] /\ prizes \in [Rolls -> Nat]
      /\ at[h] \in {"payRoll", "prize", "closeRoll"} => gift[h].n \in Rolls
  BY NoGiftIsRead, GiftAssumption DEF GiftIInv, GiftRowsOK, GiftLabelsOK, KnowsGift
<1>1. ASSUME NEW l, Continue(h, l) PROVE faults' = faults /\ begun' = begun /\ at'[h] = l
  BY <1>0, <1>1 DEF Continue, Goto
<1>2. ASSUME GiftDone(h) PROVE Continue(h, "idle") /\ gift' = [gift EXCEPT ![h] = NoGift]
  BY <1>2 DEF GiftDone, End, Hold, NoGift
<1>3. PICK f \in GiftRead : f = gift[h]
  BY <1>0
<1>4. ASSUME NEW k \in GiftLabels, NEW l \in GiftLabels, k # "idle",
             begun' = begun, \A i \in Rolls : (rolls'[i] # "none") <=> (rolls[i] # "none"),
             RollsLeft(k)
      PROVE  RollsLeft(l)'
  <2>1. PICK n \in 0..begun : UsedRolls(n) /\ n < begun
    BY <1>4 DEF RollsLeft
  <2>2. UsedRolls(n)' /\ n \in 0..begun' /\ n < begun'
    BY <1>4, <2>1 DEF UsedRolls
  <2> QED
    BY <2>2 DEF RollsLeft
<1>5. CASE PayRoll(h)
  <2>1. /\ at[h] = "payRoll" /\ wallet' = wallet - RollFee /\ fees' = [fees EXCEPT ![f.n] = @ + 1]
        /\ Continue(h, "prize") /\ SalesSame /\ CampaignSame
        /\ rolls' = rolls /\ prizes' = prizes /\ gift' = gift
    BY <1>3, <1>5 DEF PayRoll
  <2>2. f.n \in Rolls
    BY <1>0, <1>3, <2>1
  <2>3. GiftRowsOK'
    BY <1>0, <2>1, <2>2 DEF GiftIInv, GiftRowsOK, SalesSame, CampaignSame
  <2>4. KnowsGift(h)' /\ faults' = faults /\ begun' = begun
    BY <1>0, <1>1, <2>1 DEF KnowsGift
  <2>5. DebtFacts(at[h], f) => DebtFacts("prize", f)'
    BY <1>0, <2>1, <2>4 DEF DebtFacts, SalesSame, Owed
  <2>6. RollFacts(at[h], f) => RollFacts("prize", f)'
    BY <1>0, <2>1, <2>2 DEF RollFacts
  <2>7. RollsLeft(at[h]) => RollsLeft("prize")'
    BY <1>4, <2>1, <2>4
  <2> QED
    BY <1>0, <1>3, <2>1, <2>3, <2>4, <2>5, <2>6, <2>7, RouletteGoesOn
<1>6. CASE GivePrize(h)
  <2>1. /\ at[h] = "prize" /\ wallet' = wallet /\ prizes' = [prizes EXCEPT ![f.n] = @ + 1]
        /\ Continue(h, "closeRoll") /\ SalesSame /\ CampaignSame
        /\ rolls' = rolls /\ fees' = fees /\ gift' = gift
    BY <1>3, <1>6 DEF GivePrize
  <2>2. f.n \in Rolls
    BY <1>0, <1>3, <2>1
  <2>3. GiftRowsOK'
    BY <1>0, <2>1, <2>2 DEF GiftIInv, GiftRowsOK, SalesSame, CampaignSame
  <2>4. KnowsGift(h)' /\ faults' = faults /\ begun' = begun
    BY <1>0, <1>1, <2>1 DEF KnowsGift
  <2>5. DebtFacts(at[h], f) => DebtFacts("closeRoll", f)'
    BY <2>1, <2>4, DebtStays
  <2>6. RollFacts(at[h], f) => RollFacts("closeRoll", f)'
    BY <1>0, <2>1, <2>2 DEF RollFacts
  <2>7. RollsLeft(at[h]) => RollsLeft("closeRoll")'
    BY <1>4, <2>1, <2>4
  <2> QED
    BY <1>0, <1>3, <2>1, <2>3, <2>4, <2>5, <2>6, <2>7, RouletteGoesOn
<1>7. CASE CloseRoll(h)
  <2>1. /\ at[h] = "closeRoll" /\ wallet' = wallet /\ rolls' = [rolls EXCEPT ![f.n] = "done"]
        /\ SalesSame /\ CampaignSame /\ fees' = fees /\ prizes' = prizes
        /\ Continue(h, "idle") /\ gift' = [gift EXCEPT ![h] = NoGift]
    BY <1>2, <1>3, <1>7 DEF CloseRoll
  <2>2. f.n \in Rolls
    BY <1>0, <1>3, <2>1
  <2>3. GiftRowsOK'
    BY <1>0, <2>1, <2>2 DEF GiftIInv, GiftRowsOK, SalesSame, CampaignSame
  <2>4. KnowsGift(h)' /\ faults' = faults /\ begun' = begun
    BY <1>0, <1>1, <2>1 DEF KnowsGift
  <2>5. DebtFacts(at[h], f) => DebtFacts("idle", NoGift)'
    BY <2>1, <2>4, DebtStays
  <2>6. RollFacts(at[h], f) => RollFacts("idle", NoGift)'
    BY <1>0, <2>1, <2>2 DEF RollFacts
  <2>7. RollFacts(at[h], f) /\ RollsLeft(at[h]) => RollsLeft("idle")'
    BY <1>0, <1>4, <2>1, <2>2, <2>4 DEF RollFacts
  <2> QED
    BY <1>0, <1>3, <2>1, <2>3, <2>4, <2>5, <2>6, <2>7, RouletteGoesOn
<1> QED
  BY <1>5, <1>6, <1>7

\* A gift of a campaign is handed over and rewarded.
LEMMA GiftCampaign ==
  ASSUME GiftIInv, NEW h \in Handlers,
         \/ CheckDailyLimit(h) \/ CheckRecipient(h) \/ GiveEventSticker(h)
         \/ CreateEventGiftReward(h)
  PROVE  GiftIInv'
<1> USE DEF GiftLabels, RollLabels
<1>0. /\ gift \in [Handlers -> GiftRead] /\ gift[h] \in GiftRead
      /\ gift = [gift EXCEPT ![h] = gift[h]] /\ NoGift \in GiftRead
      /\ at \in [Handlers -> GiftLabels] /\ begun \in Nat
      /\ earlier \in Nat /\ HandedToday \in Nat /\ rewarded \in Nat
      /\ at[h] \in {"countToday", "recipientToday", "giveEvent", "reward"} => gift[h].to \in Recipients
  BY NoGiftIsRead, HandedTodayIsSum
     DEF GiftIInv, GiftRowsOK, GiftLabelsOK, KnowsGift, Bounded
<1>1. ASSUME NEW l, Continue(h, l) PROVE faults' = faults /\ begun' = begun /\ at'[h] = l
  BY <1>0, <1>1 DEF Continue, Goto
<1>2. ASSUME GiftDone(h) PROVE Continue(h, "idle") /\ gift' = [gift EXCEPT ![h] = NoGift]
  BY <1>2 DEF GiftDone, End, Hold, NoGift
<1>3. ASSUME SalesSame, RouletteSame, wallet' = wallet,
             NEW l \in {"idle", "recipientToday", "giveEvent", "reward"}, NEW g \in GiftRead,
             Continue(h, l), gift' = [gift EXCEPT ![h] = g], GiftRowsOK',
             l = "idle" \/ g.to \in Recipients,
             at[h] \in {"countToday", "recipientToday", "giveEvent", "reward"},
             RewardFacts(at[h]) => RewardFacts(l)'
      PROVE  GiftIInv'
  <2>1. faults' = faults /\ begun' = begun /\ at'[h] = l /\ gift'[h] = g
    BY <1>0, <1>1, <1>3
  <2>2. KnowsGift(h)'
    BY <1>3, <2>1 DEF KnowsGift
  <2>3. DebtFacts(at[h], gift[h]) => DebtFacts(l, g)'
    BY <1>3, <2>1, DebtStays DEF RouletteSame
  <2>4. RollFacts(at[h], gift[h]) /\ RollsLeft(at[h]) => RollFacts(l, g)' /\ RollsLeft(l)'
    BY <1>0, <1>3, <2>1, RouletteStays
  <2>5. GiftFacts(at[h], gift[h]) => GiftFacts(l, g)'
    BY <1>3, <2>1, <2>3, <2>4 DEF GiftFacts
  <2> QED
    BY <1>3, <2>2, <2>5, GiftGoesOn
<1>4. ASSUME GiftReads, NEW l \in {"idle", "recipientToday", "giveEvent"}, NEW g \in GiftRead,
             Continue(h, l), gift' = [gift EXCEPT ![h] = g],
             l = "idle" \/ g.to \in Recipients, at[h] \in {"countToday", "recipientToday"}
      PROVE  GiftIInv'
  <2>1. GiftRowsOK'
    BY <1>4 DEF GiftIInv, GiftRowsOK, GiftReads, SalesSame, RouletteSame, CampaignSame
  <2>2. RewardFacts(at[h]) => RewardFacts(l)'
    BY <1>4, CampaignStays DEF GiftReads
  <2> QED
    BY <1>3, <1>4, <2>1, <2>2 DEF GiftReads
<1>5. CASE CheckDailyLimit(h)
  BY <1>0, <1>2, <1>4, <1>5 DEF CheckDailyLimit
<1>6. CASE CheckRecipient(h)
  BY <1>0, <1>2, <1>4, <1>6 DEF CheckRecipient
<1>7. CASE GiveEventSticker(h)
  <2>1. PICK r \in Recipients : r = gift[h].to
    BY <1>0, <1>7 DEF GiveEventSticker
  <2>2. /\ at[h] = "giveEvent" /\ Continue(h, "reward") /\ SalesSame /\ RouletteSame
        /\ wallet' = wallet /\ earlier' = earlier /\ rewarded' = rewarded /\ gift' = gift
        /\ today' = [today EXCEPT ![r] = today[r] + 1]
    BY <1>7, <2>1 DEF GiveEventSticker
  <2>3. today' \in [Recipients -> Nat] /\ HandedToday' = HandedToday + 1
    BY <2>2, OneMoreToday DEF GiftIInv
  <2>4. GiftRowsOK'
    BY <2>2, <2>3 DEF GiftIInv, GiftRowsOK, SalesSame, RouletteSame
  <2>5. RewardFacts(at[h]) => RewardFacts("reward")'
    <3> DEFINE n == earlier + HandedToday
    <3>1. n' = n + 1 /\ n \in Nat /\ n + 1 - 1 = n - 0
      BY <1>0, <2>2, <2>3
    <3> HIDE DEF n
    <3>2. (n' >= 1 /\ rewarded' = RewardsOf(n' - 1)) <=> rewarded = RewardsOf(n - 0)
      BY <2>2, <3>1
    <3>3. RewardFacts(at[h]) <=> n >= 0 /\ rewarded = RewardsOf(n - 0)
      BY <2>2 DEF RewardFacts, Due, n
    <3>4. RewardFacts("reward")' <=> n' >= 1 /\ rewarded' = RewardsOf(n' - 1)
      BY DEF RewardFacts, Due, n, RewardsOf
    <3> QED
      BY <3>2, <3>3, <3>4
  <2> QED
    BY <1>0, <1>3, <2>1, <2>2, <2>4, <2>5
<1>8. CASE CreateEventGiftReward(h)
  <2> DEFINE n == earlier + HandedToday
  <2>1. /\ at[h] = "reward" /\ SalesSame /\ RouletteSame
        /\ Continue(h, "idle") /\ gift' = [gift EXCEPT ![h] = NoGift]
        /\ wallet' = wallet /\ today' = today /\ earlier' = earlier
        /\ rewarded' = rewarded + RewardFor(n)
    BY <1>2, <1>8 DEF CreateEventGiftReward
  <2>2. HandedToday' = HandedToday
    BY <2>1, TodayIsSum, TodayIsSumNext
  <2>3. RewardFor(n) \in Nat /\ n \in Nat
    BY <1>0, GiftAssumption DEF RewardFor
  <2>4. GiftRowsOK'
    BY <1>0, <2>1, <2>3 DEF GiftIInv, GiftRowsOK, SalesSame, RouletteSame
  <2>5. RewardFacts(at[h]) => RewardFacts("idle")'
    <3> SUFFICES ASSUME RewardFacts(at[h]) PROVE RewardFacts("idle")'
      OBVIOUS
    <3>1. n >= 1 /\ rewarded = RewardsOf(n - 1)
      BY <2>1 DEF RewardFacts, Due
    <3>2. n' = n
      BY <2>1, <2>2
    <3> HIDE DEF n
    <3>3. rewarded' = RewardsOf(n) /\ n - 0 = n /\ n >= 0
      BY <2>1, <2>3, <3>1, RewardsGrow
    <3>4. RewardFacts("idle")' <=> n' >= 0 /\ rewarded' = RewardsOf(n' - 0)
      BY DEF RewardFacts, Due, n, RewardsOf
    <3> QED
      BY <3>2, <3>3, <3>4
  <2> QED
    BY <1>0, <1>3, <2>1, <2>4, <2>5
<1> QED
  BY <1>5, <1>6, <1>7, <1>8

\* A handler dies.
LEMMA GiftDies ==
  ASSUME GiftIInv, NEW h \in Handlers, GiftDie(h)
  PROVE  GiftIInv'
<1>1. /\ at[h] # "idle" /\ Refused(h, "idle") /\ GiftReads /\ gift' = [gift EXCEPT ![h] = NoGift]
  BY DEF GiftDie, Die, Hold, NoGift
<1>2. "idle" \in GiftLabels
  BY DEF GiftLabels
<1>3. at \in [Handlers -> GiftLabels] /\ Bounded /\ Sequential
  BY DEF GiftIInv, GiftLabelsOK
<1>4. /\ GiftLabelsOK' /\ MovesTo(h, "idle")
      /\ faults' = faults + 1 /\ overlapped' = overlapped
      /\ ~overlapped => OnlyOne(h)
  BY <1>1, <1>2, <1>3, RefusedMoves DEF GiftLabelsOK
<1>5. Holds(h, "idle", NoGift)
  BY <1>1, <1>4, NoGiftIsRead, GiftHolds DEF GiftIInv
<1>6. KnowsGift(h)'
  BY <1>4 DEF KnowsGift, MovesTo
<1>7. ~overlapped' => GiftFacts("idle", NoGift)'
  <2> SUFFICES ASSUME ~overlapped PROVE GiftFacts("idle", NoGift)'
    BY <1>4
  <2>1. faults \in Nat /\ faults' # 0
    BY <1>3, <1>4 DEF Bounded
  <2>2. DebtFacts(at[h], gift[h]) /\ handed \in Nat /\ sold \in Nat
    BY <1>1 DEF GiftIInv, GiftLone, GiftFacts, GiftRowsOK
  <2>3. DebtFacts("idle", NoGift)'
    BY <1>1, <1>4, <2>1, <2>2 DEF DebtFacts, GiftReads, SalesSame, RouletteSame, Owed
  <2> QED
    BY <2>1, <2>3 DEF GiftFacts
<1> QED
  BY <1>4, <1>5, <1>6, <1>7, GiftShows

\* The gifts of the day are counted among the earlier ones.
LEMMA GiftDay ==
  ASSUME GiftIInv, DayPasses
  PROVE  GiftIInv'
<1>1. /\ SalesSame /\ RouletteSame /\ UNCHANGED handlerVars
      /\ wallet' = wallet /\ rewarded' = rewarded /\ gift' = gift
      /\ earlier' = earlier + HandedToday /\ today' = [r \in Recipients |-> 0]
  BY DEF DayPasses
<1>2. GiftRowsOK /\ earlier \in Nat /\ HandedToday \in Nat /\ IsFiniteSet(Recipients)
  BY HandedTodayIsSum DEF GiftIInv, GiftRowsOK
<1>3. HandedToday' = 0
  <2>1. PICK g : g = today'
    OBVIOUS
  <2>2. DOMAIN g = Recipients /\ \A r \in Recipients : g[r] = 0
    BY <1>1, <2>1
  <2>3. SumOver(g, Recipients) = 0
    BY <1>2, <2>2, SumZero
  <2> QED
    BY <2>1, <2>2, <2>3, TodayIsSumNext
<1>4. GiftRowsOK'
  BY <1>1, <1>2 DEF GiftRowsOK, SalesSame, RouletteSame
<1>5. GiftLabelsOK'
  BY <1>1, StillSequential DEF GiftIInv, GiftLabelsOK, handlerVars
<1>6. (earlier + HandedToday)' = earlier + HandedToday
  BY <1>1, <1>2, <1>3
<1>7. ASSUME NEW l, NEW g, GiftFacts(l, g)
      PROVE  GiftFacts(l, g)'
  <2>1. DebtFacts(l, g)'
    BY <1>1, <1>7 DEF GiftFacts, DebtFacts, SalesSame, RouletteSame, handlerVars
  <2>2. RollFacts(l, g) /\ RollsLeft(l) => RollFacts(l, g)' /\ RollsLeft(l)'
    BY <1>1 DEF RollFacts, RollsLeft, UsedRolls, RouletteSame, handlerVars
  <2>3. RewardFacts(l) => RewardFacts(l)'
    BY <1>1, <1>6 DEF RewardFacts
  <2> QED
    BY <1>1, <1>7, <2>1, <2>2, <2>3 DEF GiftFacts, handlerVars
<1>8. GiftLone'
  BY <1>1, <1>7 DEF GiftIInv, GiftLone, handlerVars, AtRest
<1>9. \A h \in Handlers : KnowsGift(h)'
  BY <1>1 DEF GiftIInv, KnowsGift, handlerVars
<1> QED
  BY <1>4, <1>5, <1>8, <1>9 DEF GiftIInv

-----------------------------------------------------------------------------
(* The theorem *)

LEMMA GiftInitOK == GiftInit => GiftIInv
<1> SUFFICES ASSUME GiftInit PROVE GiftIInv
  OBVIOUS
<1>1. at = Idle /\ begun = 0 /\ faults = 0 /\ Bounded /\ Sequential
  BY InitBounded DEF GiftInit
<1>2. GiftLabelsOK
  BY <1>1 DEF GiftLabelsOK, GiftLabels, Idle
<1>3. GiftRowsOK
  BY GiftAssumption, NoGiftIsRead DEF GiftInit, GiftIdle, GiftRowsOK
<1>4. \A h \in Handlers : KnowsGift(h)
  BY <1>1 DEF KnowsGift, Idle
<1>5. GiftFacts("idle", NoGift)
  <2>1. DebtFacts("idle", NoGift)
    BY <1>1 DEF DebtFacts, GiftInit, GiftIdle, Owed
  <2>2. RollFacts("idle", NoGift)
    BY DEF RollFacts, GiftInit, GiftIdle
  <2>3. UsedRolls(0)
    BY DEF UsedRolls, GiftInit, GiftIdle, Rolls
  <2>4. RollsLeft("idle")
    BY <1>1, <2>3 DEF RollsLeft
  <2>5. HandedToday = 0
    BY <1>3, HandedTodayIsSum, SumZero DEF GiftInit, GiftIdle
  <2>6. RewardsOf(0) = 0
    BY GiftAssumption DEF RewardsOf
  <2>7. RewardFacts("idle")
    BY <2>5, <2>6 DEF RewardFacts, Due, GiftInit, GiftIdle
  <2> QED
    BY <2>1, <2>2, <2>4, <2>7 DEF GiftFacts
<1>6. GiftLone
  BY <1>1, <1>5 DEF GiftLone, Idle
<1> QED
  BY <1>2, <1>3, <1>4, <1>6 DEF GiftIInv

LEMMA GiftNextOK ==
  ASSUME GiftIInv, [GiftNext]_<<handlerVars, giftVars>>
  PROVE  GiftIInv'
<1>1. CASE UNCHANGED <<handlerVars, giftVars>>
  <2>1. /\ at' = at /\ begun' = begun /\ faults' = faults /\ overlapped' = overlapped
        /\ wallet' = wallet /\ handed' = handed /\ sold' = sold /\ gift' = gift
        /\ today' = today /\ earlier' = earlier /\ rewarded' = rewarded
        /\ RouletteSame /\ HandedToday' = HandedToday
    BY <1>1, TodayIsSum, TodayIsSumNext DEF handlerVars, giftVars, RouletteSame
  <2>2. GiftLabelsOK' /\ GiftRowsOK' /\ \A h \in Handlers : KnowsGift(h)'
    BY <2>1, StillSequential
       DEF GiftIInv, GiftLabelsOK, GiftRowsOK, KnowsGift, RouletteSame, handlerVars
  <2>3. ASSUME NEW l, NEW g, GiftFacts(l, g)
        PROVE  GiftFacts(l, g)'
    <3>1. RewardFacts(l) => RewardFacts(l)'
      BY <2>1 DEF RewardFacts
    <3> QED
      BY <2>1, <2>3, <3>1 DEF GiftFacts, DebtFacts, RollFacts, RollsLeft, UsedRolls, RouletteSame
  <2>4. GiftLone'
    BY <2>1, <2>3 DEF GiftIInv, GiftLone, AtRest
  <2> QED
    BY <2>2, <2>4 DEF GiftIInv
<1>2. CASE GiftNext
  BY <1>2, GiftBeginnings, GiftSales, GiftRolls, GiftPrizes, GiftCampaign, GiftDies, GiftDay
     DEF GiftNext
<1> QED
  BY <1>1, <1>2

LEMMA GiftIInvAddsUp == GiftIInv => GiftsAddUp
<1> SUFFICES ASSUME GiftIInv PROVE GiftsAddUp
  OBVIOUS
<1>1. /\ earlier \in Nat /\ HandedToday \in Nat /\ handed \in Nat /\ sold \in Nat /\ wallet \in Int
      /\ earlier + HandedToday \in Nat
  BY HandedTodayIsSum DEF GiftIInv, GiftRowsOK
<1>2. GiftLeavesNoDebt
  <2> SUFFICES ASSUME ~overlapped
               PROVE  /\ handed > 0 \/ (\E i \in Rolls : fees[i] > 0) => wallet >= 0
                      /\ AtRest => handed - sold \in 0..faults
    BY DEF GiftLeavesNoDebt
  <2>1. CASE AtRest
    BY <1>1, <2>1 DEF GiftIInv, GiftLone, GiftFacts, DebtFacts, Owed
  <2>2. CASE ~AtRest
    <3>1. PICK h \in Handlers : at[h] # "idle"
      BY <2>2 DEF AtRest, Idle, GiftIInv, GiftLabelsOK
    <3> QED
      BY <2>2, <3>1 DEF GiftIInv, GiftLone, GiftFacts, DebtFacts
  <2> QED
    BY <2>1, <2>2
<1>3. Undisturbed => RollFacts("idle", NoGift) /\ RewardFacts("idle")
  BY DEF Undisturbed, GiftIInv, GiftLone, GiftFacts
<1>4. RollPaidOnce
  BY <1>3 DEF RollPaidOnce, RollFacts
<1>5. MilestoneTotal
  <2> SUFFICES ASSUME Undisturbed PROVE rewarded = RewardsOf(earlier + HandedToday)
    BY DEF MilestoneTotal, RewardsOf
  <2> DEFINE n == earlier + HandedToday
  <2>1. n - 0 = n
    BY <1>1
  <2> HIDE DEF n
  <2>2. rewarded = RewardsOf(n - 0)
    BY <1>3 DEF RewardFacts, Due, n
  <2> QED
    BY <2>1, <2>2 DEF n
<1> QED
  BY <1>2, <1>4, <1>5 DEF GiftsAddUp

\* Unless requests overlap, gifts and rolls make no debt and every gift handed over is
\* paid for, but for the handlers that were cut off; undisturbed, every roll is paid
\* and won once, and the rewards add up to what the milestone promises, for any
\* prices, fees, milestones and recipients (stickers.ts, finances.ts:342-365).
THEOREM GiftsBooked == GiftSpec => []GiftsAddUp
<1>1. GiftInit => GiftIInv
  BY GiftInitOK
<1>2. GiftIInv /\ [GiftNext]_<<handlerVars, giftVars>> => GiftIInv'
  BY GiftNextOK
<1>3. GiftIInv => GiftsAddUp
  BY GiftIInvAddsUp
<1> QED
  BY <1>1, <1>2, <1>3, PTL DEF GiftSpec

-----------------------------------------------------------------------------
(* Payouts *)

PlanType == [kind : {"none", "apply", "hold", "fast"}, net : Nat,
             balance : Int, payable : Nat, app : Apps \cup {1}]
AppType  == [status : PayoutStatus \cup {"none"}, credit : Nat]

PayoutRowsOK ==
    /\ savings \in Int /\ recent \in Nat /\ matured \in Nat
    /\ fastOut \in Nat /\ reopened \in BOOLEAN /\ day \in 0..MaxDay
    /\ apps \in [Apps -> AppType]
    /\ sent \in [Apps -> Nat] /\ back \in [Apps -> Nat]
    /\ plan \in [Handlers -> PlanType]

PayoutLabelsOK == at \in [Handlers -> PayoutLabels] /\ Bounded /\ Sequential

\* What is going to be booked is allowed, and is one of the three forms; what is
\* going to be decided is an application.
KnowsPlan(h) ==
    /\ at[h] \in {"readBalance", "readMonth", "holdLook", "book"} => plan[h].kind # "none"
    /\ at[h] = "look" => plan[h].kind = "apply"
    /\ at[h] = "holdLook" => plan[h].kind = "hold"
    /\ at[h] \in {"holdLook", "book"} => Allowed(plan[h], plan[h].payable)
    /\ at[h] \in {"process", "cancel"} => plan[h].app \in Apps

\* No two requests have overlapped and no closed application is open again.
Lone == ~overlapped /\ ~reopened

OneOpen == \A i, j \in Apps : i \in OpenApps /\ j \in OpenApps => i = j

Tally ==
    \A i \in Apps : /\ sent[i] = IF apps[i].status = "processed" THEN 1 ELSE 0
                    /\ back[i] = IF apps[i].status = "cancelled" THEN 1 ELSE 0

\* The applications there are, are the first n.
Prefix(n) == \A i \in Apps : (apps[i].status # "none") <=> (i <= n)

\* What h relies on while it is the only one.
Looked(h) ==
    /\ at[h] \in {"readBalance", "readMonth"} /\ plan[h].kind = "apply" => OpenApps = {}
    /\ at[h] = "book" /\ plan[h].kind # "fast" => OpenApps = {}
    /\ at[h] \in {"process", "cancel"} => plan[h].app \in OpenApps

LoneInv ==
    Lone =>
        /\ OneOpen /\ Tally
        /\ \A h \in Handlers : Looked(h)
        /\ \E n \in 0..begun : Prefix(n) /\ ((\E h \in Handlers : at[h] # "idle") => n < begun)

PayoutIInv ==
    /\ PayoutLabelsOK /\ PayoutRowsOK
    /\ \A h \in Handlers : KnowsPlan(h)
    /\ LoneInv

\* What one step of h has to show.
PlanShown(h) == PayoutRowsOK' /\ KnowsPlan(h)' /\ \A g \in Handlers \ {h} : plan'[g] = plan[g]
PayoutLoneShown(h) ==
    Lone' =>
        /\ OneOpen' /\ Tally' /\ Looked(h)'
        /\ \E n \in 0..begun' : Prefix(n)' /\ (at'[h] # "idle" => n < begun')

-----------------------------------------------------------------------------
(* Amounts *)

LEMMA PayableIsNat ==
  ASSUME NEW b \in Int, NEW m \in Nat PROVE Payable(b, m) \in Nat
BY DEF Payable, Larger

\* What is deducted for an application that is allowed is a natural number.
LEMMA DeductionIsNat ==
  ASSUME NEW p \in PlanType, NEW n \in Nat, Allowed(p, n)
  PROVE  Deduction(p, n) \in Nat /\ Deduction(p, n) > 0
<1>1. p.net \in Nat /\ p.balance \in Int /\ BaseFee \in Nat
  BY FeeAssumption DEF PlanType
<1>2. Deduction(p, n) \in Int
  BY <1>1 DEF Deduction
<1> QED
  BY <1>2 DEF Allowed

\* The plan and the application records are well formed.
LEMMA PlannedType ==
  ASSUME NEW k \in {"none", "apply", "hold", "fast"}, NEW n \in Nat, NEW b \in Int,
         NEW p \in Nat, NEW i \in Apps \cup {1}
  PROVE  /\ Planned(k, n, b, p, i) \in PlanType
         /\ Planned(k, n, b, p, i).kind = k /\ Planned(k, n, b, p, i).net = n
         /\ Planned(k, n, b, p, i).balance = b /\ Planned(k, n, b, p, i).payable = p
         /\ Planned(k, n, b, p, i).app = i
BY DEF Planned, PlanType

LEMMA AppIsApp ==
  ASSUME NEW t \in PayoutStatus \cup {"none"}, NEW n \in Nat
  PROVE  App(t, n) \in AppType /\ App(t, n).status = t /\ App(t, n).credit = n
BY DEF App, AppType

-----------------------------------------------------------------------------
\* The invariant holds initially.
LEMMA InitPayout == PayoutInit => PayoutIInv
<1> SUFFICES ASSUME PayoutInit PROVE PayoutIInv
  OBVIOUS
<1>1. HandlersInit /\ savings \in PayoutOpenings /\ PayoutIdle
  BY DEF PayoutInit
<1>2. at = Idle /\ begun = 0 /\ Bounded /\ Sequential
  BY <1>1, InitBounded
<1>3. \A h \in Handlers : at[h] = "idle"
  BY <1>2 DEF Idle
<1>4. PayoutLabelsOK
  BY <1>2 DEF PayoutLabelsOK, Idle, PayoutLabels
<1>5. NoApp \in AppType /\ NoApp.status = "none"
  BY AppIsApp DEF NoApp
<1>6. NoPlan \in PlanType
  BY PlannedType DEF NoPlan
<1>7. PayoutRowsOK
  <2>1. savings \in Nat
    BY <1>1, FeeAssumption
  <2>2. reopened \in BOOLEAN
    BY <1>1 DEF PayoutIdle
  <2>3. apps \in [Apps -> AppType] /\ plan \in [Handlers -> PlanType]
    BY <1>1, <1>5, <1>6 DEF PayoutIdle
  <2>4. recent = 0 /\ matured = savings /\ fastOut = 0 /\ day \in 0..MaxDay
    BY <1>1, FeeAssumption DEF PayoutIdle
  <2>5. sent \in [Apps -> Nat] /\ back \in [Apps -> Nat]
    BY <1>1 DEF PayoutIdle
  <2> QED
    BY <2>1, <2>2, <2>3, <2>4, <2>5 DEF PayoutRowsOK
<1>8. \A h \in Handlers : KnowsPlan(h) /\ Looked(h)
  BY <1>3 DEF KnowsPlan, Looked
<1>9. \A i \in Apps : apps[i].status = "none" /\ sent[i] = 0 /\ back[i] = 0
  BY <1>1, <1>5 DEF PayoutIdle
<1>10. OneOpen /\ Tally
  BY <1>9 DEF OneOpen, Tally, OpenApps, Open
<1>11. Prefix(0) /\ 0 \in 0..begun
  BY <1>2, <1>9 DEF Prefix, Apps
<1> QED
  BY <1>3, <1>4, <1>7, <1>8, <1>10, <1>11 DEF PayoutIInv, LoneInv

\* What h shows is enough, as long as it runs alone or others overlap.
LEMMA PayoutShowsIsEnough ==
  ASSUME PayoutIInv, NEW h \in Handlers, NEW l \in PayoutLabels,
         MovesTo(h, l), PayoutLabelsOK', PlanShown(h), PayoutLoneShown(h),
         ~overlapped' => OnlyOne(h)
  PROVE  PayoutIInv'
<1>1. PayoutRowsOK'
  BY DEF PlanShown
<1>2. \A g \in Handlers : KnowsPlan(g)'
  <2>1. \A g \in Handlers \ {h} : KnowsPlan(g)'
    <3> TAKE g \in Handlers \ {h}
    <3>1. at'[g] = at[g] /\ plan'[g] = plan[g] /\ KnowsPlan(g)
      BY DEF PayoutIInv, PlanShown, MovesTo
    <3> QED
      BY <3>1 DEF KnowsPlan, Allowed, Deduction, NetOf
  <2> QED
    BY <2>1 DEF PlanShown
<1>3. ~overlapped' => \A g \in Handlers \ {h} : at'[g] = "idle"
  BY DEF MovesTo, OnlyOne
<1>4. ASSUME Lone'
      PROVE  /\ OneOpen' /\ Tally'
             /\ \A g \in Handlers : Looked(g)'
             /\ \E n \in 0..begun' : Prefix(n)' /\ ((\E g \in Handlers : at'[g] # "idle") => n < begun')
  <2>1. \A g \in Handlers \ {h} : at'[g] = "idle"
    BY <1>3, <1>4 DEF Lone
  <2>2. \A g \in Handlers \ {h} : Looked(g)'
    BY <2>1 DEF Looked
  <2>3. (\E g \in Handlers : at'[g] # "idle") => at'[h] # "idle"
    BY <2>1
  <2> QED
    BY <1>4, <2>2, <2>3 DEF PayoutLoneShown
<1> QED
  BY <1>1, <1>2, <1>4 DEF PayoutIInv, LoneInv

\* Where a handler goes, and what it plans.
LEMMA PayoutArrives ==
  ASSUME PayoutLabelsOK, NEW h \in Handlers, NEW l, Goto(h, l) PROVE at'[h] = l
BY DEF PayoutLabelsOK, Goto

LEMMA Plans ==
  ASSUME PayoutRowsOK, NEW h \in Handlers, NEW p \in PlanType, Plan(h, p)
  PROVE  /\ plan'[h] = p /\ plan' \in [Handlers -> PlanType]
         /\ \A g \in Handlers \ {h} : plan'[g] = plan[g]
BY DEF PayoutRowsOK, Plan

\* A handler that ends plans nothing.
LEMMA PayoutEnds ==
  ASSUME PayoutRowsOK, PayoutLabelsOK, NEW h \in Handlers, PayoutDone(h)
  PROVE  /\ Continue(h, "idle") /\ at'[h] = "idle"
         /\ plan' \in [Handlers -> PlanType] /\ \A g \in Handlers \ {h} : plan'[g] = plan[g]
BY PlannedType, Plans, PayoutArrives DEF PayoutDone, End, Continue, NoPlan

\* A handler that goes on alone relies on what it has seen.
LEMMA StaysLoneCast ==
  ASSUME PayoutIInv, NEW h \in Handlers, NEW l, Continue(h, l), at[h] # "idle",
         reopened' = reopened, Lone'
  PROVE  /\ OneOpen /\ Tally /\ Looked(h)
         /\ begun' = begun /\ \E n \in 0..begun : Prefix(n) /\ n < begun
BY DEF PayoutIInv, LoneInv, Lone, Continue

\* A step that changes no application.
LEMMA AppsSame ==
  ASSUME PayoutIInv, NEW h \in Handlers, NEW l, Continue(h, l), at[h] # "idle",
         UNCHANGED <<apps, sent, back, reopened>>,
         Lone' /\ Looked(h) => Looked(h)'
  PROVE  PayoutLoneShown(h)
<1> SUFFICES ASSUME Lone'
             PROVE  /\ OneOpen' /\ Tally' /\ Looked(h)'
                    /\ \E n \in 0..begun' : Prefix(n)' /\ (at'[h] # "idle" => n < begun')
  BY DEF PayoutLoneShown
<1>1. OneOpen /\ Tally /\ Looked(h) /\ begun' = begun
  BY StaysLoneCast
<1>2. PICK n \in 0..begun : Prefix(n) /\ n < begun
  BY StaysLoneCast
<1>3. OneOpen' /\ Tally'
  BY <1>1 DEF OneOpen, Tally, OpenApps
<1>4. Prefix(n)'
  BY <1>2 DEF Prefix
<1> QED
  BY <1>1, <1>2, <1>3, <1>4

-----------------------------------------------------------------------------
(* Applying *)

LEMMA FindExistingShows ==
  ASSUME PayoutIInv, NEW h \in Handlers, FindExisting(h) PROVE PlanShown(h) /\ PayoutLoneShown(h)
<1>1. /\ at[h] \in {"look", "holdLook"}
      /\ UNCHANGED <<savings, recent, matured, apps, sent, back, fastOut, reopened, day>>
  BY DEF FindExisting, payoutRows
<1>2. CASE OpenApps # {}
  <2>1. /\ Continue(h, "idle") /\ at'[h] = "idle"
        /\ plan' \in [Handlers -> PlanType] /\ \A g \in Handlers \ {h} : plan'[g] = plan[g]
    BY <1>2, PayoutEnds DEF PayoutIInv, FindExisting
  <2>2. PlanShown(h)
    BY <1>1, <2>1 DEF PayoutIInv, PayoutRowsOK, PlanShown, KnowsPlan
  <2>3. Looked(h)'
    BY <2>1 DEF Looked
  <2> QED
    BY <1>1, <2>1, <2>2, <2>3, AppsSame
<1>3. CASE OpenApps = {}
  <2> DEFINE l == IF at[h] = "look" THEN "readBalance" ELSE "book"
  <2>1. Continue(h, l) /\ at'[h] = l /\ plan' = plan
    BY <1>3, PayoutArrives DEF PayoutIInv, FindExisting, Continue
  <2>2. KnowsPlan(h)'
    BY <1>1, <2>1 DEF PayoutIInv, KnowsPlan, Allowed, Deduction, NetOf
  <2>3. PlanShown(h)
    BY <1>1, <2>1, <2>2 DEF PayoutIInv, PayoutRowsOK, PlanShown
  <2>4. Looked(h)'
    BY <1>1, <1>3, <2>1 DEF Looked, OpenApps
  <2> QED
    BY <1>1, <2>1, <2>3, <2>4, AppsSame
<1> QED
  BY <1>2, <1>3

LEMMA ReadBalanceShows ==
  ASSUME PayoutIInv, NEW h \in Handlers, ReadBalance(h) PROVE PlanShown(h) /\ PayoutLoneShown(h)
<1> DEFINE p == Planned(plan[h].kind, plan[h].net, savings, 0, 1)
<1>1. /\ at[h] = "readBalance" /\ at'[h] = "readMonth" /\ Continue(h, "readMonth")
      /\ UNCHANGED <<savings, recent, matured, apps, sent, back, fastOut, reopened, day>>
      /\ Plan(h, p)
  BY PayoutArrives DEF PayoutIInv, ReadBalance, payoutRows, Continue
<1>2. plan[h] \in PlanType /\ savings \in Int
  BY DEF PayoutIInv, PayoutRowsOK
<1>3. plan[h].kind \in {"none", "apply", "hold", "fast"} /\ plan[h].net \in Nat
  BY <1>2 DEF PlanType
<1>4. p \in PlanType /\ p.kind = plan[h].kind
  BY <1>2, <1>3, PlannedType
<1> HIDE DEF p
<1>5. /\ plan'[h] = p /\ plan' \in [Handlers -> PlanType]
      /\ \A g \in Handlers \ {h} : plan'[g] = plan[g]
  BY <1>1, <1>4, Plans DEF PayoutIInv
<1>6. PlanShown(h)
  BY <1>1, <1>4, <1>5 DEF PayoutIInv, PayoutRowsOK, PlanShown, KnowsPlan
<1>7. Looked(h) => Looked(h)'
  BY <1>1, <1>4, <1>5 DEF Looked, OpenApps
<1> QED
  BY <1>1, <1>6, <1>7, AppsSame

LEMMA ReadMonthShows ==
  ASSUME PayoutIInv, NEW h \in Handlers, ReadMonth(h) PROVE PlanShown(h) /\ PayoutLoneShown(h)
<1> DEFINE n == Payable(plan[h].balance, recent)
           p == Planned(plan[h].kind, plan[h].net, plan[h].balance, n, 1)
<1>1. /\ at[h] = "readMonth"
      /\ UNCHANGED <<savings, recent, matured, apps, sent, back, fastOut, reopened, day>>
  BY DEF ReadMonth, payoutRows
<1>2. plan[h] \in PlanType /\ recent \in Nat
  BY DEF PayoutIInv, PayoutRowsOK
<1>3. /\ plan[h].kind \in {"none", "apply", "hold", "fast"} /\ plan[h].net \in Nat
      /\ plan[h].balance \in Int
  BY <1>2 DEF PlanType
<1>4. n \in Nat
  BY <1>2, <1>3, PayableIsNat
<1>5. CASE Allowed(plan[h], n)
  <2> DEFINE l == IF plan[h].kind = "hold" THEN "holdLook" ELSE "book"
  <2>1. Continue(h, l) /\ at'[h] = l /\ Plan(h, p)
    BY <1>5, PayoutArrives DEF PayoutIInv, ReadMonth, Continue
  <2> HIDE DEF n
  <2>2. /\ p \in PlanType /\ p.kind = plan[h].kind /\ p.net = plan[h].net
        /\ p.balance = plan[h].balance /\ p.payable = n
    BY <1>3, <1>4, PlannedType
  <2>3. Allowed(p, p.payable)
    BY <1>5, <2>2 DEF Allowed, Deduction, NetOf
  <2> HIDE DEF p
  <2>4. /\ plan'[h] = p /\ plan' \in [Handlers -> PlanType]
        /\ \A g \in Handlers \ {h} : plan'[g] = plan[g]
    BY <2>1, <2>2, Plans DEF PayoutIInv
  <2>5. plan[h].kind # "none"
    BY <1>1 DEF PayoutIInv, KnowsPlan
  <2>6. Allowed(plan'[h], plan'[h].payable)
    BY <2>3, <2>4
  <2>7. KnowsPlan(h)'
    BY <2>1, <2>2, <2>4, <2>5, <2>6 DEF KnowsPlan, Allowed, Deduction, NetOf
  <2>8. PlanShown(h)
    BY <1>1, <2>4, <2>7 DEF PayoutIInv, PayoutRowsOK, PlanShown
  <2>9. Looked(h) => Looked(h)'
    <3>1. plan[h].kind \in {"apply", "hold", "fast"}
      BY <1>3, <2>5
    <3> QED
      BY <1>1, <2>1, <2>2, <2>4, <3>1 DEF Looked, OpenApps
  <2> QED
    BY <1>1, <2>1, <2>8, <2>9, AppsSame
<1>6. CASE ~Allowed(plan[h], n)
  <2>1. /\ Continue(h, "idle") /\ at'[h] = "idle"
        /\ plan' \in [Handlers -> PlanType] /\ \A g \in Handlers \ {h} : plan'[g] = plan[g]
    BY <1>6, PayoutEnds DEF PayoutIInv, ReadMonth
  <2>2. PlanShown(h)
    BY <1>1, <2>1 DEF PayoutIInv, PayoutRowsOK, PlanShown, KnowsPlan
  <2>3. Looked(h)'
    BY <2>1 DEF Looked
  <2> QED
    BY <1>1, <2>1, <2>2, <2>3, AppsSame
<1> QED
  BY <1>5, <1>6

\* An application is booked in the first free row, when no other one is open.
LEMMA BookApplicationShows ==
  ASSUME PayoutIInv, NEW h \in Handlers, BookApplication(h) PROVE PlanShown(h) /\ PayoutLoneShown(h)
<1> DEFINE d == Deduction(plan[h], plan[h].payable)
           t == IF plan[h].kind = "hold" THEN "on_hold" ELSE "pending"
           i == CHOOSE j \in Unused : \A k \in Unused : j <= k
           a == App(t, d)
<1>1. /\ at[h] = "book" /\ plan[h].kind # "fast" /\ at'[h] = "idle" /\ Continue(h, "idle")
      /\ plan' \in [Handlers -> PlanType] /\ \A g \in Handlers \ {h} : plan'[g] = plan[g]
      /\ UNCHANGED <<recent, matured, sent, back, fastOut, day, reopened>>
  BY PayoutEnds DEF PayoutIInv, BookApplication
<1>2. savings' = savings - d /\ apps' = [apps EXCEPT ![i] = a]
  BY DEF BookApplication
<1>3. plan[h] \in PlanType /\ plan[h].payable \in Nat /\ Allowed(plan[h], plan[h].payable)
  BY <1>1 DEF PayoutIInv, PayoutRowsOK, PlanType, KnowsPlan
<1>4. d \in Nat
  BY <1>3, DeductionIsNat
<1> HIDE DEF d
<1>5. a \in AppType /\ a.status = t /\ t \in Open
  BY <1>4, AppIsApp DEF Open, PayoutStatus
<1> HIDE DEF a, t
<1>6. apps \in [Apps -> AppType] /\ savings \in Int
  BY DEF PayoutIInv, PayoutRowsOK
<1>7. apps' \in [Apps -> AppType] /\ savings' \in Int
  <2> HIDE DEF i
  <2>1. apps' \in [Apps -> AppType]
    BY <1>2, <1>5, <1>6
  <2>2. savings' \in Int
    BY <1>2, <1>4, <1>6
  <2> QED
    BY <2>1, <2>2
<1>8. PlanShown(h)
  BY <1>1, <1>7 DEF PayoutIInv, PayoutRowsOK, PlanShown, KnowsPlan
<1>9. PayoutLoneShown(h)
  <2> SUFFICES ASSUME Lone'
               PROVE  /\ OneOpen' /\ Tally' /\ Looked(h)'
                      /\ \E n \in 0..begun' : Prefix(n)' /\ (at'[h] # "idle" => n < begun')
    BY DEF PayoutLoneShown
  <2>1. OneOpen /\ Tally /\ OpenApps = {} /\ begun' = begun
    BY <1>1, StaysLoneCast DEF Looked
  <2>2. PICK n \in 0..begun : Prefix(n) /\ n < begun
    BY <1>1, StaysLoneCast
  <2>3. begun \in 0..MaxRequests /\ MaxRequests \in Nat
    BY HandlerBoundAssumption DEF PayoutIInv, PayoutLabelsOK, Bounded
  <2>4. n + 1 \in Unused /\ \A k \in Unused : n + 1 <= k
    BY <2>2, <2>3 DEF Unused, Prefix, Apps
  <2>5. i \in Unused /\ \A k \in Unused : i <= k
    BY <2>4
  <2> HIDE DEF i
  <2>6. i = n + 1 /\ i \in Apps /\ apps[i].status = "none"
    <3>1. i <= n + 1 /\ n + 1 <= i /\ i \in Apps /\ apps[i].status = "none"
      BY <2>4, <2>5 DEF Unused
    <3> QED
      BY <2>2, <2>3, <3>1 DEF Apps
  <2>7. apps'[i] = a /\ \A j \in Apps \ {i} : apps'[j] = apps[j]
    BY <1>2, <1>6, <2>6
  <2>8. OneOpen'
    BY <1>5, <2>1, <2>7 DEF OneOpen, OpenApps
  <2>9. Tally'
    BY <1>1, <1>5, <2>1, <2>6, <2>7 DEF Tally, Open
  <2>10. \A j \in Apps : (apps'[j].status # "none") <=> (j <= n + 1)
    BY <1>5, <2>2, <2>3, <2>6, <2>7 DEF Prefix, Open, Apps
  <2>11. n + 1 \in 0..begun'
    BY <2>1, <2>2, <2>3
  <2> QED
    BY <1>1, <2>8, <2>9, <2>10, <2>11 DEF Looked, Prefix
<1> QED
  BY <1>8, <1>9

LEMMA BookFastPayoutShows ==
  ASSUME PayoutIInv, NEW h \in Handlers, BookFastPayout(h) PROVE PlanShown(h) /\ PayoutLoneShown(h)
<1>1. /\ at[h] = "book" /\ plan[h].kind = "fast" /\ at'[h] = "idle" /\ Continue(h, "idle")
      /\ plan' \in [Handlers -> PlanType] /\ \A g \in Handlers \ {h} : plan'[g] = plan[g]
      /\ UNCHANGED <<recent, matured, apps, sent, back, day, reopened>>
      /\ savings' = savings - plan[h].balance /\ fastOut' = fastOut + plan[h].balance
  BY PayoutEnds DEF PayoutIInv, BookFastPayout
<1>2. plan[h] \in PlanType /\ plan[h].payable \in Nat /\ Allowed(plan[h], plan[h].payable)
  BY <1>1 DEF PayoutIInv, PayoutRowsOK, PlanType, KnowsPlan
<1>3. plan[h].balance \in Nat
  BY <1>1, <1>2, DeductionIsNat DEF Deduction
<1>4. savings' \in Int /\ fastOut' \in Nat
  BY <1>1, <1>3 DEF PayoutIInv, PayoutRowsOK
<1>5. PlanShown(h)
  BY <1>1, <1>4 DEF PayoutIInv, PayoutRowsOK, PlanShown, KnowsPlan
<1>6. Looked(h)'
  BY <1>1 DEF Looked
<1> QED
  BY <1>1, <1>5, <1>6, AppsSame

-----------------------------------------------------------------------------
(* Transferring and cancelling *)

LEMMA ProcessShows ==
  ASSUME PayoutIInv, NEW h \in Handlers, ProcessPayoutRequest(h)
  PROVE  PlanShown(h) /\ PayoutLoneShown(h)
<1> DEFINE i == plan[h].app
           a == App("processed", apps[i].credit)
<1>1. /\ at[h] = "process" /\ at'[h] = "idle" /\ Continue(h, "idle")
      /\ plan' \in [Handlers -> PlanType] /\ \A g \in Handlers \ {h} : plan'[g] = plan[g]
      /\ UNCHANGED <<savings, recent, matured, back, fastOut, day, reopened>>
  BY PayoutEnds DEF PayoutIInv, ProcessPayoutRequest
<1>2. sent' = [sent EXCEPT ![i] = sent[i] + 1] /\ apps' = [apps EXCEPT ![i] = a]
  BY DEF ProcessPayoutRequest
<1>3. apps \in [Apps -> AppType] /\ sent \in [Apps -> Nat]
  BY DEF PayoutIInv, PayoutRowsOK
<1>4. i \in Apps
  BY <1>1 DEF PayoutIInv, KnowsPlan
<1>5. a \in AppType /\ a.status = "processed"
  <2>1. apps[i].credit \in Nat
    BY <1>3, <1>4 DEF AppType
  <2> QED
    BY <2>1, AppIsApp DEF PayoutStatus
<1> HIDE DEF i, a
<1>6. apps' \in [Apps -> AppType] /\ sent' \in [Apps -> Nat]
  BY <1>2, <1>3, <1>4, <1>5
<1>7. PlanShown(h)
  BY <1>1, <1>6 DEF PayoutIInv, PayoutRowsOK, PlanShown, KnowsPlan
<1>8. PayoutLoneShown(h)
  <2> SUFFICES ASSUME Lone'
               PROVE  /\ OneOpen' /\ Tally' /\ Looked(h)'
                      /\ \E n \in 0..begun' : Prefix(n)' /\ (at'[h] # "idle" => n < begun')
    BY DEF PayoutLoneShown
  <2>1. OneOpen /\ Tally /\ i \in OpenApps /\ begun' = begun
    BY <1>1, StaysLoneCast DEF Looked, i
  <2>2. PICK n \in 0..begun : Prefix(n) /\ n < begun
    BY <1>1, StaysLoneCast
  <2>3. i \in Apps /\ apps[i].status \in Open
    BY <2>1 DEF OpenApps
  <2>4. /\ apps'[i] = a /\ \A j \in Apps \ {i} : apps'[j] = apps[j] /\ sent'[j] = sent[j]
        /\ sent'[i] = sent[i] + 1
    BY <1>2, <1>3, <2>3
  <2>5. OneOpen'
    BY <1>5, <2>1, <2>3, <2>4 DEF OneOpen, OpenApps, Open
  <2>6. Tally'
    BY <1>1, <1>5, <2>1, <2>3, <2>4 DEF Tally, Open
  <2>7. \A j \in Apps : (apps'[j].status # "none") <=> (j <= n)
    BY <1>5, <2>2, <2>3, <2>4 DEF Prefix, Open
  <2> QED
    BY <1>1, <2>1, <2>2, <2>5, <2>6, <2>7 DEF Looked, Prefix
<1> QED
  BY <1>7, <1>8

LEMMA CancelShows ==
  ASSUME PayoutIInv, NEW h \in Handlers, CancelPayoutRequest(h)
  PROVE  PlanShown(h) /\ PayoutLoneShown(h)
<1> DEFINE i == plan[h].app
           a == App("cancelled", apps[i].credit)
<1>1. /\ at[h] = "cancel" /\ at'[h] = "idle" /\ Continue(h, "idle")
      /\ plan' \in [Handlers -> PlanType] /\ \A g \in Handlers \ {h} : plan'[g] = plan[g]
      /\ UNCHANGED <<recent, matured, sent, fastOut, day, reopened>>
  BY PayoutEnds DEF PayoutIInv, CancelPayoutRequest
<1>2. /\ back' = [back EXCEPT ![i] = back[i] + 1] /\ apps' = [apps EXCEPT ![i] = a]
      /\ savings' = savings + apps[i].credit
  BY DEF CancelPayoutRequest
<1>3. apps \in [Apps -> AppType] /\ back \in [Apps -> Nat] /\ savings \in Int
  BY DEF PayoutIInv, PayoutRowsOK
<1>4. i \in Apps
  BY <1>1 DEF PayoutIInv, KnowsPlan
<1>5. apps[i].credit \in Nat
  BY <1>3, <1>4 DEF AppType
<1>6. a \in AppType /\ a.status = "cancelled"
  BY <1>5, AppIsApp DEF PayoutStatus
<1> HIDE DEF i, a
<1>7. apps' \in [Apps -> AppType] /\ back' \in [Apps -> Nat] /\ savings' \in Int
  <2>1. apps' \in [Apps -> AppType] /\ back' \in [Apps -> Nat]
    BY <1>2, <1>3, <1>4, <1>6
  <2>2. savings' \in Int
    BY <1>2, <1>3, <1>5
  <2> QED
    BY <2>1, <2>2
<1>8. PlanShown(h)
  BY <1>1, <1>7 DEF PayoutIInv, PayoutRowsOK, PlanShown, KnowsPlan
<1>9. PayoutLoneShown(h)
  <2> SUFFICES ASSUME Lone'
               PROVE  /\ OneOpen' /\ Tally' /\ Looked(h)'
                      /\ \E n \in 0..begun' : Prefix(n)' /\ (at'[h] # "idle" => n < begun')
    BY DEF PayoutLoneShown
  <2>1. OneOpen /\ Tally /\ i \in OpenApps /\ begun' = begun
    BY <1>1, StaysLoneCast DEF Looked, i
  <2>2. PICK n \in 0..begun : Prefix(n) /\ n < begun
    BY <1>1, StaysLoneCast
  <2>3. apps[i].status \in Open
    BY <2>1 DEF OpenApps
  <2>4. /\ apps'[i] = a /\ \A j \in Apps \ {i} : apps'[j] = apps[j] /\ back'[j] = back[j]
        /\ back'[i] = back[i] + 1
    BY <1>2, <1>3, <1>4
  <2>5. OneOpen'
    BY <1>6, <2>1, <2>4 DEF OneOpen, OpenApps, Open
  <2>6. Tally'
    BY <1>1, <1>4, <1>6, <2>1, <2>3, <2>4 DEF Tally, Open
  <2>7. \A j \in Apps : (apps'[j].status # "none") <=> (j <= n)
    BY <1>4, <1>6, <2>2, <2>3, <2>4 DEF Prefix, Open
  <2> QED
    BY <1>1, <2>1, <2>2, <2>5, <2>6, <2>7 DEF Looked, Prefix
<1> QED
  BY <1>8, <1>9

-----------------------------------------------------------------------------
PayoutStep(h) ==
    \/ FindExisting(h) \/ ReadBalance(h) \/ ReadMonth(h) \/ BookApplication(h)
    \/ BookFastPayout(h) \/ ProcessPayoutRequest(h) \/ CancelPayoutRequest(h)

\* A step of a handler that has started keeps the invariant.
LEMMA PayoutStepKeeps == ASSUME PayoutIInv, NEW h \in Handlers, PayoutStep(h) PROVE PayoutIInv'
<1>1. at[h] # "idle" /\ \E l \in PayoutLabels : Continue(h, l)
  <2> USE DEF PayoutLabels, PayoutDone, End
  <2>1. CASE FindExisting(h)
    BY <2>1 DEF FindExisting
  <2>2. CASE ReadMonth(h)
    BY <2>2 DEF ReadMonth
  <2>3. CASE ReadBalance(h) \/ BookApplication(h) \/ BookFastPayout(h)
    BY <2>3 DEF ReadBalance, BookApplication, BookFastPayout
  <2>4. CASE ProcessPayoutRequest(h) \/ CancelPayoutRequest(h)
    BY <2>4 DEF ProcessPayoutRequest, CancelPayoutRequest
  <2> QED
    BY <2>1, <2>2, <2>3, <2>4 DEF PayoutStep
<1>2. PICK l \in PayoutLabels : Continue(h, l) /\ at[h] # "idle"
  BY <1>1
<1>3. PayoutLabelsOK' /\ MovesTo(h, l) /\ overlapped' = overlapped /\ (~overlapped => OnlyOne(h))
  BY <1>2, ContinueMoves DEF PayoutIInv, PayoutLabelsOK
<1>4. PlanShown(h) /\ PayoutLoneShown(h)
  BY FindExistingShows, ReadBalanceShows, ReadMonthShows, BookApplicationShows,
     BookFastPayoutShows, ProcessShows, CancelShows DEF PayoutStep
<1> QED
  BY <1>3, <1>4, PayoutShowsIsEnough

-----------------------------------------------------------------------------
(* Requests *)

\* Who starts alone finds the applications as they should be.
LEMMA BeginsLone ==
  ASSUME PayoutIInv, NEW h \in Handlers, NEW l \in PayoutLabels, Begin(h, l)
  PROVE  /\ PayoutLabelsOK' /\ MovesTo(h, l) /\ at'[h] = l
         /\ ~overlapped' => OnlyOne(h) /\ ~overlapped
         /\ Lone /\ ~overlapped' =>
               /\ OneOpen /\ Tally
               /\ begun \in Nat /\ begun' = begun + 1 /\ \E n \in 0..begun : Prefix(n)
<1>1. /\ PayoutLabelsOK' /\ MovesTo(h, l) /\ begun' = begun + 1
      /\ ~overlapped' => ~overlapped /\ AtRest
  BY BeginMoves DEF PayoutIInv, PayoutLabelsOK
<1>2. AtRest => OnlyOne(h)
  BY DEF AtRest, Idle, OnlyOne
<1>3. begun \in Nat
  BY HandlerBoundAssumption DEF PayoutIInv, PayoutLabelsOK, Bounded
<1> QED
  BY <1>1, <1>2, <1>3 DEF PayoutIInv, LoneInv, MovesTo

\* A request that changes no application.
LEMMA BeginsSame ==
  ASSUME PayoutIInv, NEW h \in Handlers, NEW l \in PayoutLabels, Begin(h, l), PlanShown(h),
         UNCHANGED <<apps, sent, back, reopened>>, Lone => Looked(h)'
  PROVE  PayoutIInv'
<1>1. /\ PayoutLabelsOK' /\ MovesTo(h, l)
      /\ ~overlapped' => OnlyOne(h) /\ ~overlapped
      /\ Lone /\ ~overlapped' =>
            /\ OneOpen /\ Tally
            /\ begun \in Nat /\ begun' = begun + 1 /\ \E n \in 0..begun : Prefix(n)
  BY BeginsLone
<1>2. PayoutLoneShown(h)
  <2> SUFFICES ASSUME Lone'
               PROVE  /\ OneOpen' /\ Tally' /\ Looked(h)'
                      /\ \E n \in 0..begun' : Prefix(n)' /\ (at'[h] # "idle" => n < begun')
    BY DEF PayoutLoneShown
  <2>1. Lone /\ ~overlapped'
    BY <1>1 DEF Lone
  <2>2. PICK n \in 0..begun : Prefix(n)
    BY <1>1, <2>1
  <2>3. n \in 0..begun' /\ n < begun' /\ Prefix(n)'
    BY <1>1, <2>1, <2>2 DEF Prefix
  <2>4. OneOpen' /\ Tally'
    BY <1>1, <2>1 DEF OneOpen, Tally, OpenApps
  <2> QED
    BY <2>1, <2>3, <2>4
<1> QED
  BY <1>1, <1>2, PayoutShowsIsEnough

LEMMA EarnKeeps == ASSUME PayoutIInv, NEW h \in Handlers, Earn(h) PROVE PayoutIInv'
<1>1. /\ Begin(h, "idle") /\ savings' = savings + Earning /\ recent' = recent + Earning
      /\ UNCHANGED <<matured, apps, sent, back, fastOut, day, plan, reopened>>
  BY DEF Earn
<1>2. "idle" \in PayoutLabels
  BY DEF PayoutLabels
<1>3. at'[h] = "idle"
  BY <1>1, <1>2, BeginsLone
<1>4. savings' \in Int /\ recent' \in Nat
  BY <1>1, FeeAssumption DEF PayoutIInv, PayoutRowsOK
<1>5. PlanShown(h) /\ Looked(h)'
  BY <1>1, <1>3, <1>4 DEF PayoutIInv, PayoutRowsOK, PlanShown, KnowsPlan, Looked
<1> QED
  BY <1>1, <1>2, <1>5, BeginsSame

LEMMA ApplyKeeps ==
  ASSUME PayoutIInv, NEW h \in Handlers,
         RequestPayout(h) \/ HoldPayout(h) \/ RequestFastPayout(h)
  PROVE  PayoutIInv'
<1>1. UNCHANGED <<savings, recent, matured, apps, sent, back, fastOut, reopened, day>>
  BY DEF RequestPayout, HoldPayout, RequestFastPayout, payoutRows
<1>2. PICK k \in {"apply", "hold", "fast"}, n \in Nat :
         /\ Plan(h, Planned(k, n, 0, 0, 1))
         /\ Begin(h, IF k = "apply" THEN "look" ELSE "readBalance")
  <2>1. CASE RequestPayout(h)
    <3>1. PICK n \in Nets \cup {0} : Plan(h, Planned("apply", n, 0, 0, 1))
      BY <2>1 DEF RequestPayout
    <3>2. n \in Nat
      BY FeeAssumption
    <3> QED
      BY <2>1, <3>1, <3>2 DEF RequestPayout
  <2>2. CASE HoldPayout(h)
    BY <2>2 DEF HoldPayout
  <2>3. CASE RequestFastPayout(h)
    BY <2>3 DEF RequestFastPayout
  <2> QED
    BY <2>1, <2>2, <2>3
<1> DEFINE p == Planned(k, n, 0, 0, 1)
           l == IF k = "apply" THEN "look" ELSE "readBalance"
<1>3. p \in PlanType /\ p.kind = k
  BY PlannedType
<1> HIDE DEF p
<1>4. /\ plan'[h] = p /\ plan' \in [Handlers -> PlanType]
      /\ \A g \in Handlers \ {h} : plan'[g] = plan[g]
  BY <1>2, <1>3, Plans DEF PayoutIInv, p
<1>5. l \in PayoutLabels /\ Begin(h, l)
  BY <1>2 DEF PayoutLabels
<1>6. at'[h] = l
  BY <1>5, BeginsLone
<1>7. PlanShown(h) /\ Looked(h)'
  BY <1>1, <1>3, <1>4, <1>6 DEF PayoutIInv, PayoutRowsOK, PlanShown, KnowsPlan, Looked
<1> QED
  BY <1>1, <1>5, <1>7, BeginsSame

LEMMA DecideKeeps ==
  ASSUME PayoutIInv, NEW h \in Handlers, ProcessRead(h) \/ CancelRead(h)
  PROVE  PayoutIInv'
<1>1. PICK i \in OpenApps, l \in {"process", "cancel"} :
         /\ Begin(h, l) /\ Plan(h, Planned("none", 0, 0, 0, i))
         /\ UNCHANGED <<savings, recent, matured, apps, sent, back, fastOut, reopened, day>>
  BY DEF ProcessRead, CancelRead, payoutRows
<1> DEFINE p == Planned("none", 0, 0, 0, i)
<1>2. i \in Apps
  BY DEF OpenApps
<1>3. p \in PlanType /\ p.kind = "none" /\ p.app = i
  BY <1>2, PlannedType
<1> HIDE DEF p
<1>4. /\ plan'[h] = p /\ plan' \in [Handlers -> PlanType]
      /\ \A g \in Handlers \ {h} : plan'[g] = plan[g]
  BY <1>1, <1>3, Plans DEF PayoutIInv, p
<1>5. l \in PayoutLabels
  BY DEF PayoutLabels
<1>6. at'[h] = l
  BY <1>1, <1>5, BeginsLone
<1>7. PlanShown(h)
  BY <1>1, <1>2, <1>3, <1>4, <1>6 DEF PayoutIInv, PayoutRowsOK, PlanShown, KnowsPlan
<1>8. Looked(h)'
  BY <1>1, <1>3, <1>4, <1>6 DEF Looked, OpenApps
<1> QED
  BY <1>1, <1>5, <1>7, <1>8, BeginsSame

\* The operator puts an application on hold, or releases one.
LEMMA HoldKeeps ==
  ASSUME PayoutIInv, NEW h \in Handlers, ReleaseHold(h) \/ PutOnHold(h)
  PROVE  PayoutIInv'
<1>1. /\ Begin(h, "idle")
      /\ UNCHANGED <<savings, recent, matured, sent, back, fastOut, day, plan>>
  BY DEF ReleaseHold, PutOnHold
<1>2. PICK i \in Apps, t \in Open :
         /\ apps[i].status # "none" /\ apps' = [apps EXCEPT ![i] = App(t, apps[i].credit)]
         /\ reopened' = (reopened \/ i \notin OpenApps)
  <2>1. CASE ReleaseHold(h)
    <3>1. PICK i \in Apps : /\ apps[i].status = "on_hold"
                            /\ apps' = [apps EXCEPT ![i] = App("pending", apps[i].credit)]
                            /\ reopened' = reopened
      BY <2>1 DEF ReleaseHold
    <3>2. i \in OpenApps /\ apps[i].status # "none" /\ "pending" \in Open
      BY <3>1 DEF OpenApps, Open
    <3>3. reopened' = (reopened \/ i \notin OpenApps)
      BY <3>1, <3>2 DEF PayoutIInv, PayoutRowsOK
    <3> QED
      BY <3>1, <3>2, <3>3
  <2>2. CASE PutOnHold(h)
    BY <2>2 DEF PutOnHold, Unused, Open
  <2> QED
    BY <2>1, <2>2
<1> DEFINE a == App(t, apps[i].credit)
<1>3. apps \in [Apps -> AppType]
  BY DEF PayoutIInv, PayoutRowsOK
<1>4. apps[i].credit \in Nat
  BY <1>3 DEF AppType
<1>5. a \in AppType /\ a.status = t
  BY <1>4, AppIsApp DEF Open, PayoutStatus
<1>6. /\ apps' \in [Apps -> AppType] /\ apps'[i] = a
      /\ \A j \in Apps \ {i} : apps'[j] = apps[j]
  BY <1>2, <1>3, <1>5
<1> HIDE DEF a
<1>7. "idle" \in PayoutLabels
  BY DEF PayoutLabels
<1>8. /\ PayoutLabelsOK' /\ MovesTo(h, "idle") /\ at'[h] = "idle"
      /\ ~overlapped' => OnlyOne(h) /\ ~overlapped
      /\ Lone /\ ~overlapped' =>
            /\ OneOpen /\ Tally
            /\ begun \in Nat /\ begun' = begun + 1 /\ \E n \in 0..begun : Prefix(n)
  BY <1>1, <1>7, BeginsLone
<1>9. reopened' \in BOOLEAN
  BY <1>2 DEF PayoutIInv, PayoutRowsOK
<1>10. PlanShown(h)
  BY <1>1, <1>6, <1>8, <1>9 DEF PayoutIInv, PayoutRowsOK, PlanShown, KnowsPlan
<1>11. PayoutLoneShown(h)
  <2> SUFFICES ASSUME Lone'
               PROVE  /\ OneOpen' /\ Tally' /\ Looked(h)'
                      /\ \E n \in 0..begun' : Prefix(n)' /\ (at'[h] # "idle" => n < begun')
    BY DEF PayoutLoneShown
  <2>1. Lone /\ ~overlapped' /\ i \in OpenApps
    BY <1>2, <1>8 DEF Lone
  <2>2. PICK n \in 0..begun : Prefix(n)
    BY <1>8, <2>1
  <2>3. n \in 0..begun'
    BY <1>8, <2>1, <2>2
  <2>4. \A j \in Apps : (apps'[j].status # "none") <=> (j <= n)
    BY <1>2, <1>5, <1>6, <2>2 DEF Prefix, Open
  <2>5. OneOpen'
    BY <1>6, <1>8, <2>1 DEF OneOpen, OpenApps
  <2>6. apps[i].status \in Open
    BY <2>1 DEF OpenApps
  <2>7. Tally'
    BY <1>1, <1>5, <1>6, <1>8, <2>1, <2>6 DEF Tally, Open
  <2> QED
    BY <1>8, <2>3, <2>4, <2>5, <2>7 DEF Looked, Prefix
<1> QED
  BY <1>7, <1>8, <1>10, <1>11, PayoutShowsIsEnough

LEMMA PayoutDieKeeps == ASSUME PayoutIInv, NEW h \in Handlers, PayoutDie(h) PROVE PayoutIInv'
<1>1. /\ Refused(h, "idle") /\ at[h] # "idle" /\ Plan(h, NoPlan)
      /\ UNCHANGED <<savings, recent, matured, apps, sent, back, fastOut, reopened, day>>
  BY DEF PayoutDie, Die, payoutRows
<1>2. "idle" \in PayoutLabels
  BY DEF PayoutLabels
<1>3. /\ PayoutLabelsOK' /\ MovesTo(h, "idle") /\ at'[h] = "idle"
      /\ begun' = begun /\ overlapped' = overlapped /\ (~overlapped => OnlyOne(h))
  BY <1>1, <1>2, RefusedMoves DEF PayoutIInv, PayoutLabelsOK, MovesTo
<1>4. NoPlan \in PlanType
  BY PlannedType DEF NoPlan
<1>5. plan' \in [Handlers -> PlanType] /\ \A g \in Handlers \ {h} : plan'[g] = plan[g]
  BY <1>1, <1>4, Plans DEF PayoutIInv
<1>6. PlanShown(h)
  BY <1>1, <1>3, <1>5 DEF PayoutIInv, PayoutRowsOK, PlanShown, KnowsPlan
<1>7. PayoutLoneShown(h)
  <2> SUFFICES ASSUME Lone'
               PROVE  /\ OneOpen' /\ Tally' /\ Looked(h)'
                      /\ \E n \in 0..begun' : Prefix(n)' /\ (at'[h] # "idle" => n < begun')
    BY DEF PayoutLoneShown
  <2>1. Lone
    BY <1>1, <1>3 DEF Lone
  <2>2. OneOpen /\ Tally
    BY <2>1 DEF PayoutIInv, LoneInv
  <2>3. PICK n \in 0..begun : Prefix(n)
    BY <2>1 DEF PayoutIInv, LoneInv
  <2>4. OneOpen' /\ Tally' /\ Prefix(n)'
    BY <1>1, <2>2, <2>3 DEF OneOpen, Tally, OpenApps, Prefix
  <2> QED
    BY <1>3, <2>3, <2>4 DEF Looked
<1> QED
  BY <1>2, <1>3, <1>6, <1>7, PayoutShowsIsEnough

-----------------------------------------------------------------------------
(* The theorems *)

\* What changes neither handlers, plans nor applications keeps the invariant.
LEMMA RestKeeps ==
  ASSUME PayoutIInv, UNCHANGED <<at, begun, faults, overlapped, apps, sent, back, reopened, plan>>,
         PayoutRowsOK'
  PROVE  PayoutIInv'
<1>1. PayoutLabelsOK'
  BY DEF PayoutIInv, PayoutLabelsOK, Bounded, Sequential, OnlyOne
<1>2. \A h \in Handlers : KnowsPlan(h)'
  BY DEF PayoutIInv, KnowsPlan, Allowed, Deduction, NetOf
<1>3. LoneInv'
  BY DEF PayoutIInv, LoneInv, Lone, OneOpen, Tally, OpenApps, Looked, Prefix
<1> QED
  BY <1>1, <1>2, <1>3 DEF PayoutIInv

LEMMA HalfMonthKeeps == ASSUME PayoutIInv, HalfMonthPasses PROVE PayoutIInv'
<1>1. UNCHANGED <<at, begun, faults, overlapped, savings, apps, sent, back, fastOut, plan, reopened>>
  BY DEF HalfMonthPasses, handlerVars
<1>2. day' \in 0..MaxDay
  BY FeeAssumption DEF PayoutIInv, PayoutRowsOK, HalfMonthPasses
<1>3. recent' \in Nat /\ matured' \in Nat
  <2>1. recent \in Nat /\ matured \in Nat
    BY DEF PayoutIInv, PayoutRowsOK
  <2>2. \/ matured' = matured + recent /\ recent' = 0
        \/ matured' = matured /\ recent' = recent
    BY DEF HalfMonthPasses
  <2> QED
    BY <2>1, <2>2
<1>4. PayoutRowsOK'
  BY <1>1, <1>2, <1>3 DEF PayoutIInv, PayoutRowsOK
<1> QED
  BY <1>1, <1>4, RestKeeps

\* Every step keeps the invariant.
LEMMA NextPayout == PayoutIInv /\ [PayoutNext]_<<handlerVars, payoutVars>> => PayoutIInv'
<1> SUFFICES ASSUME PayoutIInv, [PayoutNext]_<<handlerVars, payoutVars>> PROVE PayoutIInv'
  OBVIOUS
<1>1. CASE PayoutNext
  BY <1>1, PayoutStepKeeps, EarnKeeps, ApplyKeeps, DecideKeeps, HoldKeeps, PayoutDieKeeps,
     HalfMonthKeeps DEF PayoutNext, PayoutStep
<1>2. CASE UNCHANGED <<handlerVars, payoutVars>>
  <2>1. UNCHANGED <<at, begun, faults, overlapped, savings, recent, matured, apps, sent, back,
                    fastOut, reopened, day, plan>>
    BY <1>2 DEF handlerVars, payoutVars, payoutRows
  <2>2. PayoutRowsOK'
    BY <2>1 DEF PayoutIInv, PayoutRowsOK
  <2> QED
    BY <2>1, <2>2, RestKeeps
<1> QED
  BY <1>1, <1>2

\* The invariant holds in every behaviour.
THEOREM PayoutInvariant == PayoutSpec => []PayoutIInv
<1>1. PayoutInit => PayoutIInv
  BY InitPayout
<1>2. PayoutIInv /\ [PayoutNext]_<<handlerVars, payoutVars>> => PayoutIInv'
  BY NextPayout
<1> QED
  BY <1>1, <1>2, PTL DEF PayoutSpec

\* Every variable of the payouts keeps its type; no application is negative.
THEOREM PayoutTypes == PayoutSpec => []PayoutTypeOK
<1>1. PayoutIInv => PayoutTypeOK
  BY DEF PayoutIInv, PayoutLabelsOK, PayoutRowsOK, PlanType, AppType, PayoutTypeOK
<1> QED
  BY <1>1, PayoutInvariant, PTL

\* A cast whose requests do not overlap has one open application at most.
THEOREM PayoutOneOpen == PayoutSpec => []OneOpenApplication
<1>1. PayoutIInv => OneOpenApplication
  BY DEF PayoutIInv, LoneInv, Lone, OneOpen, OneOpenApplication
<1> QED
  BY <1>1, PayoutInvariant, PTL

\* An application is transferred once or returned once, never both.
THEOREM PayoutTransferredOrReturned == PayoutSpec => []TransferredOrReturned
<1>1. PayoutIInv => TransferredOrReturned
  BY DEF PayoutIInv, LoneInv, Lone, Tally, TransferredOrReturned
<1> QED
  BY <1>1, PayoutInvariant, PTL

-----------------------------------------------------------------------------
(* What can be applied for *)

\* What has been applied for and not come back.
Applied == [i \in Apps |-> Credits(i)]
Total == SumOver(Applied, Apps)

\* The rows of applications and the balance add up, and a lone handler knows the
\* balance it has read and applies for no more than has matured.
Knows(h) ==
    /\ at[h] = "readMonth" => plan[h].balance = savings
    /\ at[h] \in {"holdLook", "book"} /\ plan[h].kind # "fast" => plan[h].payable <= matured - Total

Balance ==
    Lone /\ fastOut = 0 =>
        /\ savings = recent + matured - Total
        /\ Total <= matured
        /\ \A h \in Handlers : Knows(h)

\* Credits are natural numbers, and so is their sum.
LEMMA TotalIsNat ==
  ASSUME PayoutRowsOK
  PROVE  /\ IsFiniteSet(Apps) /\ Total \in Nat
         /\ \A i \in Apps : Applied[i] = Credits(i) /\ Credits(i) \in Nat
<1>1. IsFiniteSet(Apps)
  <2>1. 1 \in Int /\ MaxRequests \in Int
    BY HandlerBoundAssumption
  <2> QED
    BY <2>1, FS_Interval DEF Apps
<1>2. \A i \in Apps : Applied[i] = Credits(i) /\ Credits(i) \in Nat
  BY DEF PayoutRowsOK, AppType, Applied, Credits
<1>3. Total \in Nat
  <2> HIDE DEF Applied
  <2>1. \A i \in Apps : Applied[i] \in Nat
    BY <1>2
  <2> QED
    BY <1>1, <2>1, SumNat DEF Total
<1> QED
  BY <1>1, <1>2, <1>3

\* Outstanding adds up the same credits, application by application.
LEMMA OutstandingIsTotal ==
  ASSUME PayoutRowsOK PROVE Outstanding[MaxRequests] = Total
<1> DEFINE M == MaxRequests
           Runs(o) == o = [n \in 0..M |-> IF n = 0 THEN 0 ELSE o[n - 1] + Credits(n)]
           Totals(o) == o = [n \in 0..M |-> IF n = 0 THEN 0 ELSE o[n - 1] + Applied[n]]
<1>1. M \in Nat /\ Apps = 1..M
  BY HandlerBoundAssumption DEF Apps
<1>2. \A n \in 1..M : Applied[n] = Credits(n) /\ Credits(n) \in Int
  BY <1>1, TotalIsNat
<1> HIDE DEF M
<1>3. \A o : Runs(o) <=> Totals(o)
  <2> TAKE o
  <2>1. \A n \in 0..M : (IF n = 0 THEN 0 ELSE o[n - 1] + Credits(n))
                        = (IF n = 0 THEN 0 ELSE o[n - 1] + Applied[n])
    BY <1>1, <1>2
  <2> QED
    BY <2>1
<1>4. \A n \in 1..M : Applied[n] \in Int
  BY <1>2
<1> HIDE DEF Applied
<1>5. \E o : Totals(o)
  BY <1>1, <1>4, TotalsExist
<1>6. Outstanding = CHOOSE o : Runs(o)
  BY DEF Outstanding, M
<1>7. Runs(Outstanding)
  <2> HIDE DEF Runs
  <2> QED
    BY <1>3, <1>5, <1>6
<1>8. Totals(Outstanding)
  BY <1>3, <1>7
<1>9. Outstanding[M] = SumOver(Applied, 1..M)
  <2> HIDE DEF Runs
  <2> QED
    BY <1>1, <1>4, <1>8, RunningTotals
<1> QED
  BY <1>1, <1>9 DEF Total, M

\* A step that changes one application changes the total by its credits.
LEMMA TotalChanges ==
  ASSUME PayoutRowsOK, apps' \in [Apps -> AppType], NEW i \in Apps,
         \A j \in Apps \ {i} : apps'[j] = apps[j]
  PROVE  Total' = Total - Credits(i) + Credits(i)'
<1>1. IsFiniteSet(Apps) /\ \A j \in Apps : Applied[j] = Credits(j) /\ Credits(j) \in Nat
  BY TotalIsNat
<1>2. \A j \in Apps : Applied'[j] = Credits(j)' /\ Credits(j)' \in Nat
  BY DEF AppType, Applied, Credits
<1>3. \A j \in Apps \ {i} : Credits(j)' = Credits(j)
  BY DEF Credits
<1>4. PICK f, g : f = Applied /\ g = Applied'
  OBVIOUS
<1>5. \A j \in Apps : f[j] \in Int /\ g[j] \in Int
  BY <1>4, <1>1, <1>2
<1>6. \A j \in Apps \ {i} : g[j] = f[j]
  BY <1>4, <1>1, <1>2, <1>3
<1>7. f[i] = Credits(i) /\ g[i] = Credits(i)'
  BY <1>4, <1>1, <1>2
<1>8. Total = SumOver(f, Apps) /\ Total' = SumOver(g, Apps)
  BY <1>4 DEF Total
<1>9. /\ f[i] \in Int /\ g[i] \in Int
      /\ SumOver(f, Apps) \in Int /\ SumOver(g, Apps) \in Int
  BY <1>1, <1>5, SumInt
<1>10. SumOver(g, Apps) = SumOver(f, Apps) - f[i] + g[i]
  BY <1>1, <1>5, <1>6, <1>9, SumUpdate
<1> QED
  BY <1>7, <1>8, <1>10

LEMMA TotalStays == ASSUME apps' = apps PROVE Total' = Total
BY DEF Total, Applied, Credits

\* Who runs alone shows it for all.
LEMMA BalanceShows ==
  ASSUME NEW h \in Handlers, NEW l, MovesTo(h, l), ~overlapped' => OnlyOne(h),
         Lone' /\ fastOut' = 0 =>
             savings' = recent' + matured' - Total' /\ Total' <= matured' /\ Knows(h)'
  PROVE  Balance'
<1> SUFFICES ASSUME Lone', fastOut' = 0
             PROVE  /\ savings' = recent' + matured' - Total' /\ Total' <= matured'
                    /\ \A g \in Handlers : Knows(g)'
  BY DEF Balance
<1>1. \A g \in Handlers \ {h} : at'[g] = "idle"
  BY DEF MovesTo, OnlyOne, Lone
<1>2. \A g \in Handlers \ {h} : Knows(g)'
  BY <1>1 DEF Knows
<1> QED
  BY <1>2

\* The amounts as they are.
LEMMA Amounts ==
  ASSUME PayoutIInv
  PROVE  /\ savings \in Int /\ recent \in Nat /\ matured \in Nat /\ Total \in Nat
         /\ fastOut \in Nat
BY TotalIsNat DEF PayoutIInv, PayoutRowsOK

\* A step of a handler that has started.
LEMMA StepBalances ==
  ASSUME PayoutIInv, Balance, NEW h \in Handlers, PayoutStep(h), PayoutIInv'
  PROVE  Balance'
<1>1. at[h] # "idle" /\ \E l \in PayoutLabels : Continue(h, l)
  <2> USE DEF PayoutLabels, PayoutDone, End
  <2>1. CASE FindExisting(h)
    BY <2>1 DEF FindExisting
  <2>2. CASE ReadMonth(h)
    BY <2>2 DEF ReadMonth
  <2>3. CASE ReadBalance(h) \/ BookApplication(h) \/ BookFastPayout(h)
    BY <2>3 DEF ReadBalance, BookApplication, BookFastPayout
  <2>4. CASE ProcessPayoutRequest(h) \/ CancelPayoutRequest(h)
    BY <2>4 DEF ProcessPayoutRequest, CancelPayoutRequest
  <2> QED
    BY <2>1, <2>2, <2>3, <2>4 DEF PayoutStep
<1>2. PICK l \in PayoutLabels : Continue(h, l) /\ at[h] # "idle"
  BY <1>1
<1>3. MovesTo(h, l) /\ at'[h] = l /\ overlapped' = overlapped /\ (~overlapped' => OnlyOne(h))
  BY <1>2, ContinueMoves DEF PayoutIInv, PayoutLabelsOK, MovesTo
<1>4. /\ savings \in Int /\ recent \in Nat /\ matured \in Nat /\ Total \in Nat
      /\ fastOut \in Nat
  BY Amounts
<1> SUFFICES ASSUME Lone', fastOut' = 0
             PROVE  savings' = recent' + matured' - Total' /\ Total' <= matured' /\ Knows(h)'
  BY <1>3, BalanceShows
<1>5. reopened' = reopened
  BY DEF PayoutStep, FindExisting, ReadMonth, ReadBalance, BookApplication, BookFastPayout,
         ProcessPayoutRequest, CancelPayoutRequest, payoutRows
<1>6. Lone
  BY <1>3, <1>5 DEF Lone
<1>7. Looked(h) /\ KnowsPlan(h)
  BY <1>6 DEF PayoutIInv, LoneInv
<1>8. plan[h] \in PlanType /\ apps \in [Apps -> AppType] /\ apps' \in [Apps -> AppType]
  BY DEF PayoutIInv, PayoutRowsOK
<1>9. CASE FindExisting(h)
  <2>1. /\ UNCHANGED <<savings, recent, matured, apps, fastOut>> /\ at[h] \in {"look", "holdLook"}
        /\ \/ at'[h] = "idle"
           \/ plan' = plan /\ at'[h] = IF at[h] = "look" THEN "readBalance" ELSE "book"
    BY <1>9, PayoutArrives DEF PayoutIInv, FindExisting, payoutRows, PayoutDone, End, Continue
  <2>2. Total' = Total
    BY <2>1, TotalStays
  <2>3. savings = recent + matured - Total /\ Total <= matured /\ Knows(h)
    BY <1>6, <2>1 DEF Balance
  <2> QED
    BY <2>1, <2>2, <2>3 DEF Knows
<1>10. CASE ReadBalance(h)
  <2>1. /\ UNCHANGED <<savings, recent, matured, apps, fastOut>> /\ at'[h] = "readMonth"
        /\ plan'[h].balance = savings
    <3>1. plan'[h] = Planned(plan[h].kind, plan[h].net, savings, 0, 1)
      BY <1>10 DEF PayoutIInv, PayoutRowsOK, ReadBalance, Plan
    <3> QED
      BY <1>10, <3>1, PayoutArrives DEF PayoutIInv, ReadBalance, payoutRows, Planned, Continue
  <2>2. Total' = Total
    BY <2>1, TotalStays
  <2> QED
    BY <1>6, <2>1, <2>2 DEF Balance, Knows
<1>11. CASE ReadMonth(h)
  <2> DEFINE n == Payable(plan[h].balance, recent)
  <2>1. /\ UNCHANGED <<savings, recent, matured, apps, fastOut>> /\ at[h] = "readMonth"
    BY <1>11 DEF ReadMonth, payoutRows
  <2>2. Total' = Total
    BY <2>1, TotalStays
  <2>3. savings = recent + matured - Total /\ Total <= matured /\ plan[h].balance = savings
    BY <1>6, <2>1 DEF Balance, Knows
  <2>4. n = matured - Total
    BY <1>4, <2>3 DEF Payable, Larger
  <2>5. \/ at'[h] = "idle"
        \/ at'[h] \in {"holdLook", "book"} /\ plan'[h].payable = n
    <3> HIDE DEF n
    <3>1. CASE Allowed(plan[h], n)
      <4>1. plan'[h] = Planned(plan[h].kind, plan[h].net, plan[h].balance, n, 1)
        BY <1>11, <3>1 DEF PayoutIInv, PayoutRowsOK, ReadMonth, Plan, n
      <4>2. at'[h] \in {"holdLook", "book"}
        BY <1>11, <3>1, PayoutArrives DEF PayoutIInv, ReadMonth, Continue, n
      <4> QED
        BY <4>1, <4>2 DEF Planned
    <3>2. CASE ~Allowed(plan[h], n)
      BY <1>11, <3>2, PayoutEnds DEF PayoutIInv, ReadMonth, n
    <3> QED
      BY <3>1, <3>2
  <2> QED
    BY <1>4, <2>1, <2>2, <2>3, <2>4, <2>5 DEF Knows
<1>12. CASE BookApplication(h)
  <2> DEFINE d == Deduction(plan[h], plan[h].payable)
             f == CHOOSE j \in Unused : \A k \in Unused : j <= k
  <2>1. /\ at[h] = "book" /\ plan[h].kind # "fast" /\ at'[h] = "idle"
        /\ UNCHANGED <<recent, matured, fastOut>>
        /\ savings' = savings - d
        /\ apps' = [apps EXCEPT ![f] =
               App(IF plan[h].kind = "hold" THEN "on_hold" ELSE "pending", d)]
    BY <1>12, PayoutEnds DEF PayoutIInv, BookApplication
  <2>2. /\ savings = recent + matured - Total /\ plan[h].payable <= matured - Total
    BY <1>6, <2>1 DEF Balance, Knows
  <2>3. d \in Nat /\ d <= plan[h].payable /\ plan[h].payable \in Nat
    <3>1. Allowed(plan[h], plan[h].payable) /\ plan[h].payable \in Nat
      BY <1>7, <1>8, <2>1 DEF KnowsPlan, PlanType
    <3> QED
      BY <1>8, <2>1, <3>1, DeductionIsNat DEF Allowed
  <2>4. f \in Apps /\ apps[f].status = "none"
    <3>1. PICK n \in 0..begun : Prefix(n) /\ n < begun
      BY <1>6, <1>1 DEF PayoutIInv, LoneInv
    <3>2. begun \in 0..MaxRequests /\ MaxRequests \in Nat
      BY HandlerBoundAssumption DEF PayoutIInv, PayoutLabelsOK, Bounded
    <3>3. n + 1 \in Unused /\ \A k \in Unused : n + 1 <= k
      BY <3>1, <3>2 DEF Unused, Prefix, Apps
    <3>4. f \in Unused
      BY <3>3
    <3> HIDE DEF f
    <3> QED
      BY <3>4 DEF Unused
  <2> HIDE DEF d, f
  <2>5. PICK i \in Apps : /\ apps[i].status = "none"
                         /\ apps' = [apps EXCEPT ![i] =
                                App(IF plan[h].kind = "hold" THEN "on_hold" ELSE "pending", d)]
    BY <2>1, <2>4
  <2>6. /\ apps'[i].credit = d /\ apps'[i].status \in Open
        /\ \A j \in Apps \ {i} : apps'[j] = apps[j]
    BY <1>8, <2>5 DEF App, Open
  <2>7. Credits(i) = 0 /\ Credits(i)' = d
    BY <2>5, <2>6 DEF Credits, Open
  <2>8. Total' = Total - Credits(i) + Credits(i)'
    BY <1>8, <2>6, TotalChanges DEF PayoutIInv
  <2>9. Total' = Total + d
    BY <1>4, <2>3, <2>7, <2>8
  <2> QED
    BY <1>4, <2>1, <2>2, <2>3, <2>9 DEF Knows
<1>13. CASE BookFastPayout(h)
  <2>1. /\ at[h] = "book" /\ plan[h].kind = "fast" /\ fastOut' = fastOut + plan[h].balance
    BY <1>13 DEF BookFastPayout
  <2>2. Allowed(plan[h], plan[h].payable) /\ plan[h].payable \in Nat
    BY <1>7, <1>8, <2>1 DEF KnowsPlan, PlanType
  <2>3. plan[h].balance \in Nat /\ plan[h].balance > 0
    BY <1>8, <2>1, <2>2, DeductionIsNat DEF Deduction
  <2>4. fastOut' # 0
    BY <1>4, <2>1, <2>3
  <2> QED
    BY <2>4
<1>14. CASE ProcessPayoutRequest(h)
  <2>1. /\ at[h] = "process" /\ at'[h] = "idle"
        /\ UNCHANGED <<savings, recent, matured, fastOut>>
    BY <1>14, PayoutEnds DEF PayoutIInv, ProcessPayoutRequest
  <2>2. PICK i \in Apps : /\ apps[i].status \in Open
                         /\ apps' = [apps EXCEPT ![i] = App("processed", apps[i].credit)]
    BY <1>7, <1>14, <2>1 DEF Looked, OpenApps, ProcessPayoutRequest
  <2>3. apps'[i].credit = apps[i].credit /\ apps'[i].status = "processed"
    BY <1>8, <2>2 DEF App
  <2>4. \A j \in Apps \ {i} : apps'[j] = apps[j]
    BY <1>8, <2>2
  <2>5. Credits(i)' = Credits(i) /\ Credits(i) \in Nat
    BY <1>8, <2>2, <2>3, <2>4 DEF Credits, Open, AppType
  <2>6. Total' = Total - Credits(i) + Credits(i)'
    BY <1>8, <2>2, <2>4, TotalChanges DEF PayoutIInv
  <2>7. Total' = Total
    BY <1>4, <2>5, <2>6
  <2> QED
    BY <1>6, <2>1, <2>7 DEF Balance, Knows
<1>15. CASE CancelPayoutRequest(h)
  <2>1. /\ at[h] = "cancel" /\ at'[h] = "idle"
        /\ UNCHANGED <<recent, matured, fastOut>>
    BY <1>15, PayoutEnds DEF PayoutIInv, CancelPayoutRequest
  <2>2. PICK i \in Apps : /\ apps[i].status \in Open /\ savings' = savings + apps[i].credit
                         /\ apps' = [apps EXCEPT ![i] = App("cancelled", apps[i].credit)]
    BY <1>7, <1>15, <2>1 DEF Looked, OpenApps, CancelPayoutRequest
  <2>3. apps'[i].status = "cancelled"
    BY <1>8, <2>2 DEF App
  <2>4. \A j \in Apps \ {i} : apps'[j] = apps[j]
    BY <1>8, <2>2
  <2>5. Credits(i)' = 0 /\ Credits(i) = apps[i].credit /\ apps[i].credit \in Nat
    BY <1>8, <2>2, <2>3, <2>4 DEF Credits, Open, AppType
  <2>6. Total' = Total - Credits(i) + Credits(i)'
    BY <1>8, <2>2, <2>4, TotalChanges DEF PayoutIInv
  <2>7. Total' = Total - apps[i].credit
    BY <1>4, <2>5, <2>6
  <2>8. savings = recent + matured - Total /\ Total <= matured
    BY <1>6, <2>1 DEF Balance
  <2> QED
    BY <1>4, <2>1, <2>2, <2>5, <2>7, <2>8 DEF Knows
<1> QED
  BY <1>9, <1>10, <1>11, <1>12, <1>13, <1>14, <1>15 DEF PayoutStep

\* A request, or a decision of the operator, that begins.
LEMMA BeginBalances ==
  ASSUME PayoutIInv, Balance, PayoutIInv', NEW h \in Handlers,
         NEW l \in {"idle", "look", "readBalance", "process", "cancel"}, Begin(h, l),
         UNCHANGED <<matured, fastOut>>,
         NEW d \in Nat, savings' = savings + d, recent' = recent + d,
         Lone' => Lone /\ Total' = Total
  PROVE  Balance'
<1>1. l \in PayoutLabels
  BY DEF PayoutLabels
<1>2. MovesTo(h, l) /\ at'[h] = l /\ (~overlapped' => OnlyOne(h))
  BY <1>1, BeginsLone
<1>3. Knows(h)'
  BY <1>2 DEF Knows
<1>4. /\ savings \in Int /\ recent \in Nat /\ matured \in Nat /\ Total \in Nat
  BY Amounts
<1>5. ASSUME Lone', fastOut' = 0
      PROVE  savings' = recent' + matured' - Total' /\ Total' <= matured'
  <2>1. fastOut' = fastOut /\ matured' = matured
    OBVIOUS
  <2>2. savings = recent + matured - Total /\ Total <= matured /\ Total' = Total
    BY <1>5, <2>1 DEF Balance
  <2> QED
    BY <1>4, <2>1, <2>2
<1> QED
  BY <1>2, <1>3, <1>5, BalanceShows

LEMMA RequestBalances ==
  ASSUME PayoutIInv, Balance, PayoutIInv', NEW h \in Handlers,
         \/ Earn(h) \/ RequestPayout(h) \/ HoldPayout(h) \/ RequestFastPayout(h)
         \/ ProcessRead(h) \/ CancelRead(h)
  PROVE  Balance'
<1>1. PICK l \in {"idle", "look", "readBalance", "process", "cancel"} : Begin(h, l)
  BY DEF Earn, RequestPayout, HoldPayout, RequestFastPayout, ProcessRead, CancelRead
<1>2. UNCHANGED <<matured, fastOut, apps, reopened>>
  BY DEF Earn, RequestPayout, HoldPayout, RequestFastPayout, ProcessRead, CancelRead, payoutRows
<1>3. PICK d \in Nat : savings' = savings + d /\ recent' = recent + d
  <2>1. savings \in Int /\ recent \in Nat /\ Earning \in Nat
    BY Amounts, FeeAssumption
  <2>2. CASE Earn(h)
    BY <2>1, <2>2 DEF Earn
  <2>3. CASE savings' = savings /\ recent' = recent
    BY <2>1, <2>3
  <2> QED
    BY <2>2, <2>3
       DEF RequestPayout, HoldPayout, RequestFastPayout, ProcessRead, CancelRead, payoutRows
<1>4. Lone' => Lone /\ Total' = Total
  <2>1. l \in PayoutLabels
    BY DEF PayoutLabels
  <2>2. ~overlapped' => ~overlapped
    BY <1>1, <2>1, BeginsLone
  <2> QED
    BY <1>2, <2>2, TotalStays DEF Lone
<1> QED
  BY <1>1, <1>2, <1>3, <1>4, BeginBalances

LEMMA HoldBalances ==
  ASSUME PayoutIInv, Balance, PayoutIInv', NEW h \in Handlers, ReleaseHold(h) \/ PutOnHold(h)
  PROVE  Balance'
<1>1. Begin(h, "idle") /\ UNCHANGED <<savings, recent, matured, fastOut>>
  BY DEF ReleaseHold, PutOnHold
<1>2. PICK i \in Apps, t \in Open :
         /\ apps' = [apps EXCEPT ![i] = App(t, apps[i].credit)]
         /\ reopened' = (reopened \/ i \notin OpenApps)
  <2>1. CASE ReleaseHold(h)
    <3>1. PICK i \in Apps : /\ apps[i].status = "on_hold"
                            /\ apps' = [apps EXCEPT ![i] = App("pending", apps[i].credit)]
                            /\ reopened' = reopened
      BY <2>1 DEF ReleaseHold
    <3>2. i \in OpenApps /\ "pending" \in Open
      BY <3>1 DEF OpenApps, Open
    <3>3. reopened' = (reopened \/ i \notin OpenApps)
      BY <3>1, <3>2 DEF PayoutIInv, PayoutRowsOK
    <3> QED
      BY <3>1, <3>2, <3>3
  <2>2. CASE PutOnHold(h)
    BY <2>2 DEF PutOnHold, Unused, Open
  <2> QED
    BY <2>1, <2>2
<1>3. ~overlapped' => ~overlapped
  <2>1. "idle" \in PayoutLabels
    BY DEF PayoutLabels
  <2> QED
    BY <1>1, <2>1, BeginsLone
<1>4. ASSUME Lone' PROVE Lone /\ Total' = Total
  <2>1. Lone /\ apps[i].status \in Open
    BY <1>2, <1>3, <1>4 DEF Lone, OpenApps
  <2>2. apps \in [Apps -> AppType] /\ apps' \in [Apps -> AppType]
    BY DEF PayoutIInv, PayoutRowsOK
  <2>3. apps'[i] = App(t, apps[i].credit) /\ \A j \in Apps \ {i} : apps'[j] = apps[j]
    BY <1>2, <2>2
  <2>4. Credits(i)' = Credits(i) /\ Credits(i) \in Nat
    BY <2>1, <2>2, <2>3 DEF Credits, Open, App, AppType
  <2>5. Total' = Total - Credits(i) + Credits(i)'
    BY <2>2, <2>3, TotalChanges DEF PayoutIInv
  <2> QED
    BY <2>1, <2>4, <2>5, Amounts
<1>5. savings' = savings + 0 /\ recent' = recent + 0
  BY <1>1, Amounts
<1> QED
  BY <1>1, <1>4, <1>5, BeginBalances

\* Every step keeps the balance.
LEMMA NextBalances ==
  ASSUME PayoutIInv, Balance, PayoutIInv', [PayoutNext]_<<handlerVars, payoutVars>>
  PROVE  Balance'
<1>1. CASE \E h \in Handlers : PayoutStep(h)
  BY <1>1, StepBalances
<1>2. CASE \E h \in Handlers : \/ Earn(h) \/ RequestPayout(h) \/ HoldPayout(h)
                               \/ RequestFastPayout(h) \/ ProcessRead(h) \/ CancelRead(h)
  BY <1>2, RequestBalances
<1>3. CASE \E h \in Handlers : ReleaseHold(h) \/ PutOnHold(h)
  BY <1>3, HoldBalances
<1>4. ASSUME NEW h \in Handlers, PayoutDie(h) PROVE Balance'
  <2>1. Refused(h, "idle") /\ at[h] # "idle"
    BY <1>4 DEF PayoutDie, Die
  <2>2. UNCHANGED <<savings, recent, matured, apps, fastOut, reopened>>
    BY <1>4 DEF PayoutDie, payoutRows
  <2>3. "idle" \in PayoutLabels
    BY DEF PayoutLabels
  <2>4. MovesTo(h, "idle") /\ at'[h] = "idle" /\ overlapped' = overlapped /\ (~overlapped => OnlyOne(h))
    BY <2>1, <2>3, RefusedMoves DEF PayoutIInv, PayoutLabelsOK, MovesTo
  <2>5. Total' = Total
    BY <2>2, TotalStays
  <2>6. Lone' => Lone
    BY <2>2, <2>4 DEF Lone
  <2>7. Knows(h)'
    BY <2>4 DEF Knows
  <2> QED
    BY <2>2, <2>4, <2>5, <2>6, <2>7, BalanceShows DEF Balance
<1>5. CASE HalfMonthPasses
  <2>1. /\ UNCHANGED <<at, overlapped, savings, apps, fastOut, plan, reopened>>
        /\ \/ matured' = matured + recent /\ recent' = 0
           \/ matured' = matured /\ recent' = recent
    BY <1>5 DEF HalfMonthPasses, handlerVars
  <2>2. Total' = Total
    BY <2>1, TotalStays
  <2>3. /\ savings \in Int /\ recent \in Nat /\ matured \in Nat /\ Total \in Nat
    BY Amounts
  <2>4. ASSUME Lone', fastOut' = 0
        PROVE  /\ savings' = recent' + matured' - Total' /\ Total' <= matured'
               /\ \A h \in Handlers : Knows(h)'
    <3>1. /\ savings = recent + matured - Total /\ Total <= matured
          /\ \A h \in Handlers : Knows(h)
      BY <2>1, <2>4 DEF Balance, Lone
    <3>2. matured' >= matured /\ matured' \in Nat
      BY <2>1, <2>3
    <3>3. ASSUME NEW h \in Handlers PROVE Knows(h)'
      <4>1. Knows(h)
        BY <3>1
      <4>2. plan[h].payable \in Nat
        BY DEF PayoutIInv, PayoutRowsOK, PlanType
      <4> QED
        BY <2>1, <2>2, <2>3, <3>2, <4>1, <4>2 DEF Knows
    <3>4. savings' = recent' + matured' - Total' /\ Total' <= matured'
      BY <2>1, <2>2, <2>3, <3>1
    <3> QED
      BY <3>3, <3>4
  <2> QED
    BY <2>4 DEF Balance
<1>6. CASE UNCHANGED <<handlerVars, payoutVars>>
  <2>1. UNCHANGED <<at, overlapped, savings, recent, matured, apps, fastOut, plan, reopened>>
    BY <1>6 DEF handlerVars, payoutVars, payoutRows
  <2> QED
    BY <2>1, TotalStays DEF Balance, Knows, Lone
<1> QED
  BY <1>1, <1>2, <1>3, <1>4, <1>5, <1>6 DEF PayoutNext, PayoutStep

\* Unless requests overlapped, were cut off, or took money out by a fast payout,
\* what can be applied for is what has matured and is not applied for already.
THEOREM PayoutPayable == PayoutSpec => []PayableIsMatured
<1>1. PayoutInit => Balance
  <2> SUFFICES ASSUME PayoutInit PROVE Balance
    OBVIOUS
  <2>1. PayoutRowsOK /\ recent = 0 /\ matured = savings /\ \A i \in Apps : apps[i] = NoApp
    BY InitPayout DEF PayoutInit, PayoutIdle, PayoutIInv
  <2>2. Total = 0
    <3>1. \A i \in Apps : Applied[i] = 0
      BY <2>1 DEF Applied, Credits, NoApp, App
    <3> QED
      BY <2>1, <3>1, TotalIsNat, SumZero DEF Total
  <2>3. \A h \in Handlers : Knows(h)
    BY DEF PayoutInit, HandlersInit, Idle, Knows
  <2> QED
    BY <2>1, <2>2, <2>3 DEF Balance, PayoutRowsOK
<1>2. Balance /\ PayoutIInv /\ PayoutIInv' /\ [PayoutNext]_<<handlerVars, payoutVars>> => Balance'
  BY NextBalances
<1>3. PayoutIInv /\ Balance => PayableIsMatured
  <2> SUFFICES ASSUME PayoutIInv, Balance, Undisturbed, ~reopened, fastOut = 0
               PROVE  Payable(savings, recent) = matured - Outstanding[MaxRequests]
    BY DEF PayableIsMatured
  <2>1. Outstanding[MaxRequests] = Total
    BY OutstandingIsTotal DEF PayoutIInv
  <2>2. savings = recent + matured - Total /\ Total <= matured
    BY DEF Balance, Lone, Undisturbed
  <2> QED
    BY <2>1, <2>2, Amounts DEF Payable, Larger
<1> QED
  BY <1>1, <1>2, <1>3, PayoutInvariant, PTL DEF PayoutSpec
=============================================================================
