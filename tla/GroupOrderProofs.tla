-------------------------- MODULE GroupOrderProofs --------------------------
(***************************************************************************)
(* What GroupOrder guarantees for any number of casts, handlers and faults *)
(* and for any prices; and what it guarantees besides when the handlers of *)
(* an order follow one another.                                            *)
(***************************************************************************)
EXTENDS GroupOrder, FiniteSetTheorems, TLAPS

\* The labels of the transaction of setupCastSelection, after its first SELECT.
Critical == {"read", "charge", "freeze"}

\* Inside that transaction a handler holds the row lock, and the status is
\* still the one it was checked against.
UnderLock(p) == at[p] \in Critical => lock = p /\ status = "requested"

\* A handler that fails the order knows which status it will set.
FateKnown(p) ==
    /\ at[p] \in {"fail", "unfreeze", "return", "setFailed", "bookBack"}
          => fate[p] \in Failures \cup {"dont_touch"}
    /\ at[p] = "matchFail" => fate[p] \in Failures

\* A handler that releases credits has read the whole reservation.
ReleaseKnown(p) == at[p] = "unfreeze" => amount[p] = Cost

Known(p) == UnderLock(p) /\ FateKnown(p) /\ ReleaseKnown(p)

\* Nothing is reserved before the selection is open.
ReservedLate == status = "requested" => reserved = 0

\* No more is frozen than what has been reserved.
ReservedAtMostOnce == frozen <= reserved + OtherFrozen

\* Without other orders of the guest, no less either.
ReservedExactly == OtherFrozen = 0 => frozen = reserved

IInv ==
    /\ TypeOK
    /\ \A p \in Procs : Known(p)
    /\ ReservedLate
    /\ ReservedAtMostOnce
    /\ ReservedExactly

\* The other handlers keep what they know, and p changes neither the lock nor the
\* status unless nobody else has locked the row.
Alone(p) ==
    /\ \A q \in Procs \ {p} : at'[q] = at[q] /\ fate'[q] = fate[q] /\ amount'[q] = amount[q]
    /\ (lock' = lock /\ status' = status) \/ lock \in {NoProc, p}

\* p neither reserves nor releases, and does not reopen the order.
Quiet(p) ==
    /\ Alone(p)
    /\ reserved' = reserved /\ frozen' = frozen
    /\ status' = status \/ status' \notin Recruiting

-----------------------------------------------------------------------------
(* Amounts *)

\* ceilTo1000 of a positive number is a positive number.
LEMMA RoundUpType == \A n \in Nat : RoundUp(n) \in Nat
<1> SUFFICES ASSUME NEW n \in Nat PROVE RoundUp(n) \in Nat
  OBVIOUS
<1> DEFINE q == (n + Pack - 1) \div Pack
<1>1. q \in Nat
  BY MoneyAssumption
<1> HIDE DEF q
<1>2. Pack * q \in Nat
  BY <1>1, MoneyAssumption
<1> QED
  BY <1>2 DEF RoundUp, q

\* unfreezeCredits never releases more than is frozen.
LEMMA ReleasedType ==
  ASSUME frozen \in Nat, NEW n \in Nat
  PROVE  /\ Released(n) \in Nat
         /\ frozen - Released(n) \in Nat
         /\ n >= frozen => Released(n) = frozen
         /\ n <= frozen => Released(n) = n
BY DEF Released

\* The invariant holds initially.
LEMMA InitIInv == Init => IInv
BY ProcAssumption, MoneyAssumption
   DEF Init, IInv, TypeOK, Known, UnderLock, FateKnown, ReleaseKnown, ReservedLate,
       ReservedAtMostOnce, ReservedExactly, Critical, Status, Failures, Labels

-----------------------------------------------------------------------------
(* Types *)

\* Types are kept by a request arriving, or the worker taking the job.
LEMMA RequestType ==
  ASSUME TypeOK, NEW p \in Procs, Request(p) \/ AutoOpenMeetingWorker(p) PROVE TypeOK'
<1> USE MoneyAssumption, BoundAssumption
    DEF TypeOK, order, money, locals, bounds, Labels, Start, Goto, Finish, Forget
<1>1. CASE WishToAttend(p)
  BY <1>1 DEF WishToAttend
<1>2. CASE WishToNotAttend(p)
  BY <1>2 DEF WishToNotAttend, Active, With
<1>3. CASE SelectCast(p)
  BY <1>3 DEF SelectCast
<1>4. CASE OpenOrder(p)
  BY <1>4 DEF OpenOrder
<1>5. CASE CancelRequest(p)
  BY <1>5 DEF CancelRequest
<1>6. CASE CancelMeeting(p)
  BY <1>6 DEF CancelMeeting, Failures
<1>7. CASE SpendElsewhere(p)
  BY <1>7 DEF SpendElsewhere
<1>8. CASE AutoOpenMeetingWorker(p)
  BY <1>8 DEF AutoOpenMeetingWorker
<1> QED
  BY <1>1, <1>2, <1>3, <1>4, <1>5, <1>6, <1>7, <1>8 DEF Request

\* Types are kept by a cast entering.
LEMMA EnterType ==
  ASSUME TypeOK, NEW p \in Procs, Enter(p) PROVE TypeOK'
<1> USE MoneyAssumption, BoundAssumption
    DEF TypeOK, order, money, locals, bounds, Labels, Start, Goto, Finish, Forget
<1>1. CASE PrepareAttendance(p)
  BY <1>1 DEF PrepareAttendance
<1>2. CASE AlreadyIn(p)
  BY <1>2 DEF AlreadyIn
<1>3. CASE CountActive(p)
  <2>1. CASE Cardinality(Active) >= Needed /\ status = "requested"
    <3>1. Goto(p, "lock") /\ UNCHANGED <<order, money, lock, bounds, locals, job>>
      BY <1>3, <2>1 DEF CountActive
    <3> QED
      BY <3>1
  <2>2. CASE ~ (Cardinality(Active) >= Needed /\ status = "requested")
    <3>1. Finish(p) /\ UNCHANGED <<order, money, lock, bounds>>
      BY <1>3, <2>2 DEF CountActive
    <3> QED
      BY <3>1
  <2> QED
    BY <2>1, <2>2
<1> QED
  BY <1>1, <1>2, <1>3 DEF Enter

\* Types are kept by the reservation (setupCastSelection).
LEMMA ReserveType ==
  ASSUME TypeOK, NEW p \in Procs, Reserve(p) PROVE TypeOK'
<1> USE MoneyAssumption, BoundAssumption
    DEF TypeOK, order, money, locals, bounds, Labels, Start, Goto, Finish, Forget
<1>1. CASE LockOrder(p)
  BY <1>1 DEF LockOrder
<1>2. CASE LockOrderTooLate(p)
  BY <1>2 DEF LockOrderTooLate
<1>3. CASE ReadBalance(p)
  BY <1>3, RoundUpType DEF ReadBalance
<1>4. CASE RefuseDebtor(p)
  BY <1>4 DEF RefuseDebtor
<1>5. CASE ChargeCard(p)
  BY <1>5 DEF ChargeCard
<1>6. CASE CardRefused(p)
  BY <1>6 DEF CardRefused
<1>7. CASE FreezeAndOpen(p)
  BY <1>7 DEF FreezeAndOpen, Status
<1>8. CASE FreezeRefused(p)
  BY <1>8 DEF FreezeRefused
<1>9. CASE RecordPreChargeFail(p)
  BY <1>9 DEF RecordPreChargeFail, Status, Failures
<1> QED
  BY <1>1, <1>2, <1>3, <1>4, <1>5, <1>6, <1>7, <1>8, <1>9 DEF Reserve

\* Types are kept by the failure of an order (handleFailedMeeting).
LEMMA FailType ==
  ASSUME TypeOK, NEW p \in Procs, FateKnown(p), Fail(p) PROVE TypeOK'
<1> USE MoneyAssumption, BoundAssumption
    DEF TypeOK, order, money, locals, bounds, Labels, Start, Goto, Finish, Forget
<1>1. CASE FailRead(p)
  BY <1>1 DEF FailRead
<1>2. CASE FailUnfreeze(p)
  <2>1. frozen - Released(amount[p]) \in Nat /\ Released(amount[p]) \in Nat
    BY ReleasedType
  <2> QED
    BY <1>2, <2>1 DEF FailUnfreeze
<1>3. CASE ReturnMoney(p)
  BY <1>3 DEF ReturnMoney
<1>4. CASE ReturnRefused(p)
  BY <1>4 DEF ReturnRefused, Failures
<1>5. CASE BookBack(p)
  BY <1>5 DEF BookBack
<1>6. CASE SetFailed(p)
  <2>1. CASE fee[p] > 0
    <3>1. /\ status' = fate[p] /\ fate[p] \in Failures /\ Goto(p, "fee")
          /\ UNCHANGED <<role, reserved, conversion, money, lock, bounds, locals, job>>
      BY <1>6, <2>1 DEF SetFailed, FateKnown
    <3> QED
      BY <3>1 DEF Status
  <2>2. CASE ~ (fee[p] > 0)
    <3>1. /\ status' = fate[p] /\ fate[p] \in Failures /\ Finish(p)
          /\ UNCHANGED <<role, reserved, conversion, money, lock, bounds>>
      BY <1>6, <2>2 DEF SetFailed, FateKnown
    <3> QED
      BY <3>1 DEF Status
  <2> QED
    BY <2>1, <2>2
<1>7. CASE SetDontTouch(p)
  BY <1>7 DEF SetDontTouch
<1> QED
  BY <1>1, <1>2, <1>3, <1>4, <1>5, <1>6, <1>7 DEF Fail

\* Types are kept by a cancellation fee.
LEMMA PenaltyType ==
  ASSUME TypeOK, NEW p \in Procs, Penalty(p) PROVE TypeOK'
<1> USE MoneyAssumption, BoundAssumption
    DEF TypeOK, order, money, locals, bounds, Labels, Start, Goto, Finish, Forget
<1>1. CASE ReadForFee(p)
  BY <1>1 DEF ReadForFee
<1>2. CASE ChargeForFee(p)
  BY <1>2 DEF ChargeForFee
<1>3. CASE ChargeForFeeRefused(p)
  BY <1>3 DEF ChargeForFeeRefused
<1>4. CASE CreditForFee(p)
  BY <1>4 DEF CreditForFee
<1>5. CASE BookFee(p)
  BY <1>5 DEF BookFee
<1> QED
  BY <1>1, <1>2, <1>3, <1>4, <1>5 DEF Penalty

\* Types are kept by a withdrawal or a cast leaving.
LEMMA WithdrawType ==
  ASSUME TypeOK, NEW p \in Procs, Withdraw(p) PROVE TypeOK'
<1> USE MoneyAssumption, BoundAssumption
    DEF TypeOK, order, money, locals, bounds, Labels, Start, Goto, Finish, Forget
<1>1. CASE DismissAll(p)
  BY <1>1 DEF DismissAll
<1>2. CASE SetWithdrawn(p)
  BY <1>2 DEF SetWithdrawn, Status, Failures
<1>3. CASE Leave(p)
  BY <1>3 DEF Leave
<1> QED
  BY <1>1, <1>2, <1>3 DEF Withdraw

\* Types are kept by the guest's selection.
LEMMA SelectType ==
  ASSUME TypeOK, NEW p \in Procs, Select(p) PROVE TypeOK'
<1> USE MoneyAssumption, BoundAssumption
    DEF TypeOK, order, money, locals, bounds, Labels, Start, Goto, Finish, Forget
<1>1. CASE AttendSelected(p)
  BY <1>1 DEF AttendSelected
<1>2. CASE CountSelected(p)
  <2>1. CASE Cardinality(Attending) >= Needed
    <3>1. Goto(p, "match") /\ UNCHANGED <<order, money, lock, bounds, locals, job>>
      BY <1>2, <2>1 DEF CountSelected
    <3> QED
      BY <3>1
  <2>2. CASE ~ (Cardinality(Attending) >= Needed)
    <3>1. Finish(p) /\ UNCHANGED <<order, money, lock, bounds>>
      BY <1>2, <2>2 DEF CountSelected
    <3> QED
      BY <3>1
  <2> QED
    BY <2>1, <2>2
<1> QED
  BY <1>1, <1>2 DEF Select

\* Types are kept by the automatic matching.
LEMMA MatchType ==
  ASSUME TypeOK, NEW p \in Procs, FateKnown(p), Match(p) PROVE TypeOK'
<1> USE MoneyAssumption, BoundAssumption
    DEF TypeOK, order, money, locals, bounds, Labels, Start, Goto, Finish, Forget
<1>1. CASE WorkerCount(p)
  BY <1>1 DEF WorkerCount, Failures
<1>2. CASE MatchRead(p)
  BY <1>2 DEF MatchRead
<1>3. CASE MatchTooLate(p)
  <2>1. CASE op[p] = "job"
    <3>1. /\ fate' = [fate EXCEPT ![p] = "dont_touch"]
          /\ Goto(p, "fail")
          /\ UNCHANGED <<op, cast, amount, chosen, back, fee, job, order, money, lock, bounds>>
      BY <1>3, <2>1 DEF MatchTooLate
    <3> QED
      BY <3>1
  <2>2. CASE op[p] # "job"
    <3>1. Finish(p) /\ UNCHANGED <<order, money, lock, bounds>>
      BY <1>3, <2>2 DEF MatchTooLate
    <3> QED
      BY <3>1
  <2> QED
    BY <2>1, <2>2
<1>4. CASE Decide(p)
  BY <1>4 DEF Decide, With
<1>5. CASE DecideFails(p)
  BY <1>5 DEF DecideFails, Failures
<1>6. CASE SetMatchFailed(p)
  <2>1. CASE op[p] = "job"
    <3>1. /\ status' = fate[p] /\ fate[p] \in Failures /\ Goto(p, "fail")
          /\ UNCHANGED <<role, reserved, conversion, money, lock, bounds, locals, job>>
      BY <1>6, <2>1 DEF SetMatchFailed, FateKnown
    <3> QED
      BY <3>1 DEF Status
  <2>2. CASE ~ (op[p] = "job")
    <3>1. /\ status' = fate[p] /\ fate[p] \in Failures /\ Finish(p)
          /\ UNCHANGED <<role, reserved, conversion, money, lock, bounds>>
      BY <1>6, <2>2 DEF SetMatchFailed, FateKnown
    <3> QED
      BY <3>1 DEF Status
  <2> QED
    BY <2>1, <2>2
<1>7. CASE Assign(p)
  BY <1>7 DEF Assign
<1>8. CASE CleanupAttendances(p)
  BY <1>8 DEF CleanupAttendances
<1>9. CASE OpenConversation(p)
  BY <1>9 DEF OpenConversation, Status
<1> QED
  BY <1>1, <1>2, <1>3, <1>4, <1>5, <1>6, <1>7, <1>8, <1>9 DEF Match

\* Types are kept by a crash or a database error.
LEMMA FaultType ==
  ASSUME TypeOK, NEW p \in Procs, Fault(p) PROVE TypeOK'
<1> USE MoneyAssumption, BoundAssumption
    DEF TypeOK, order, money, locals, bounds, Labels, Start, Goto, Finish, Forget
<1>1. CASE Crash(p)
  BY <1>1 DEF Crash
<1>2. CASE BookBackFails(p)
  BY <1>2 DEF BookBackFails, Failures
<1>3. CASE MatchError(p)
  BY <1>3 DEF MatchError, Failures
<1> QED
  BY <1>1, <1>2, <1>3 DEF Fault

-----------------------------------------------------------------------------
(* What the handlers know *)

\* A step of p that leaves alone what others have locked leaves them what they know.
LEMMA OthersKnown ==
  ASSUME IInv, NEW p \in Procs, Alone(p), Known(p)'
  PROVE  \A q \in Procs : Known(q)'
<1> SUFFICES ASSUME NEW q \in Procs, q # p PROVE Known(q)'
  OBVIOUS
<1>1. at'[q] = at[q] /\ fate'[q] = fate[q] /\ amount'[q] = amount[q]
  BY DEF Alone
<1>2. at[q] \in Critical => lock = q /\ lock' = lock /\ status' = status
  BY ProcAssumption DEF IInv, Known, UnderLock, Alone
<1> QED
  BY <1>1, <1>2 DEF IInv, Known, UnderLock, FateKnown, ReleaseKnown

\* A quiet step of p preserves the invariant as soon as it preserves the types
\* and what p knows.
LEMMA QuietStep ==
  ASSUME IInv, TypeOK', NEW p \in Procs, Quiet(p), Known(p)' PROVE IInv'
<1>1. \A q \in Procs : Known(q)'
  BY OthersKnown DEF Quiet
<1> QED
  BY <1>1 DEF Quiet, IInv, ReservedLate, ReservedAtMostOnce, ReservedExactly, Recruiting

\* What a request arriving, or the worker taking the job
\* does to the others and what the handler knows afterwards.
LEMMA RequestQuiet ==
  ASSUME IInv, NEW p \in Procs, Request(p) \/ AutoOpenMeetingWorker(p)
  PROVE  Quiet(p) /\ Known(p)'
<1> USE DEF IInv, TypeOK, order, money, locals, bounds, Start, Goto, Finish, Forget,
            Alone, Quiet, Known, UnderLock, FateKnown, ReleaseKnown, Critical, Recruiting
<1>1. CASE WishToAttend(p)
  BY <1>1 DEF WishToAttend
<1>2. CASE WishToNotAttend(p)
  BY <1>2 DEF WishToNotAttend, Active, With
<1>3. CASE SelectCast(p)
  BY <1>3 DEF SelectCast
<1>4. CASE OpenOrder(p)
  BY <1>4 DEF OpenOrder
<1>5. CASE CancelRequest(p)
  BY <1>5 DEF CancelRequest
<1>6. CASE CancelMeeting(p)
  BY <1>6 DEF CancelMeeting, Failures
<1>7. CASE SpendElsewhere(p)
  BY <1>7 DEF SpendElsewhere
<1>8. CASE AutoOpenMeetingWorker(p)
  BY <1>8 DEF AutoOpenMeetingWorker
<1> QED
  BY <1>1, <1>2, <1>3, <1>4, <1>5, <1>6, <1>7, <1>8 DEF Request

\* What a cast entering
\* does to the others and what the handler knows afterwards.
LEMMA EnterQuiet ==
  ASSUME IInv, NEW p \in Procs, Enter(p)
  PROVE  Quiet(p) /\ Known(p)'
<1> USE DEF IInv, TypeOK, order, money, locals, bounds, Start, Goto, Finish, Forget,
            Alone, Quiet, Known, UnderLock, FateKnown, ReleaseKnown, Critical, Recruiting
<1>1. CASE PrepareAttendance(p)
  BY <1>1 DEF PrepareAttendance
<1>2. CASE AlreadyIn(p)
  BY <1>2 DEF AlreadyIn
<1>3. CASE CountActive(p)
  <2>1. CASE Cardinality(Active) >= Needed /\ status = "requested"
    BY <1>3, <2>1 DEF CountActive
  <2>2. CASE ~ (Cardinality(Active) >= Needed /\ status = "requested")
    BY <1>3, <2>2 DEF CountActive
  <2> QED
    BY <2>1, <2>2
<1> QED
  BY <1>1, <1>2, <1>3 DEF Enter

\* What the reservation (setupCastSelection)
\* does to the others and what the handler knows afterwards.
LEMMA ReserveQuiet ==
  ASSUME IInv, NEW p \in Procs, Reserve(p), ~ FreezeAndOpen(p)
  PROVE  Quiet(p) /\ Known(p)'
<1> USE DEF IInv, TypeOK, order, money, locals, bounds, Start, Goto, Finish, Forget,
            Alone, Quiet, Known, UnderLock, FateKnown, ReleaseKnown, Critical, Recruiting
<1>1. CASE LockOrder(p)
  BY <1>1 DEF LockOrder, Unlocked
<1>2. CASE LockOrderTooLate(p)
  BY <1>2 DEF LockOrderTooLate, Unlocked
<1>3. CASE ReadBalance(p)
  BY <1>3 DEF ReadBalance
<1>4. CASE RefuseDebtor(p)
  BY <1>4 DEF RefuseDebtor
<1>5. CASE ChargeCard(p)
  BY <1>5 DEF ChargeCard
<1>6. CASE CardRefused(p)
  BY <1>6 DEF CardRefused
<1>7. CASE FreezeRefused(p)
  BY <1>7 DEF FreezeRefused
<1>8. CASE RecordPreChargeFail(p)
  BY <1>8 DEF RecordPreChargeFail, Unlocked, Failures
<1> QED
  BY <1>1, <1>2, <1>3, <1>4, <1>5, <1>6, <1>7, <1>8 DEF Reserve

\* What the failure of an order (handleFailedMeeting)
\* does to the others and what the handler knows afterwards.
LEMMA FailQuiet ==
  ASSUME IInv, NEW p \in Procs, Fail(p), ~ FailUnfreeze(p)
  PROVE  Quiet(p) /\ Known(p)'
<1> USE DEF IInv, TypeOK, order, money, locals, bounds, Start, Goto, Finish, Forget,
            Alone, Quiet, Known, UnderLock, FateKnown, ReleaseKnown, Critical, Recruiting
<1>1. CASE FailRead(p)
  BY <1>1 DEF FailRead
<1>2. CASE ReturnMoney(p)
  BY <1>2 DEF ReturnMoney
<1>3. CASE ReturnRefused(p)
  BY <1>3 DEF ReturnRefused, Failures
<1>4. CASE BookBack(p)
  BY <1>4 DEF BookBack
<1>5. CASE SetFailed(p)
  <2>1. CASE fee[p] > 0
    BY <1>5, <2>1 DEF SetFailed, Failures, Unlocked
  <2>2. CASE ~ (fee[p] > 0)
    BY <1>5, <2>2 DEF SetFailed, Failures, Unlocked
  <2> QED
    BY <2>1, <2>2
<1>6. CASE SetDontTouch(p)
  BY <1>6 DEF SetDontTouch
<1> QED
  BY <1>1, <1>2, <1>3, <1>4, <1>5, <1>6 DEF Fail

\* What a cancellation fee
\* does to the others and what the handler knows afterwards.
LEMMA PenaltyQuiet ==
  ASSUME IInv, NEW p \in Procs, Penalty(p)
  PROVE  Quiet(p) /\ Known(p)'
<1> USE DEF IInv, TypeOK, order, money, locals, bounds, Start, Goto, Finish, Forget,
            Alone, Quiet, Known, UnderLock, FateKnown, ReleaseKnown, Critical, Recruiting
<1>1. CASE ReadForFee(p)
  BY <1>1 DEF ReadForFee
<1>2. CASE ChargeForFee(p)
  BY <1>2 DEF ChargeForFee
<1>3. CASE ChargeForFeeRefused(p)
  BY <1>3 DEF ChargeForFeeRefused
<1>4. CASE CreditForFee(p)
  BY <1>4 DEF CreditForFee
<1>5. CASE BookFee(p)
  BY <1>5 DEF BookFee
<1> QED
  BY <1>1, <1>2, <1>3, <1>4, <1>5 DEF Penalty

\* What a withdrawal or a cast leaving
\* does to the others and what the handler knows afterwards.
LEMMA WithdrawQuiet ==
  ASSUME IInv, NEW p \in Procs, Withdraw(p)
  PROVE  Quiet(p) /\ Known(p)'
<1> USE DEF IInv, TypeOK, order, money, locals, bounds, Start, Goto, Finish, Forget,
            Alone, Quiet, Known, UnderLock, FateKnown, ReleaseKnown, Critical, Recruiting
<1>1. CASE DismissAll(p)
  BY <1>1 DEF DismissAll
<1>2. CASE SetWithdrawn(p)
  BY <1>2 DEF SetWithdrawn, Unlocked
<1>3. CASE Leave(p)
  BY <1>3 DEF Leave
<1> QED
  BY <1>1, <1>2, <1>3 DEF Withdraw

\* What the guest's selection
\* does to the others and what the handler knows afterwards.
LEMMA SelectQuiet ==
  ASSUME IInv, NEW p \in Procs, Select(p)
  PROVE  Quiet(p) /\ Known(p)'
<1> USE DEF IInv, TypeOK, order, money, locals, bounds, Start, Goto, Finish, Forget,
            Alone, Quiet, Known, UnderLock, FateKnown, ReleaseKnown, Critical, Recruiting
<1>1. CASE AttendSelected(p)
  BY <1>1 DEF AttendSelected
<1>2. CASE CountSelected(p)
  <2>1. CASE Cardinality(Attending) >= Needed
    BY <1>2, <2>1 DEF CountSelected
  <2>2. CASE ~ (Cardinality(Attending) >= Needed)
    BY <1>2, <2>2 DEF CountSelected
  <2> QED
    BY <2>1, <2>2
<1> QED
  BY <1>1, <1>2 DEF Select

\* What the automatic matching
\* does to the others and what the handler knows afterwards.
LEMMA MatchQuiet ==
  ASSUME IInv, NEW p \in Procs, Match(p)
  PROVE  Quiet(p) /\ Known(p)'
<1> USE DEF IInv, TypeOK, order, money, locals, bounds, Start, Goto, Finish, Forget,
            Alone, Quiet, Known, UnderLock, FateKnown, ReleaseKnown, Critical, Recruiting
<1>1. CASE WorkerCount(p)
  BY <1>1 DEF WorkerCount, Failures
<1>2. CASE MatchRead(p)
  BY <1>2 DEF MatchRead
<1>3. CASE MatchTooLate(p)
  <2>1. CASE op[p] = "job"
    BY <1>3, <2>1 DEF MatchTooLate
  <2>2. CASE op[p] # "job"
    BY <1>3, <2>2 DEF MatchTooLate
  <2> QED
    BY <2>1, <2>2
<1>4. CASE Decide(p)
  BY <1>4 DEF Decide
<1>5. CASE DecideFails(p)
  BY <1>5 DEF DecideFails, Failures
<1>6. CASE SetMatchFailed(p)
  <2>1. CASE op[p] = "job"
    BY <1>6, <2>1 DEF SetMatchFailed, Failures, Unlocked
  <2>2. CASE ~ (op[p] = "job")
    BY <1>6, <2>2 DEF SetMatchFailed, Failures, Unlocked
  <2> QED
    BY <2>1, <2>2
<1>7. CASE Assign(p)
  BY <1>7 DEF Assign
<1>8. CASE CleanupAttendances(p)
  BY <1>8 DEF CleanupAttendances
<1>9. CASE OpenConversation(p)
  BY <1>9 DEF OpenConversation, Unlocked
<1> QED
  BY <1>1, <1>2, <1>3, <1>4, <1>5, <1>6, <1>7, <1>8, <1>9 DEF Match

\* What a crash or a database error
\* does to the others and what the handler knows afterwards.
LEMMA FaultQuiet ==
  ASSUME IInv, NEW p \in Procs, Fault(p)
  PROVE  Quiet(p) /\ Known(p)'
<1> USE DEF IInv, TypeOK, order, money, locals, bounds, Start, Goto, Finish, Forget,
            Alone, Quiet, Known, UnderLock, FateKnown, ReleaseKnown, Critical, Recruiting
<1>1. CASE Crash(p)
  BY <1>1 DEF Crash
<1>2. CASE BookBackFails(p)
  BY <1>2 DEF BookBackFails, Failures
<1>3. CASE MatchError(p)
  BY <1>3 DEF MatchError, Failures
<1> QED
  BY <1>1, <1>2, <1>3 DEF Fault

-----------------------------------------------------------------------------
(* The reservation and its release *)

\* The reservation: under the lock, nothing is reserved yet.
LEMMA FreezeAndOpenStep ==
  ASSUME IInv, TypeOK', NEW p \in Procs, FreezeAndOpen(p) PROVE IInv'
<1>1. lock = p /\ status = "requested" /\ reserved = 0
  BY DEF FreezeAndOpen, IInv, Known, UnderLock, Critical, ReservedLate
<1>2. Alone(p) /\ Known(p)'
  BY <1>1 DEF FreezeAndOpen, IInv, TypeOK, Finish, Goto, Forget, Alone, Known,
              UnderLock, FateKnown, ReleaseKnown, Critical
<1>3. \A q \in Procs : Known(q)'
  BY <1>2, OthersKnown
<1>4. ReservedLate' /\ ReservedAtMostOnce' /\ ReservedExactly'
  BY <1>1, MoneyAssumption
     DEF FreezeAndOpen, IInv, TypeOK, ReservedLate, ReservedAtMostOnce, ReservedExactly
<1> QED
  BY <1>3, <1>4 DEF IInv

\* A second release of what another handler has released already takes from the
\* guest's other orders, but never leaves more than they have reserved.
LEMMA FailUnfreezeStep ==
  ASSUME IInv, TypeOK', NEW p \in Procs, FailUnfreeze(p) PROVE IInv'
<1>1. amount[p] = Cost /\ lock = NoProc
  BY DEF FailUnfreeze, Unlocked, IInv, Known, ReleaseKnown
<1>2. Alone(p) /\ Known(p)'
  BY <1>1 DEF FailUnfreeze, IInv, TypeOK, Goto, locals, Alone, Known,
              UnderLock, FateKnown, ReleaseKnown, Critical
<1>3. \A q \in Procs : Known(q)'
  BY <1>2, OthersKnown
<1>4. frozen' = frozen - Released(Cost) /\ reserved' = 0
  BY <1>1 DEF FailUnfreeze
<1>5. ReservedAtMostOnce' /\ ReservedExactly'
  BY <1>4, MoneyAssumption
     DEF Released, IInv, TypeOK, ReservedAtMostOnce, ReservedExactly
<1> QED
  BY <1>3, <1>4, <1>5 DEF IInv, ReservedLate

-----------------------------------------------------------------------------
(* The invariant and what follows from it *)

\* Every step keeps the types.
LEMMA NextType == IInv /\ Next => TypeOK'
<1> SUFFICES ASSUME IInv, NEW p \in Procs,
                    Request(p) \/ AutoOpenMeetingWorker(p) \/ Step(p) \/ Fault(p)
             PROVE  TypeOK'
  BY DEF Next
<1>1. TypeOK /\ FateKnown(p)
  BY DEF IInv, Known
<1> QED
  BY <1>1, RequestType, EnterType, ReserveType, FailType, PenaltyType, WithdrawType,
     SelectType, MatchType, FaultType DEF Step

\* Every step keeps the invariant.
LEMMA NextIInv == IInv /\ [Next]_vars => IInv'
<1> SUFFICES ASSUME IInv, [Next]_vars PROVE IInv'
  OBVIOUS
<1>1. CASE UNCHANGED vars
  BY <1>1 DEF vars, order, money, locals, bounds, IInv, TypeOK, Known, UnderLock,
              FateKnown, ReleaseKnown, ReservedLate, ReservedAtMostOnce, ReservedExactly
<1>2. ASSUME NEW p \in Procs,
             Request(p) \/ AutoOpenMeetingWorker(p) \/ Step(p) \/ Fault(p), TypeOK'
      PROVE  IInv'
  <2>1. CASE FreezeAndOpen(p)
    BY <1>2, <2>1, FreezeAndOpenStep
  <2>2. CASE FailUnfreeze(p)
    BY <1>2, <2>2, FailUnfreezeStep
  <2>3. CASE ~ FreezeAndOpen(p) /\ ~ FailUnfreeze(p)
    <3>1. Quiet(p) /\ Known(p)'
      BY <1>2, <2>3, RequestQuiet, EnterQuiet, ReserveQuiet, FailQuiet, PenaltyQuiet,
         WithdrawQuiet, SelectQuiet, MatchQuiet, FaultQuiet DEF Step
    <3> QED
      BY <1>2, <3>1, QuietStep
  <2> QED
    BY <2>1, <2>2, <2>3
<1>3. Next => TypeOK'
  BY NextType
<1> QED
  BY <1>1, <1>2, <1>3 DEF Next

\* The inductive invariant: the row lock keeps the status under a running
\* reservation, every failing handler knows its status and its release.
THEOREM Invariance == Spec => []IInv
BY InitIInv, NextIInv, PTL DEF Spec

\* Every reachable state is well typed; among it, no handler ever sets a status
\* that does not exist and frozen_credits never goes below zero.
THEOREM TypeCorrect == Spec => []TypeOK
<1>1. IInv => TypeOK
  BY DEF IInv
<1> QED
  BY <1>1, Invariance, PTL

\* selection.ts:183-186: for any number of handlers, the card is charged only while
\* the order waits for its reservation.
THEOREM ChargedWhileRequested == Spec => ChargedOnlyWhileRequested
<1>1. IInv => (\A p \in Procs : at[p] = "charge" /\ taken' # taken => status = "requested")
  BY DEF IInv, Known, UnderLock, Critical
<1> QED
  BY <1>1, Invariance, PTL DEF ChargedOnlyWhileRequested

\* An order that has left recruitment is never opened for selection again,
\* however many handlers still act on the status they have read.
THEOREM ClosedForGood == Spec => NeverReopened
<1>1. IInv /\ [Next]_vars => (status \notin Recruiting => status' \notin Recruiting)
  <2> SUFFICES ASSUME IInv, [Next]_vars, status \notin Recruiting
               PROVE  status' \notin Recruiting
    OBVIOUS
  <2>1. CASE UNCHANGED vars
    BY <2>1 DEF vars, order
  <2>2. ASSUME NEW p \in Procs,
               Request(p) \/ AutoOpenMeetingWorker(p) \/ Step(p) \/ Fault(p)
        PROVE  status' \notin Recruiting
    <3>1. ~ FreezeAndOpen(p)
      BY DEF FreezeAndOpen, IInv, Known, UnderLock, Critical, Recruiting
    <3>2. CASE FailUnfreeze(p)
      BY <3>2 DEF FailUnfreeze
    <3>3. CASE ~ FailUnfreeze(p)
      <4>1. Quiet(p)
        BY <2>2, <3>1, <3>3, RequestQuiet, EnterQuiet, ReserveQuiet, FailQuiet,
           PenaltyQuiet, WithdrawQuiet, SelectQuiet, MatchQuiet, FaultQuiet DEF Step
      <4> QED
        BY <4>1 DEF Quiet
    <3> QED
      BY <3>2, <3>3
  <2> QED
    BY <2>1, <2>2 DEF Next
<1> QED
  BY <1>1, Invariance, PTL DEF Spec, NeverReopened

\* selection.ts:181-186: when the guest has no other orders, what is frozen is
\* what this order has reserved, for any number of handlers: no interleaving
\* reserves twice.
THEOREM ReservedOnce ==
  ASSUME OtherFrozen = 0 PROVE Spec => []FrozenIsReserved
<1>1. IInv => FrozenIsReserved
  BY MoneyAssumption DEF IInv, TypeOK, ReservedExactly, FrozenIsReserved
<1> QED
  BY <1>1, Invariance, PTL

\* With other orders, no interleaving leaves more frozen than what the orders
\* have reserved.
THEOREM NothingFrozenUnreserved == Spec => []ReservedAtMostOnce
<1>1. IInv => ReservedAtMostOnce
  BY DEF IInv
<1> QED
  BY <1>1, Invariance, PTL

-----------------------------------------------------------------------------
(* Handlers that follow one another *)

\* Every step of the model is one of these of some p.
AnyStep(p) == Request(p) \/ AutoOpenMeetingWorker(p) \/ Step(p) \/ Fault(p)

\* Without faults no handler is cut off.
LEMMA NoFault == ASSUME MaxFaults = 0, TypeOK, NEW p \in Procs PROVE ~ Fault(p)
BY DEF Fault, Crash, BookBackFails, MatchError, TypeOK

-----------------------------------------------------------------------------
(* The money the gateway holds *)

\* What a handler has done at the gateway and not yet in the database.
Unbooked(p) ==
    IF at[p] \in {"freeze", "feeCredit"} THEN amount[p]
    ELSE IF at[p] = "bookBack" THEN - conversion ELSE 0

\* The balance has not changed since it was read.
MoneyKnown(p) ==
    /\ taken = booked + Unbooked(p)
    /\ at[p] \in {"charge", "freeze"} => balance + amount[p] >= Cost


\* ceilTo1000 rounds up.
LEMMA RoundUpCovers == \A n \in Nat : RoundUp(n) >= n
<1> SUFFICES ASSUME NEW n \in Nat PROVE RoundUp(n) >= n
  OBVIOUS
<1> DEFINE m == n + Pack - 1
           q == m \div Pack
           r == m % Pack
<1>1. m \in Nat /\ Pack \in Nat /\ Pack > 0
  BY MoneyAssumption
<1> HIDE DEF m
<1>2. q \in Nat /\ r \in 0..(Pack - 1) /\ m = Pack * q + r
  BY <1>1
<1> HIDE DEF q, r
<1> DEFINE k == Pack * q
<1>3. k \in Nat
  BY <1>1, <1>2
<1>4. m = k + r
  BY <1>2
<1> HIDE DEF k
<1>5. k >= n
  BY <1>1, <1>2, <1>3, <1>4 DEF m
<1> QED
  BY <1>5 DEF RoundUp, m, q, k

\* Every step of the only handler keeps its account of the money.
LEMMA MoneyStep ==
  ASSUME MaxFaults = 0, IInv, NEW p \in Procs, Procs = {p}, MoneyKnown(p), AnyStep(p)
  PROVE  MoneyKnown(p)'
<1> USE DEF IInv, TypeOK, MoneyKnown, Unbooked, order, money, locals, Start, Goto, Finish, Forget
<1>1. CASE Request(p) \/ AutoOpenMeetingWorker(p)
  BY <1>1 DEF Request, WishToAttend, WishToNotAttend, SelectCast, OpenOrder, CancelRequest,
              CancelMeeting, SpendElsewhere, AutoOpenMeetingWorker
<1>2. CASE Enter(p)
  BY <1>2 DEF Enter, PrepareAttendance, AlreadyIn, CountActive
<1>3. CASE Reserve(p)
  <2>1. CASE ReadBalance(p)
    <3>1. CASE balance < Cost
      <4>1. Cost - balance \in Nat
        BY <3>1, MoneyAssumption
      <4>2. RoundUp(Cost - balance) \in Nat /\ RoundUp(Cost - balance) >= Cost - balance
        BY <4>1, RoundUpType, RoundUpCovers
      <4> QED
        BY <2>1, <3>1, <4>2, MoneyAssumption DEF ReadBalance
    <3>2. CASE ~ (balance < Cost)
      BY <2>1, <3>2, MoneyAssumption DEF ReadBalance
    <3> QED
      BY <3>1, <3>2
  <2>2. CASE Reserve(p) /\ ~ ReadBalance(p)
    BY <2>2, MoneyAssumption
       DEF Reserve, LockOrder, LockOrderTooLate, RefuseDebtor, ChargeCard, CardRefused,
           FreezeAndOpen, FreezeRefused, RecordPreChargeFail
  <2> QED
    BY <1>3, <2>1, <2>2
<1>4. CASE Fail(p)
  BY <1>4 DEF Fail, FailRead, FailUnfreeze, ReturnMoney, ReturnRefused, BookBack, SetFailed,
              SetDontTouch
<1>5. CASE Penalty(p)
  BY <1>5 DEF Penalty, ReadForFee, ChargeForFee, ChargeForFeeRefused, CreditForFee, BookFee
<1>6. CASE Withdraw(p) \/ Select(p)
  BY <1>6 DEF Withdraw, DismissAll, SetWithdrawn, Leave, Select, AttendSelected, CountSelected
<1>7. CASE Match(p)
  BY <1>7 DEF Match, WorkerCount, MatchRead, MatchTooLate, Decide, DecideFails, SetMatchFailed,
              Assign, CleanupAttendances, OpenConversation
<1> QED
  BY <1>1, <1>2, <1>3, <1>4, <1>5, <1>6, <1>7, NoFault DEF AnyStep, Step

\* buy-credits.ts:13-16: with handlers that follow one another and end, the money
\* the gateway holds is what conversions record, for any balance of the guest, any
\* fees and refusals; the balance that decided the charge still holds when the
\* credits are frozen.
THEOREM ChargesRecordedSerially ==
  ASSUME NEW p, Procs = {p}, MaxFaults = 0 PROVE Spec => []TakenIsBooked
<1>1. Init => MoneyKnown(p)
  BY DEF Init, MoneyKnown, Unbooked
<1>2. ASSUME IInv, MoneyKnown(p), [Next]_vars PROVE MoneyKnown(p)'
  <2>1. CASE UNCHANGED vars
    BY <1>2, <2>1 DEF vars, order, money, locals, MoneyKnown, Unbooked
  <2>2. CASE Next
    BY <1>2, <2>2, MoneyStep DEF Next, AnyStep
  <2> QED
    BY <1>2, <2>1, <2>2
<1>3. IInv /\ MoneyKnown(p) => TakenIsBooked
  BY DEF MoneyKnown, Unbooked, TakenIsBooked, AtRest, IInv, TypeOK
<1>4. IInv /\ MoneyKnown(p) /\ [Next]_vars => MoneyKnown(p)'
  BY <1>2
<1> QED
  BY <1>1, <1>3, <1>4, Invariance, PTL DEF Spec

-----------------------------------------------------------------------------
(* Numbers of casts *)

\* The casts that are in are the undecided and the selected ones.
LEMMA Counts ==
  ASSUME TypeOK
  PROVE  /\ IsFiniteSet(With("unconfirmed")) /\ IsFiniteSet(Attending) /\ IsFiniteSet(Active)
         /\ Cardinality(With("unconfirmed")) \in Nat
         /\ Cardinality(Attending) \in Nat
         /\ Cardinality(Active) = Cardinality(With("unconfirmed")) + Cardinality(Attending)
<1> DEFINE U == With("unconfirmed")
           A == With("attending")
<1>1. U \in SUBSET Casts /\ A \in SUBSET Casts /\ U \cap A = {}
  BY DEF With
<1>2. Attending = A /\ Active = U \cup A
  BY DEF Attending, Active
<1> HIDE DEF U, A
<1>3. IsFiniteSet(U) /\ IsFiniteSet(A)
  BY <1>1, CastAssumption, FS_Subset
<1>4. Cardinality(U) \in Nat /\ Cardinality(A) \in Nat
  BY <1>3, FS_CardinalityType
<1>5. IsFiniteSet(U \cup A)
      /\ Cardinality(U \cup A) = Cardinality(U) + Cardinality(A) - Cardinality(U \cap A)
  BY <1>3, FS_Union
<1>6. Cardinality(U \cap A) = 0
  BY <1>1, FS_EmptySet
<1> QED
  BY <1>2, <1>3, <1>4, <1>5, <1>6 DEF U

\* What matching is going to assign: with it the order has its number.
LEMMA WantedFits ==
  ASSUME TypeOK, Cardinality(Active) >= Minimum, Cardinality(Attending) <= Needed
  PROVE  /\ Wanted \in Nat
         /\ Cardinality(Attending) + Wanted \in Minimum..Needed
         /\ Cardinality(Active) >= Needed => Cardinality(Attending) + Wanted = Needed
<1> DEFINE u == Cardinality(With("unconfirmed"))
           a == Cardinality(Attending)
<1>1. u \in Nat /\ a \in Nat /\ Cardinality(Active) = u + a
  BY Counts
<1>2. Wanted = IF u < Needed - a THEN u ELSE Needed - a
  BY DEF Wanted
<1> HIDE DEF u, a
<1>3. a <= Needed /\ u + a >= Minimum
  BY <1>1 DEF a
<1>4. /\ Wanted \in Nat /\ a + Wanted \in Minimum..Needed
      /\ u + a >= Needed => a + Wanted = Needed
  BY <1>1, <1>2, <1>3, CountAssumption
<1> QED
  BY <1>1, <1>4 DEF a

\* Assigning the chosen casts only selects more of those that are in.
LEMMA AssignCounts ==
  ASSUME TypeOK, NEW p \in Procs, Assign(p),
         chosen[p] \subseteq With("unconfirmed")
  PROVE  /\ Attending' = Attending \cup chosen[p]
         /\ Active' = Active
         /\ Cardinality(Attending') = Cardinality(Attending) + Cardinality(chosen[p])
<1>1. Attending' = Attending \cup chosen[p] /\ Active' = Active /\ Attending \cap chosen[p] = {}
  BY DEF Assign, Attending, Active, With, TypeOK
<1>2. IsFiniteSet(Attending) /\ IsFiniteSet(chosen[p])
  BY Counts, FS_Subset
<1>3. Cardinality(Attending) \in Nat /\ Cardinality(chosen[p]) \in Nat
  BY <1>2, FS_CardinalityType
<1>4. Cardinality(Attending \cup chosen[p]) =
        Cardinality(Attending) + Cardinality(chosen[p]) - Cardinality(Attending \cap chosen[p])
  BY <1>2, FS_Union
<1>5. Cardinality(Attending \cap chosen[p]) = 0
  BY <1>1, FS_EmptySet
<1> QED
  BY <1>1, <1>3, <1>4, <1>5

-----------------------------------------------------------------------------
(* The casts of an order that is to take place *)

Staffed == Cardinality(Attending) \in Minimum..Needed /\ With("unconfirmed") = {}

\* What a handler has decided about the casts still fits when it acts on it.
StaffKnown(p) ==
    /\ status = "scheduled" => Staffed
    /\ at[p] \in {"join", "leave", "select", "withdraw", "decide", "assign", "cleanup"}
          => status # "scheduled"
    /\ at[p] = "assign" => /\ chosen[p] \subseteq With("unconfirmed")
                           /\ Cardinality(chosen[p]) = Wanted
                           /\ Cardinality(Active) >= Minimum
                           /\ Cardinality(Attending) <= Needed
    /\ at[p] = "cleanup" => Cardinality(Attending) \in Minimum..Needed
    /\ at[p] = "open" => Staffed


\* A step that leaves the attendances alone leaves what is known about them.
LEMMA RolesKept ==
  ASSUME UNCHANGED role
  PROVE  /\ With("unconfirmed")' = With("unconfirmed")
         /\ Attending' = Attending /\ Active' = Active /\ Wanted' = Wanted
         /\ Staffed' = Staffed
BY DEF With, Attending, Active, Wanted, Staffed

\* Every step of the only handler keeps what is known about the casts.
LEMMA StaffStep ==
  ASSUME IInv, NEW p \in Procs, Procs = {p}, StaffKnown(p), AnyStep(p)
  PROVE  StaffKnown(p)'
<1> USE DEF IInv, TypeOK, StaffKnown, order, money, locals, Start, Goto, Finish, Forget
<1>1. CASE Request(p) \/ AutoOpenMeetingWorker(p)
  <2>1. UNCHANGED role
    BY <1>1 DEF Request, WishToAttend, WishToNotAttend, SelectCast, OpenOrder, CancelRequest,
                CancelMeeting, SpendElsewhere, AutoOpenMeetingWorker
  <2>2. CASE WishToNotAttend(p)
    <3>1. status # "scheduled"
      <4> SUFFICES ASSUME status = "scheduled" PROVE FALSE
        OBVIOUS
      <4>1. Cardinality(With("unconfirmed")) = 0 /\ Cardinality(Attending) <= Needed
        BY FS_EmptySet, CountAssumption DEF Staffed
      <4>2. Cardinality(Active) <= Needed
        BY <4>1, Counts, CountAssumption
      <4>3. Cardinality(Active) > Needed
        BY <2>2 DEF WishToNotAttend
      <4> QED
        BY <4>2, <4>3, Counts, CountAssumption
    <3> QED
      BY <2>1, <2>2, <3>1, RolesKept DEF WishToNotAttend
  <2>3. CASE ~ WishToNotAttend(p)
    BY <1>1, <2>1, <2>3, RolesKept
       DEF Request, WishToAttend, SelectCast, OpenOrder, CancelRequest, CancelMeeting,
           SpendElsewhere, AutoOpenMeetingWorker
  <2> QED
    BY <2>2, <2>3
<1>2. CASE Enter(p)
  <2>1. CASE PrepareAttendance(p)
    BY <2>1 DEF PrepareAttendance
  <2>2. CASE ~ PrepareAttendance(p)
    BY <1>2, <2>2, RolesKept DEF Enter, AlreadyIn, CountActive
  <2> QED
    BY <2>1, <2>2
<1>3. CASE Reserve(p)
  BY <1>3, RolesKept DEF Reserve, LockOrder, LockOrderTooLate, ReadBalance, RefuseDebtor,
      ChargeCard, CardRefused, FreezeAndOpen, FreezeRefused, RecordPreChargeFail
<1>4. CASE Fail(p)
  BY <1>4, RolesKept DEF Fail, FailRead, FailUnfreeze, ReturnMoney, ReturnRefused, BookBack,
      SetFailed, SetDontTouch, Known, FateKnown, Failures
<1>5. CASE Penalty(p)
  BY <1>5, RolesKept DEF Penalty, ReadForFee, ChargeForFee, ChargeForFeeRefused, CreditForFee, BookFee
<1>6. CASE Withdraw(p)
  BY <1>6, RolesKept DEF Withdraw, DismissAll, SetWithdrawn, Leave
<1>7. CASE Select(p)
  BY <1>7, RolesKept DEF Select, AttendSelected, CountSelected
<1>8. CASE Match(p)
  <2>1. CASE Decide(p)
    <3>1. UNCHANGED role
      BY <2>1 DEF Decide
    <3>2. /\ chosen[p]' \subseteq With("unconfirmed") /\ Cardinality(chosen[p]') = Wanted
          /\ Cardinality(Active) >= Minimum /\ Cardinality(Attending) <= Needed
      BY <2>1 DEF Decide
    <3> QED
      BY <2>1, <3>1, <3>2, RolesKept DEF Decide
  <2>2. CASE Assign(p)
    <3>1. Cardinality(Attending') \in Minimum..Needed
      BY <2>2, AssignCounts, WantedFits DEF Assign
    <3> QED
      BY <2>2, <3>1 DEF Assign
  <2>3. CASE CleanupAttendances(p)
    <3>1. Attending' = Attending /\ With("unconfirmed")' = {}
      BY <2>3 DEF CleanupAttendances, Attending, With
    <3> QED
      BY <2>3, <3>1 DEF CleanupAttendances, Staffed
  <2>4. CASE OpenConversation(p)
    BY <2>4, RolesKept DEF OpenConversation
  <2>5. CASE WorkerCount(p) \/ MatchRead(p) \/ MatchTooLate(p) \/ DecideFails(p) \/ SetMatchFailed(p)
    BY <2>5, RolesKept DEF WorkerCount, MatchRead, MatchTooLate, DecideFails, SetMatchFailed,
        Known, FateKnown, Failures, Recruiting
  <2> QED
    BY <1>8, <2>1, <2>2, <2>3, <2>4, <2>5 DEF Match
<1>9. CASE Fault(p)
  BY <1>9, RolesKept DEF Fault, Crash, BookBackFails, MatchError
<1> QED
  BY <1>1, <1>2, <1>3, <1>4, <1>5, <1>6, <1>7, <1>8, <1>9 DEF AnyStep, Step

\* selection.ts:281-284: with handlers that follow one another, and also when they
\* are cut off or the job is delivered again, an order that is to take place has a
\* number of casts between its minimum and what it needs, and nobody is left
\* undecided.
THEOREM StaffedSerially ==
  ASSUME NEW p, Procs = {p} PROVE Spec => []ScheduledIsStaffed
<1>1. Init => StaffKnown(p)
  BY DEF Init, StaffKnown
<1>2. ASSUME IInv, StaffKnown(p), [Next]_vars PROVE StaffKnown(p)'
  <2>1. CASE UNCHANGED vars
    BY <1>2, <2>1, RolesKept DEF vars, order, locals, StaffKnown
  <2>2. CASE Next
    BY <1>2, <2>2, StaffStep DEF Next, AnyStep
  <2> QED
    BY <1>2, <2>1, <2>2
<1>3. StaffKnown(p) => ScheduledIsStaffed
  BY DEF StaffKnown, ScheduledIsStaffed, Staffed
<1>4. IInv /\ StaffKnown(p) /\ [Next]_vars => StaffKnown(p)'
  BY <1>2
<1> QED
  BY <1>1, <1>3, <1>4, Invariance, PTL DEF Spec

-----------------------------------------------------------------------------
(* The reservation of an order that has failed *)

\* Matching, from the count that starts it, until it has decided; and after.
Counting == {"countSelected", "match", "decide"}
Closing  == {"matchFail", "assign", "cleanup", "open"}

\* An opened selection has the casts it needs, and the guest has not yet
\* selected them all: matching never fails it.
SelectionKnown(p) ==
    /\ status = "cast_selectable" /\ at[p] # "open" => Cardinality(Active) >= Needed
    /\ at[p] \in {"lock"} \cup Critical => Cardinality(Active) >= Needed
    /\ at[p] = "leave" => Cardinality(Active) > Needed /\ cast[p] \in Active
    /\ at[p] = "select" => cast[p] \in Casts
    /\ status \in Recruiting /\ at[p] \notin Closing => Cardinality(Attending) <= Needed
    /\ status \in Recruiting /\ at[p] \notin Closing \cup Counting => Cardinality(Attending) < Needed

\* Who fails the order has released what it had reserved, and an order that fails
\* without that has not reserved anything.
ReleasedKnown(p) ==
    /\ status \in Failures => reserved = 0
    /\ at[p] \in {"return", "bookBack", "setFailed"} => reserved = 0
    /\ at[p] \in {"withdraw", "setWithdrawn", "preFail", "matchFail"} => status = "requested"
    /\ at[p] = "decide" => status \in Recruiting

\* A cast that comes or leaves, or is selected, changes the numbers by one.
LEMMA RoleCounts ==
  ASSUME TypeOK, NEW c \in Casts
  PROVE  /\ role' = [role EXCEPT ![c] = "unconfirmed"] /\ c \notin Attending =>
              /\ Attending' = Attending
              /\ Cardinality(Active') \in Nat /\ Cardinality(Active') >= Cardinality(Active)
         /\ role' = [role EXCEPT ![c] = "out"] =>
              /\ Cardinality(Attending') <= Cardinality(Attending)
              /\ Cardinality(Active') \in Nat /\ Cardinality(Active') >= Cardinality(Active) - 1
         /\ role' = [role EXCEPT ![c] = "attending"] =>
              /\ Cardinality(Attending') <= Cardinality(Attending) + 1
              /\ Cardinality(Active') \in Nat /\ Cardinality(Active') >= Cardinality(Active)
<1>1. IsFiniteSet(Active) /\ IsFiniteSet(Attending)
      /\ Cardinality(Active) \in Nat /\ Cardinality(Attending) \in Nat
  BY Counts
<1>2. /\ IsFiniteSet(Active \cup {c}) /\ Cardinality(Active \cup {c}) \in Nat
      /\ Cardinality(Active \cup {c}) >= Cardinality(Active)
      /\ Cardinality(Active \ {c}) \in Nat /\ Cardinality(Active \ {c}) >= Cardinality(Active) - 1
      /\ Cardinality(Attending \cup {c}) <= Cardinality(Attending) + 1
      /\ Cardinality(Attending \ {c}) <= Cardinality(Attending)
  <2>1. IsFiniteSet(Active \cup {c}) /\ IsFiniteSet(Active \ {c})
    BY <1>1, FS_AddElement, FS_RemoveElement
  <2>2. Cardinality(Active \cup {c}) = IF c \in Active THEN Cardinality(Active) ELSE Cardinality(Active) + 1
    BY <1>1, FS_AddElement
  <2>3. Cardinality(Active \ {c}) = IF c \in Active THEN Cardinality(Active) - 1 ELSE Cardinality(Active)
    BY <1>1, FS_RemoveElement
  <2>4. Cardinality(Attending \cup {c}) =
          IF c \in Attending THEN Cardinality(Attending) ELSE Cardinality(Attending) + 1
    BY <1>1, FS_AddElement
  <2>5. Cardinality(Attending \ {c}) =
          IF c \in Attending THEN Cardinality(Attending) - 1 ELSE Cardinality(Attending)
    BY <1>1, FS_RemoveElement
  <2>6. Cardinality(Active \cup {c}) \in Nat /\ Cardinality(Active \ {c}) \in Nat
    BY <2>1, FS_CardinalityType
  <2> QED
    BY <1>1, <2>1, <2>2, <2>3, <2>4, <2>5, <2>6
<1>3. ASSUME role' = [role EXCEPT ![c] = "unconfirmed"], c \notin Attending
      PROVE  Attending' = Attending /\ Active' = Active \cup {c}
  BY <1>3 DEF Attending, Active, With, TypeOK
<1>4. ASSUME role' = [role EXCEPT ![c] = "out"]
      PROVE  Attending' = Attending \ {c} /\ Active' = Active \ {c}
  BY <1>4 DEF Attending, Active, With, TypeOK
<1>5. ASSUME role' = [role EXCEPT ![c] = "attending"]
      PROVE  Attending' = Attending \cup {c} /\ Active' = Active \cup {c}
  BY <1>5 DEF Attending, Active, With, TypeOK
<1> QED
  BY <1>2, <1>3, <1>4, <1>5

\* Every step of the only handler keeps what is known about the selection.
LEMMA SelectionStep ==
  ASSUME MaxFaults = 0, IInv, NEW p \in Procs, Procs = {p},
         SelectionKnown(p), ReleasedKnown(p), AnyStep(p)
  PROVE  SelectionKnown(p)'
<1> USE CountAssumption
    DEF IInv, TypeOK, SelectionKnown, ReleasedKnown, Counting, Closing, Critical, Recruiting,
        order, money, locals, Start, Goto, Finish, Forget
<1>1. Cardinality(Active) \in Nat /\ Cardinality(Attending) \in Nat
  BY Counts
<1>2. CASE Request(p) \/ AutoOpenMeetingWorker(p)
  BY <1>2, RolesKept
     DEF Request, WishToAttend, WishToNotAttend, SelectCast, OpenOrder, CancelRequest,
         CancelMeeting, SpendElsewhere, AutoOpenMeetingWorker
<1>3. CASE Enter(p)
  <2>1. CASE PrepareAttendance(p)
    <3>1. role' = [role EXCEPT ![cast[p]] = "unconfirmed"] /\ cast[p] \notin Attending
      BY <2>1 DEF PrepareAttendance, Attending, With
    <3>2. CASE cast[p] \in Casts
      <4>1. /\ Attending' = Attending
            /\ Cardinality(Active') \in Nat /\ Cardinality(Active') >= Cardinality(Active)
        BY <3>1, <3>2, RoleCounts
      <4> QED
        BY <1>1, <2>1, <4>1 DEF PrepareAttendance
    <3>3. CASE cast[p] \notin Casts
      <4>1. UNCHANGED role
        BY <3>1, <3>3
      <4> QED
        BY <2>1, <4>1, RolesKept DEF PrepareAttendance
    <3> QED
      BY <3>2, <3>3
  <2>2. CASE ~ PrepareAttendance(p)
    BY <1>3, <2>2, RolesKept DEF Enter, AlreadyIn, CountActive
  <2> QED
    BY <2>1, <2>2
<1>4. CASE Reserve(p)
  BY <1>4, RolesKept DEF Reserve, LockOrder, LockOrderTooLate, ReadBalance, RefuseDebtor,
      ChargeCard, CardRefused, FreezeAndOpen, FreezeRefused, RecordPreChargeFail, Known, UnderLock
<1>5. CASE Fail(p)
  BY <1>5, RolesKept DEF Fail, FailRead, FailUnfreeze, ReturnMoney, ReturnRefused, BookBack,
      SetFailed, SetDontTouch, Known, FateKnown, Failures
<1>6. CASE Penalty(p)
  BY <1>6, RolesKept DEF Penalty, ReadForFee, ChargeForFee, ChargeForFeeRefused, CreditForFee, BookFee
<1>7. CASE Withdraw(p)
  <2>1. CASE DismissAll(p)
    <3>1. Attending' = {}
      BY <2>1 DEF DismissAll, Attending, With
    <3>2. Cardinality(Attending') = 0
      BY <3>1, FS_EmptySet
    <3> QED
      BY <2>1, <3>2 DEF DismissAll
  <2>2. CASE SetWithdrawn(p)
    BY <2>2, RolesKept DEF SetWithdrawn
  <2>3. CASE Leave(p)
    <3>1. cast[p] \in Casts /\ role' = [role EXCEPT ![cast[p]] = "out"]
      BY <2>3 DEF Leave, Active, With
    <3>2. /\ Cardinality(Attending') <= Cardinality(Attending)
          /\ Cardinality(Active') \in Nat /\ Cardinality(Active') >= Cardinality(Active) - 1
      BY <3>1, RoleCounts
    <3>3. /\ IsFiniteSet(Attending') /\ Cardinality(Attending') \in Nat
      <4>1. Attending' \in SUBSET Attending
        BY <3>1 DEF Attending, With
      <4>2. IsFiniteSet(Attending)
        BY Counts
      <4> QED
        BY <4>1, <4>2, FS_Subset, FS_CardinalityType
    <3> QED
      BY <1>1, <2>3, <3>2, <3>3 DEF Leave
  <2> QED
    BY <1>7, <2>1, <2>2, <2>3 DEF Withdraw
<1>8. CASE Select(p)
  <2>1. CASE AttendSelected(p)
    <3>1. cast[p] \in Casts /\ role' = [role EXCEPT ![cast[p]] = "attending"]
      BY <2>1 DEF AttendSelected
    <3>2. /\ Cardinality(Attending') <= Cardinality(Attending) + 1
          /\ Cardinality(Active') \in Nat /\ Cardinality(Active') >= Cardinality(Active)
      BY <3>1, RoleCounts
    <3>3. IsFiniteSet(Attending') /\ Cardinality(Attending') \in Nat
      <4>1. Attending' = Attending \cup {cast[p]}
        BY <3>1 DEF Attending, With
      <4>2. IsFiniteSet(Attending)
        BY Counts
      <4> QED
        BY <4>1, <4>2, FS_AddElement, FS_CardinalityType
    <3> QED
      BY <1>1, <2>1, <3>2, <3>3 DEF AttendSelected
  <2>2. CASE CountSelected(p)
    BY <1>1, <2>2, RolesKept DEF CountSelected
  <2> QED
    BY <1>8, <2>1, <2>2 DEF Select
<1>9. CASE Match(p)
  <2>1. CASE Assign(p)
    <3>1. Active' \in SUBSET Casts /\ Active \in SUBSET Active'
      BY <2>1 DEF Assign, Active, With
    <3>2. IsFiniteSet(Active')
      BY <3>1, CastAssumption, FS_Subset
    <3>3. Cardinality(Active') \in Nat /\ Cardinality(Active) <= Cardinality(Active')
      BY <3>1, <3>2, FS_Subset, FS_CardinalityType
    <3> QED
      BY <1>1, <2>1, <3>3 DEF Assign
  <2>2. CASE CleanupAttendances(p)
    BY <2>2 DEF CleanupAttendances
  <2>3. CASE ~ Assign(p) /\ ~ CleanupAttendances(p)
    BY <1>9, <2>3, RolesKept
       DEF Match, WorkerCount, MatchRead, MatchTooLate, Decide, DecideFails, SetMatchFailed,
           OpenConversation, Known, FateKnown, Failures
  <2> QED
    BY <2>1, <2>2, <2>3
<1> QED
  BY <1>2, <1>3, <1>4, <1>5, <1>6, <1>7, <1>8, <1>9, NoFault DEF AnyStep, Step

\* Every step of the only handler keeps what is known about the release.
LEMMA ReleasedStep ==
  ASSUME MaxFaults = 0, IInv, NEW p \in Procs, Procs = {p},
         SelectionKnown(p), ReleasedKnown(p), AnyStep(p)
  PROVE  ReleasedKnown(p)'
<1> USE DEF IInv, TypeOK, ReleasedKnown, Recruiting, Failures, order, money, locals, Start, Goto,
            Finish, Forget
<1>1. CASE Request(p) \/ AutoOpenMeetingWorker(p)
  BY <1>1 DEF Request, WishToAttend, WishToNotAttend, SelectCast, OpenOrder, CancelRequest,
      CancelMeeting, SpendElsewhere, AutoOpenMeetingWorker
<1>2. CASE Enter(p)
  BY <1>2 DEF Enter, PrepareAttendance, AlreadyIn, CountActive
<1>3. CASE Reserve(p)
  BY <1>3 DEF Reserve, LockOrder, LockOrderTooLate, ReadBalance, RefuseDebtor,
      ChargeCard, CardRefused, FreezeAndOpen, FreezeRefused, RecordPreChargeFail,
      Known, UnderLock, Critical, ReservedLate
<1>4. CASE Fail(p)
  BY <1>4, MoneyAssumption
     DEF Fail, FailRead, FailUnfreeze, ReturnMoney, ReturnRefused, BookBack, SetFailed,
         SetDontTouch, Known, FateKnown
<1>5. CASE Penalty(p)
  BY <1>5 DEF Penalty, ReadForFee, ChargeForFee, ChargeForFeeRefused, CreditForFee, BookFee
<1>6. CASE Withdraw(p)
  BY <1>6 DEF Withdraw, DismissAll, SetWithdrawn, Leave, ReservedLate
<1>7. CASE Select(p)
  BY <1>7 DEF Select, AttendSelected, CountSelected
<1>8. CASE Match(p)
  <2>1. CASE DecideFails(p)
    <3>1. status = "requested"
      <4> SUFFICES ASSUME status = "cast_selectable" PROVE FALSE
        BY <2>1 DEF DecideFails
      <4>1. Cardinality(Active) >= Needed /\ Cardinality(Attending) <= Needed
        BY <2>1 DEF DecideFails, SelectionKnown, Counting, Closing
      <4> QED
        BY <2>1, <4>1, Counts, CountAssumption DEF DecideFails
    <3> QED
      BY <2>1, <3>1 DEF DecideFails
  <2>2. CASE SetMatchFailed(p)
    BY <2>2 DEF SetMatchFailed, ReservedLate
  <2>3. CASE ~ DecideFails(p) /\ ~ SetMatchFailed(p)
    BY <1>8, <2>3 DEF Match, WorkerCount, MatchRead, MatchTooLate, Decide, Assign,
        CleanupAttendances, OpenConversation
  <2> QED
    BY <2>1, <2>2, <2>3
<1> QED
  BY <1>1, <1>2, <1>3, <1>4, <1>5, <1>6, <1>7, <1>8, NoFault DEF AnyStep, Step

\* finances.ts:17-19: with handlers that follow one another and end, an order that
\* has failed has released its credits, whoever failed it: also when matching
\* fails it, because matching never fails an order that has reserved them.
THEOREM ReleasedSerially ==
  ASSUME NEW p, Procs = {p}, MaxFaults = 0 PROVE Spec => []FailedIsReleased
<1> DEFINE Inv == SelectionKnown(p) /\ ReleasedKnown(p)
<1>1. Init => Inv
  <2> SUFFICES ASSUME Init PROVE Inv
    OBVIOUS
  <2>1. Attending = {}
    BY DEF Init, Attending, With
  <2>2. Cardinality(Attending) = 0
    BY <2>1, FS_EmptySet
  <2> QED
    BY <2>2, CountAssumption
       DEF Init, SelectionKnown, ReleasedKnown, Counting, Closing, Critical, Recruiting, Failures
<1>2. ASSUME IInv, Inv, [Next]_vars PROVE Inv'
  <2>1. CASE UNCHANGED vars
    BY <1>2, <2>1, RolesKept DEF vars, order, locals, SelectionKnown, ReleasedKnown
  <2>2. CASE Next
    BY <1>2, <2>2, SelectionStep, ReleasedStep DEF Next, AnyStep
  <2> QED
    BY <1>2, <2>1, <2>2
<1>3. Inv => FailedIsReleased
  BY DEF ReleasedKnown, FailedIsReleased
<1>4. IInv /\ Inv /\ [Next]_vars => Inv'
  BY <1>2
<1> HIDE DEF Inv
<1> QED
  BY <1>1, <1>3, <1>4, Invariance, PTL DEF Spec

-----------------------------------------------------------------------------
(* The reservation of an order that is to take place *)

\* A guest without debts has the selection opened as soon as there are enough
\* casts, so an order without a reservation has too few to be matched.
ReservationKnown(p) ==
    /\ status \in {"cast_selectable", "scheduled"}
          => reserved = Cost \/ at[p] \in {"return", "bookBack", "setFailed"}
    /\ status = "requested" /\ at[p] # "setFailed" => balance >= 0
    /\ at[p] \in {"charge", "freeze"} => balance + amount[p] >= Cost
    /\ status = "requested" /\ at[p] \notin {"count", "lock", "preFail"} \cup Critical
          => Cardinality(Active) < Needed
    /\ at[p] = "lock" => status = "requested"
    /\ at[p] \in {"assign", "cleanup", "open"} => status = "cast_selectable"
    /\ at[p] \in {"fee", "feeCharge", "feeCredit", "feeBook"} => status \in Failures
    /\ at[p] \in {"select", "countSelected"} => status = "cast_selectable"
    /\ fate[p] # "dont_touch"
    /\ at[p] = "idle" => op[p] = "route"
    /\ op[p] = "job" /\ at[p] \in {"matchCount", "match"} => status \in Recruiting

\* Every step of the only handler keeps what is known about the reservation.
LEMMA ReservationStep ==
  ASSUME MaxFaults = 0, Minimum = Needed, Overdraft = 0,
         IInv, NEW p \in Procs, Procs = {p},
         SelectionKnown(p), ReleasedKnown(p), ReservationKnown(p), AnyStep(p)
  PROVE  ReservationKnown(p)'
<1> USE DEF IInv, TypeOK, ReservationKnown, Recruiting, Failures, Critical,
            order, money, locals, Start, Goto, Finish, Forget
<1>1. Cardinality(Active) \in Nat /\ Needed \in Nat
  BY Counts, CountAssumption
<1>2. CASE Request(p) \/ AutoOpenMeetingWorker(p)
  <2>1. CASE SpendElsewhere(p)
    BY <2>1, RolesKept DEF SpendElsewhere
  <2>2. CASE ~ SpendElsewhere(p)
    BY <1>2, <2>2, RolesKept DEF Request, WishToAttend, WishToNotAttend, SelectCast, OpenOrder,
        CancelRequest, CancelMeeting, AutoOpenMeetingWorker
  <2> QED
    BY <2>1, <2>2
<1>3. CASE Enter(p)
  <2>1. CASE PrepareAttendance(p)
    BY <2>1 DEF PrepareAttendance
  <2>2. CASE AlreadyIn(p)
    BY <2>2, RolesKept DEF AlreadyIn
  <2>3. CASE CountActive(p)
    BY <1>1, <2>3, RolesKept DEF CountActive
  <2> QED
    BY <1>3, <2>1, <2>2, <2>3 DEF Enter
<1>4. CASE Reserve(p)
  <2>1. CASE ReadBalance(p)
    <3>1. CASE balance < Cost
      <4>1. Cost - balance \in Nat
        BY <3>1, MoneyAssumption
      <4>2. RoundUp(Cost - balance) \in Nat /\ RoundUp(Cost - balance) >= Cost - balance
        BY <4>1, RoundUpType, RoundUpCovers
      <4> QED
        BY <2>1, <3>1, <4>2, RolesKept, MoneyAssumption DEF ReadBalance
    <3>2. CASE ~ (balance < Cost)
      BY <2>1, <3>2, RolesKept, MoneyAssumption DEF ReadBalance
    <3> QED
      BY <3>1, <3>2
  <2>2. CASE RefuseDebtor(p) \/ FreezeRefused(p)
    <3>1. status = "requested"
      BY <2>2 DEF RefuseDebtor, FreezeRefused, Known, UnderLock
    <3> QED
      BY <2>2, <3>1, MoneyAssumption DEF RefuseDebtor, FreezeRefused
  <2>3. CASE ~ ReadBalance(p) /\ ~ RefuseDebtor(p) /\ ~ FreezeRefused(p)
    BY <1>4, <2>3, RolesKept
       DEF Reserve, LockOrder, LockOrderTooLate, ChargeCard, CardRefused, FreezeAndOpen,
           RecordPreChargeFail, Known, UnderLock
  <2> QED
    BY <2>1, <2>2, <2>3
<1>5. CASE Fail(p)
  <2>1. CASE FailUnfreeze(p)
    <3>1. Released(amount[p]) \in Nat
      BY ReleasedType
    <3> QED
      BY <2>1, <3>1, RolesKept DEF FailUnfreeze, ReservedLate
  <2>2. CASE ~ FailUnfreeze(p)
    BY <1>5, <2>2, RolesKept, MoneyAssumption
       DEF Fail, FailRead, ReturnMoney, ReturnRefused, BookBack, SetFailed, SetDontTouch,
           Known, FateKnown
  <2> QED
    BY <2>1, <2>2
<1>6. CASE Penalty(p)
  BY <1>6, RolesKept DEF Penalty, ReadForFee, ChargeForFee, ChargeForFeeRefused, CreditForFee, BookFee
<1>7. CASE Withdraw(p)
  <2>1. CASE DismissAll(p)
    <3>1. Active' = {}
      BY <2>1 DEF DismissAll, Active, With
    <3>2. Cardinality(Active') = 0
      BY <3>1, FS_EmptySet
    <3> QED
      BY <2>1, <3>2, CountAssumption DEF DismissAll, ReleasedKnown
  <2>2. CASE SetWithdrawn(p)
    BY <2>2, RolesKept DEF SetWithdrawn
  <2>3. CASE Leave(p)
    <3>1. status # "requested"
      BY <1>1, <2>3 DEF Leave, SelectionKnown
    <3> QED
      BY <2>3, <3>1 DEF Leave
  <2> QED
    BY <1>7, <2>1, <2>2, <2>3 DEF Withdraw
<1>8. CASE Select(p)
  BY <1>8, RolesKept DEF Select, AttendSelected, CountSelected
<1>9. CASE Match(p)
  <2>1. CASE Decide(p)
    <3>1. status = "cast_selectable"
      BY <1>1, <2>1 DEF Decide, ReleasedKnown
    <3> QED
      BY <2>1, <3>1 DEF Decide
  <2>2. CASE DecideFails(p) \/ WorkerCount(p) \/ MatchRead(p) \/ SetMatchFailed(p)
    BY <2>2, RolesKept DEF DecideFails, WorkerCount, MatchRead, SetMatchFailed, Known, FateKnown
  <2>3. CASE MatchTooLate(p)
    BY <2>3, RolesKept DEF MatchTooLate
  <2>4. CASE Assign(p) \/ CleanupAttendances(p) \/ OpenConversation(p)
    BY <2>4 DEF Assign, CleanupAttendances, OpenConversation
  <2> QED
    BY <1>9, <2>1, <2>2, <2>3, <2>4 DEF Match
<1> QED
  BY <1>2, <1>3, <1>4, <1>5, <1>6, <1>7, <1>8, <1>9, NoFault DEF AnyStep, Step

\* finances.ts:15-17: with handlers that follow one another and end, a guest who
\* has no debts and is not overdrawn, and no minimum below the number of casts
\* asked for, an order that is to take place has its estimated cost reserved.
\* The run order_minimum shows that the minimum matters.
THEOREM ReservedSerially ==
  ASSUME NEW p, Procs = {p}, MaxFaults = 0, Minimum = Needed, Overdraft = 0,
         Openings \subseteq Nat
  PROVE  Spec => []ScheduledIsReserved
<1> DEFINE Inv == SelectionKnown(p) /\ ReleasedKnown(p) /\ ReservationKnown(p)
<1>1. Init => Inv
  <2> SUFFICES ASSUME Init PROVE Inv
    OBVIOUS
  <2>1. Attending = {} /\ Active = {}
    BY DEF Init, Attending, Active, With
  <2>2. Cardinality(Attending) = 0 /\ Cardinality(Active) = 0
    BY <2>1, FS_EmptySet
  <2>3. balance >= 0
    BY DEF Init
  <2> QED
    BY <2>2, <2>3, CountAssumption
       DEF Init, SelectionKnown, ReleasedKnown, ReservationKnown, Counting, Closing, Critical,
           Recruiting, Failures
<1>2. ASSUME IInv, Inv, [Next]_vars PROVE Inv'
  <2>1. CASE UNCHANGED vars
    BY <1>2, <2>1, RolesKept
       DEF vars, order, money, locals, SelectionKnown, ReleasedKnown, ReservationKnown
  <2>2. CASE Next
    BY <1>2, <2>2, SelectionStep, ReleasedStep, ReservationStep DEF Next, AnyStep
  <2> QED
    BY <1>2, <2>1, <2>2
<1>3. Inv => ScheduledIsReserved
  BY DEF ReservationKnown, ScheduledIsReserved, AtRest
<1>4. IInv /\ Inv /\ [Next]_vars => Inv'
  BY <1>2
<1> HIDE DEF Inv
<1> QED
  BY <1>1, <1>3, <1>4, Invariance, PTL DEF Spec
=============================================================================
