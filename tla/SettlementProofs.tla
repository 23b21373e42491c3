-------------------------- MODULE SettlementProofs --------------------------
(***************************************************************************)
(* What Settlement guarantees for any number of casts, handlers, requests  *)
(* and faults, and for any amounts.                                        *)
(***************************************************************************)
EXTENDS Settlement, TLAPS

\* completeMeeting after it has taken the guest's row, the order's row, and
\* after it has decided on the charge.
WithPurse == {"complete", "release", "charge", "reward"}
WithLock  == {"release", "charge", "reward"}
Decided   == {"charge", "reward"}

\* Rows are locked while the transaction of p relies on them.
RowsLocked(p) ==
    /\ at[p] \in WithPurse => purse = p
    /\ at[p] \in WithLock => lock = p

\* A recharge, from its check on, works on an order whose committed status is
\* still the one it checked.
RechargeChecked(p) ==
    redo[p] => /\ at[p] \in {"begin", "bill"} \cup WithPurse
               /\ at[p] # "begin" => lock = p /\ status = "post_charge_fail"

\* What the transaction of p is going to release is what is reserved, and what
\* it buys covers what is missing.
Covers(p) ==
    at[p] \in Decided => /\ freed[p] = reserved
                         /\ balance - Total + freed[p] + bought[p] >= 0

\* A cast that pressed start or finish is one of the order's.
CastKnown(p) == at[p] \in {"arrive", "end"} => cast[p] \in Casts

Known(p) == RowsLocked(p) /\ RechargeChecked(p) /\ Covers(p) /\ CastKnown(p)

IInv ==
    /\ TypeOK
    /\ FrozenIsReserved
    /\ CompletedIsPaid
    /\ \A p \in Procs : Known(p)

\* The other handlers keep their place, and p changes nothing that another one
\* has locked.
Alone(p) ==
    /\ \A q \in Procs \ {p} : /\ at'[q] = at[q] /\ redo'[q] = redo[q] /\ cast'[q] = cast[q]
                              /\ freed'[q] = freed[q] /\ bought'[q] = bought[q]
    /\ (lock' = lock /\ status' = status /\ reserved' = reserved) \/ lock \in {NoProc, p}
    /\ (purse' = purse /\ balance' = balance) \/ purse \in {NoProc, p}

\* p does not settle the order.
Quiet(p) ==
    /\ Alone(p)
    /\ frozen' = frozen /\ reserved' = reserved /\ bills' = bills
    /\ status' = status \/ status' # "completed"
    /\ balance' = balance \/ balance' >= 0

-----------------------------------------------------------------------------
(* Amounts *)

\* ceilTo1000 rounds up.
LEMMA RoundUpCovers == \A n \in Nat : RoundUp(n) \in Nat /\ RoundUp(n) >= n
<1> SUFFICES ASSUME NEW n \in Nat PROVE RoundUp(n) \in Nat /\ RoundUp(n) >= n
  OBVIOUS
<1> DEFINE m == n + Pack - 1
           q == m \div Pack
           r == m % Pack
<1>1. m \in Nat /\ Pack \in Nat /\ Pack > 0
  BY MoneyAssumption
<1> HIDE DEF m
<1>2. q \in Nat /\ r \in 0..(Pack - 1) /\ m = Pack * q + r
  BY <1>1
<1> HIDE DEF q, r
<1>3. Pack * q \in Nat
  BY <1>1, <1>2
<1> DEFINE k == Pack * q
<1>4. k \in Nat /\ m = k + r
  BY <1>2, <1>3
<1> HIDE DEF k
<1>5. k >= n
  BY <1>1, <1>2, <1>4 DEF m
<1> QED
  BY <1>4, <1>5 DEF RoundUp, m, q, k

\* With what it buys the guest pays the bill.
LEMMA ShortfallCovers ==
  ASSUME TypeOK, FrozenIsReserved
  PROVE  /\ Released(reserved) = reserved
         /\ Shortfall \in Nat
         /\ balance - Total + reserved + Shortfall >= 0
<1>1. Released(reserved) = reserved
  BY MoneyAssumption DEF TypeOK, FrozenIsReserved, Released
<1> DEFINE left == balance - Total + reserved
<1>2. left \in Int /\ Shortfall = IF left < 0 THEN RoundUp(- left) ELSE 0
  BY <1>1, MoneyAssumption DEF TypeOK, Shortfall
<1> HIDE DEF left
<1>3. Shortfall \in Nat /\ left + Shortfall >= 0
  <2>1. CASE left < 0
    <3>1. - left \in Nat
      BY <1>2, <2>1
    <3>2. RoundUp(- left) \in Nat /\ RoundUp(- left) >= - left
      BY <3>1, RoundUpCovers
    <3> QED
      BY <1>2, <2>1, <3>2
  <2>2. CASE ~ (left < 0)
    BY <1>2, <2>2
  <2> QED
    BY <2>1, <2>2
<1> QED
  BY <1>1, <1>3 DEF left

\* The invariant holds initially.
LEMMA InitIInv == Init => IInv
<1> SUFFICES ASSUME Init PROVE IInv
  OBVIOUS
<1>1. TypeOK
  <2>1. /\ status \in Status /\ shown \subseteq Status /\ forced \in BOOLEAN
        /\ arrived \subseteq Casts /\ ended \subseteq Casts
        /\ at \in [Procs -> Labels]
    BY DEF Init, Status, Labels
  <2>2. /\ reserved \in {0, Estimate} /\ bills \in Nat
        /\ balance \in Int /\ frozen \in Nat /\ taken \in Nat /\ booked \in Nat
    BY MoneyAssumption DEF Init
  <2>3. /\ lock \in Procs \cup {NoProc} /\ purse \in Procs \cup {NoProc}
        /\ cast \in [Procs -> Casts \cup {NoCast}]
        /\ redo \in [Procs -> BOOLEAN] /\ skip \in [Procs -> BOOLEAN]
        /\ freed \in [Procs -> Nat] /\ bought \in [Procs -> Nat]
        /\ started \in Nat /\ errors \in Nat /\ crashes \in Nat
    BY DEF Init
  <2> QED
    BY <2>1, <2>2, <2>3 DEF TypeOK
<1>2. FrozenIsReserved /\ CompletedIsPaid
  BY DEF Init, FrozenIsReserved, CompletedIsPaid
<1>3. \A p \in Procs : Known(p)
  BY DEF Init, Known, RowsLocked, RechargeChecked, Covers, CastKnown, WithPurse, WithLock,
         Decided
<1> QED
  BY <1>1, <1>2, <1>3 DEF IInv

-----------------------------------------------------------------------------
(* What the handlers know *)

\* A step of p that leaves alone what others have locked leaves them what they know.
LEMMA OthersKnown ==
  ASSUME IInv, NEW p \in Procs, Alone(p), Known(p)'
  PROVE  \A q \in Procs : Known(q)'
<1> SUFFICES ASSUME NEW q \in Procs, q # p PROVE Known(q)'
  OBVIOUS
<1> USE ProcAssumption DEF IInv, Known, WithPurse, WithLock, Decided
<1>1. at'[q] = at[q] /\ redo'[q] = redo[q] /\ freed'[q] = freed[q] /\ bought'[q] = bought[q]
  BY DEF Alone
<1>2. lock = q => lock' = lock /\ status' = status /\ reserved' = reserved
  BY DEF Alone
<1>3. purse = q => purse' = purse /\ balance' = balance
  BY DEF Alone
<1>4. RowsLocked(q)'
  BY <1>1, <1>2, <1>3 DEF RowsLocked
<1>5. RechargeChecked(q)'
  BY <1>1, <1>2 DEF RechargeChecked
<1>6. Covers(q)'
  BY <1>1, <1>2, <1>3 DEF Covers, RowsLocked
<1>7. CastKnown(q)'
  BY <1>1 DEF CastKnown, Alone
<1> QED
  BY <1>4, <1>5, <1>6, <1>7

\* A quiet step of p keeps the invariant if it keeps the types and what p knows.
LEMMA QuietStep ==
  ASSUME IInv, TypeOK', NEW p \in Procs, Quiet(p), Known(p)' PROVE IInv'
<1>1. \A q \in Procs : Known(q)'
  BY OthersKnown DEF Quiet
<1> QED
  BY <1>1 DEF Quiet, IInv, FrozenIsReserved, CompletedIsPaid

\* A request only starts a handler.
LEMMA RequestStep ==
  ASSUME IInv, NEW p \in Procs,
         Request(p)
  PROVE  TypeOK' /\ Quiet(p) /\ Known(p)'
<1> USE MoneyAssumption, BoundAssumption
    DEF IInv, TypeOK, order, money, locks, locals, bounds, Status, Labels, Start, Goto,
        Finish, Forget, SetStatus, Rollback, Unlock, Alone, Quiet, Known, RowsLocked,
        RechargeChecked, Covers, CastKnown, WithPurse, WithLock, Decided
<1>1. CASE Arrive(p)
  BY <1>1 DEF Arrive
<1>2. CASE OperatorStart(p)
  BY <1>2 DEF OperatorStart
<1>3. CASE CastFinish(p)
  BY <1>3 DEF CastFinish
<1>4. CASE OperatorFinish(p)
  BY <1>4 DEF OperatorFinish
<1>5. CASE AdminFinish(p)
  BY <1>5 DEF AdminFinish, Press
<1>6. CASE CompleteMeeting(p)
  BY <1>6 DEF CompleteMeeting
<1>7. CASE Recharge(p)
  BY <1>7 DEF Recharge
<1>8. CASE SpendElsewhere(p)
  BY <1>8 DEF SpendElsewhere
<1>9. CASE AdminComplete(p)
  BY <1>9 DEF AdminComplete, Press
<1> QED
  BY <1>1, <1>2, <1>3, <1>4, <1>5, <1>6, <1>7, <1>8, <1>9 DEF Request

\* Starting settles nothing.
LEMMA StartingStep ==
  ASSUME IInv, NEW p \in Procs,
         Starting(p)
  PROVE  TypeOK' /\ Quiet(p) /\ Known(p)'
<1> USE MoneyAssumption, BoundAssumption
    DEF IInv, TypeOK, order, money, locks, locals, bounds, Status, Labels, Start, Goto,
        Finish, Forget, SetStatus, Rollback, Unlock, Alone, Quiet, Known, RowsLocked,
        RechargeChecked, Covers, CastKnown, WithPurse, WithLock, Decided
<1>1. CASE SetStartTime(p)
  BY <1>1 DEF SetStartTime
<1>2. CASE SetStartTimes(p)
  BY <1>2 DEF SetStartTimes
<1>3. CASE StartRead(p)
  <2>1. CASE status = "scheduled"
    <3>1. at[p] = "startRead" /\ Goto(p, "startWrite") /\ UNCHANGED <<order, money, locks, locals, bounds>>
      BY <1>3, <2>1 DEF StartRead
    <3> QED
      BY <3>1
  <2>2. CASE ~ (status = "scheduled")
    <3>1. at[p] = "startRead" /\ Finish(p) /\ UNCHANGED <<order, money, locks, bounds>>
      BY <1>3, <2>2 DEF StartRead
    <3> QED
      BY <3>1
  <2> QED
    BY <2>1, <2>2
<1>4. CASE StartMeeting(p)
  BY <1>4 DEF StartMeeting
<1> QED
  BY <1>1, <1>2, <1>3, <1>4 DEF Starting

\* Finishing settles nothing by itself.
LEMMA EndingStep ==
  ASSUME IInv, NEW p \in Procs,
         Ending(p)
  PROVE  TypeOK' /\ Quiet(p) /\ Known(p)'
<1> USE MoneyAssumption, BoundAssumption
    DEF IInv, TypeOK, order, money, locks, locals, bounds, Status, Labels, Start, Goto,
        Finish, Forget, SetStatus, Rollback, Unlock, Alone, Quiet, Known, RowsLocked,
        RechargeChecked, Covers, CastKnown, WithPurse, WithLock, Decided
<1>1. CASE SetEndTime(p)
  BY <1>1 DEF SetEndTime
<1>2. CASE CheckAllFinished(p)
  <2>1. CASE ended = Casts
    <3>1. at[p] = "checkAll" /\ Goto(p, "mark") /\ UNCHANGED <<order, money, locks, locals, bounds>>
      BY <1>2, <2>1 DEF CheckAllFinished
    <3> QED
      BY <3>1
  <2>2. CASE ~ (ended = Casts)
    <3>1. at[p] = "checkAll" /\ Finish(p) /\ UNCHANGED <<order, money, locks, bounds>>
      BY <1>2, <2>2 DEF CheckAllFinished
    <3> QED
      BY <3>1
  <2> QED
    BY <2>1, <2>2
<1>3. CASE SetEndTimes(p)
  BY <1>3 DEF SetEndTimes
<1>4. CASE MarkMeetingFinished(p)
  <2>1. CASE skip[p]
    <3>1. at[p] = "mark" /\ lock = NoProc /\ status' = "finished" /\ Finish(p)
          /\ shown' = shown \cup {"finished"}
          /\ UNCHANGED <<arrived, ended, reserved, bills, forced, money, locks, bounds>>
      BY <1>4, <2>1 DEF MarkMeetingFinished
    <3> QED
      BY <3>1
  <2>2. CASE ~ (skip[p])
    <3>1. at[p] = "mark" /\ lock = NoProc /\ status' = "finished" /\ Goto(p, "bill")
          /\ shown' = shown \cup {"finished"}
          /\ UNCHANGED <<arrived, ended, reserved, bills, forced, money, locks, locals, bounds>>
      BY <1>4, <2>2 DEF MarkMeetingFinished
    <3> QED
      BY <3>1
  <2> QED
    BY <2>1, <2>2
<1> QED
  BY <1>1, <1>2, <1>3, <1>4 DEF Ending

\* Of a settlement, only the commit does more than take locks and decide.
LEMMA SettlingStep ==
  ASSUME IInv, NEW p \in Procs,
         LockOrder(p) \/ LockOrderTooLate(p) \/ BookAttendances(p) \/ MarkMeetingCompleted(p)
           \/ ReleaseReserved(p) \/ ChargeCard(p) \/ CardRefused(p) \/ SetPostChargeFail(p)
           \/ DeadlockAbort(p) \/ Fault(p) \/ (Rollback(p, "idle") /\ UNCHANGED bounds)
  PROVE  TypeOK' /\ Quiet(p) /\ Known(p)'
<1> USE MoneyAssumption, BoundAssumption
    DEF IInv, TypeOK, order, money, locks, locals, bounds, Status, Labels, Start, Goto,
        Finish, Forget, SetStatus, Rollback, Unlock, Alone, Quiet, Known, RowsLocked,
        RechargeChecked, Covers, CastKnown, WithPurse, WithLock, Decided
<1>1. CASE LockOrder(p)
  BY <1>1 DEF LockOrder
<1>2. CASE LockOrderTooLate(p)
  BY <1>2 DEF LockOrderTooLate
<1>3. CASE BookAttendances(p)
  BY <1>3 DEF BookAttendances
<1>4. CASE MarkMeetingCompleted(p)
  BY <1>4 DEF MarkMeetingCompleted
<1>5. CASE ReleaseReserved(p)
  BY <1>5, ShortfallCovers DEF ReleaseReserved
<1>6. CASE ChargeCard(p)
  BY <1>6 DEF ChargeCard
<1>7. CASE CardRefused(p)
  BY <1>7 DEF CardRefused
<1>8. CASE SetPostChargeFail(p)
  BY <1>8 DEF SetPostChargeFail
<1>9. CASE DeadlockAbort(p)
  BY <1>9 DEF DeadlockAbort
<1>10. CASE RewardAborted(p)
  BY <1>10 DEF RewardAborted
<1>11. CASE Crash(p)
  BY <1>11 DEF Crash
<1>12. CASE Rollback(p, "idle") /\ UNCHANGED bounds
  BY <1>12
<1> QED
  BY <1>1, <1>2, <1>3, <1>4, <1>5, <1>6, <1>7, <1>8, <1>9, <1>10, <1>11, <1>12 DEF Fault

-----------------------------------------------------------------------------
(* The commit of a settlement *)

\* Every step is quiet or commits a settlement.
LEMMA QuietOrCommit ==
  ASSUME IInv, NEW p \in Procs, Request(p) \/ Step(p) \/ Fault(p)
  PROVE  \/ TypeOK' /\ Quiet(p) /\ Known(p)'
         \/ at[p] = "reward" /\ Commit(p) /\ UNCHANGED bounds
<1>1. CASE RewardAll(p)
  BY <1>1 DEF RewardAll
<1>2. CASE RewardRaises(p)
  <2>1. CASE bought[p] > 0
    BY <1>2, <2>1 DEF RewardRaises
  <2>2. CASE ~ (bought[p] > 0)
    BY <1>2, <2>2, SettlingStep DEF RewardRaises
  <2> QED
    BY <2>1, <2>2
<1>3. CASE ~ RewardAll(p) /\ ~ RewardRaises(p)
  BY <1>3, RequestStep, StartingStep, EndingStep, SettlingStep DEF Step, Settle
<1> QED
  BY <1>1, <1>2, <1>3

\* A commit keeps the invariant: what was decided under the locks still fits.
LEMMA CommitStep ==
  ASSUME IInv, NEW p \in Procs, at[p] = "reward", Commit(p), UNCHANGED bounds
  PROVE  IInv'
<1>1. /\ lock = p /\ purse = p /\ freed[p] = reserved
      /\ balance - Total + freed[p] + bought[p] >= 0
  BY DEF IInv, Known, RowsLocked, Covers, WithPurse, WithLock, Decided
<1>2. FrozenIsReserved' /\ CompletedIsPaid'
  BY <1>1, MoneyAssumption
     DEF Commit, IInv, TypeOK, FrozenIsReserved, CompletedIsPaid
<1>3. TypeOK'
  BY <1>1, <1>2, MoneyAssumption
     DEF Commit, Unlock, Finish, Goto, Forget, IInv, TypeOK, FrozenIsReserved,
         bounds, Status, Labels
<1>4. Alone(p) /\ Known(p)'
  BY <1>1 DEF Commit, Finish, Goto, Forget, IInv, TypeOK, Alone, Known, RowsLocked,
              RechargeChecked, Covers, CastKnown, WithPurse, WithLock, Decided
<1> QED
  BY <1>2, <1>3, <1>4, OthersKnown DEF IInv

\* Every step keeps the invariant.
LEMMA NextIInv == IInv /\ [Next]_vars => IInv'
<1> SUFFICES ASSUME IInv, [Next]_vars PROVE IInv'
  OBVIOUS
<1>1. CASE UNCHANGED vars
  BY <1>1 DEF vars, order, money, locks, locals, bounds, IInv, TypeOK, FrozenIsReserved,
              CompletedIsPaid, Known, RowsLocked, RechargeChecked, Covers, CastKnown
<1>2. ASSUME NEW p \in Procs, Request(p) \/ Step(p) \/ Fault(p) PROVE IInv'
  BY <1>2, QuietOrCommit, QuietStep, CommitStep
<1> QED
  BY <1>1, <1>2 DEF Next

-----------------------------------------------------------------------------
(* Theorems *)

\* The inductive invariant: a settlement holds both rows once it has read them,
\* so that what it decided to release and to charge still fits when it commits.
THEOREM Invariance == Spec => []IInv
BY InitIInv, NextIInv, PTL DEF Spec

\* Every reachable state is well typed; among it, no settlement drives
\* frozen_credits below zero.
THEOREM TypeCorrect == Spec => []TypeOK
<1>1. IInv => TypeOK
  BY DEF IInv
<1> QED
  BY <1>1, Invariance, PTL

\* finances.ts:15-19: for any number of settlements that race, what is frozen is
\* what this order and the guest's other orders have reserved.
THEOREM ReleasedExactly == Spec => []FrozenIsReserved
<1>1. IInv => FrozenIsReserved
  BY DEF IInv
<1> QED
  BY <1>1, Invariance, PTL

\* finances.ts:94-96: an order is completed only with its bill paid, for all
\* amounts and any size of the packs the card is charged in.
THEOREM PaidWhenCompleted == Spec => []CompletedIsPaid
<1>1. IInv => CompletedIsPaid
  BY DEF IInv
<1> QED
  BY <1>1, Invariance, PTL

\* lifecycle.ts:332-340: a recharge books the order only while its committed
\* status is post_charge_fail, for any number of handlers.
THEOREM RechargedOnlyWhenFailed == Spec => RechargeOfFailedOnly
<1>1. ASSUME IInv, [Next]_vars, NEW p \in Procs, redo[p], bills' # bills, at'[p] # at[p]
      PROVE  status = "post_charge_fail"
  <2>1. PICK q \in Procs : Request(q) \/ Step(q) \/ Fault(q)
    BY <1>1 DEF Next, vars, order
  <2>2. at[q] = "reward" /\ Commit(q)
    BY <1>1, <2>1, QuietOrCommit DEF Quiet
  <2>3. p = q
    BY <1>1, <2>2 DEF Commit, Finish, Goto, IInv, TypeOK
  <2> QED
    BY <1>1, <2>2, <2>3 DEF IInv, Known, RechargeChecked
<1>2. IInv /\ [Next]_vars =>
        \A p \in Procs : redo[p] /\ bills' # bills /\ at'[p] # at[p]
                            => status = "post_charge_fail"
  BY <1>1
<1> QED
  BY <1>2, Invariance, PTL DEF Spec, RechargeOfFailedOnly

-----------------------------------------------------------------------------
(* Money that is taken and recorded *)

\* The one settlement that has charged the card, and it alone, stands between
\* what the gateway has taken and what is recorded.
ChargeKnown ==
    /\ \A p \in Procs : at[p] = "reward" => taken = booked + bought[p]
    /\ (\A p \in Procs : at[p] # "reward") => taken = booked

\* p keeps its distance from the charge.
Chargeless(p) ==
    /\ at[p] # "reward" /\ at'[p] # "reward"
    /\ taken' = taken /\ booked' = booked

\* A step of a handler that neither charges nor records anything.
LEMMA ChargelessStep ==
  ASSUME IInv, ChargeKnown, NEW p \in Procs, Alone(p), Chargeless(p) PROVE ChargeKnown'
<1>1. \A q \in Procs : q # p => at'[q] = at[q] /\ bought'[q] = bought[q]
  BY DEF Alone
<1> QED
  BY <1>1 DEF ChargeKnown, Chargeless

\* Requests, starting and finishing are far from the charge.
LEMMA OtherStepsChargeless ==
  ASSUME IInv, NEW p \in Procs, Request(p) \/ Starting(p) \/ Ending(p)
  PROVE  Chargeless(p)
<1> USE DEF IInv, TypeOK, Chargeless, order, money, locals, Labels, Start, Goto, Finish, SetStatus
<1>1. CASE Request(p)
  BY <1>1 DEF Request, Arrive, OperatorStart, CastFinish, OperatorFinish, AdminFinish,
              CompleteMeeting, AdminComplete, Press, Recharge, SpendElsewhere
<1>2. CASE Starting(p)
  BY <1>2 DEF Starting, SetStartTime, SetStartTimes, StartRead, StartMeeting
<1>3. CASE Ending(p)
  BY <1>3 DEF Ending, SetEndTime, CheckAllFinished, SetEndTimes, MarkMeetingFinished
<1> QED
  BY <1>1, <1>2, <1>3

\* So is what a settlement does before it knows what is missing.
LEMMA LockingChargeless ==
  ASSUME IInv, NEW p \in Procs,
         LockOrder(p) \/ LockOrderTooLate(p) \/ BookAttendances(p) \/ MarkMeetingCompleted(p)
           \/ CardRefused(p) \/ SetPostChargeFail(p) \/ DeadlockAbort(p)
  PROVE  Chargeless(p)
<1> USE DEF IInv, TypeOK, Chargeless, order, money, locals, Labels, Goto, Finish, SetStatus, Rollback
<1>1. CASE DeadlockAbort(p)
  BY <1>1 DEF DeadlockAbort, Deadlock
<1>2. CASE ~ DeadlockAbort(p)
  BY <1>2 DEF LockOrder, LockOrderTooLate, BookAttendances, MarkMeetingCompleted, CardRefused,
              SetPostChargeFail
<1> QED
  BY <1>1, <1>2

\* Only the handler with the order's row decides, charges and rewards.
LEMMA DecidesAlone ==
  ASSUME IInv, NEW p \in Procs, at[p] \in WithLock
  PROVE  \A q \in Procs : q # p => at[q] # "reward"
BY DEF IInv, Known, RowsLocked, WithLock

\* Without database errors and crashes every step keeps the charge known.
LEMMA ChargeStep ==
  ASSUME MaxErrors = 0, MaxCrashes = 0, IInv, ChargeKnown,
         NEW p \in Procs, Request(p) \/ Step(p) \/ Fault(p)
  PROVE  ChargeKnown'
<1>1. ~ Fault(p)
  BY DEF Fault, RewardAborted, Crash, IInv, TypeOK
<1>2. CASE at[p] = "reward" /\ Commit(p)
  <2>1. taken = booked + bought[p] /\ taken' = taken /\ booked' = booked + bought[p]
    BY <1>2 DEF ChargeKnown, Commit
  <2>2. \A q \in Procs : at'[q] # "reward"
    BY <1>2, DecidesAlone DEF Commit, Finish, Goto, IInv, TypeOK, WithLock
  <2> QED
    BY <2>1, <2>2 DEF ChargeKnown
<1>3. CASE ~ (at[p] = "reward" /\ Commit(p))
  <2>1. Alone(p)
    BY <1>3, QuietOrCommit DEF Quiet
  <2>2. CASE Request(p) \/ Starting(p) \/ Ending(p)
    BY <2>1, <2>2, OtherStepsChargeless, ChargelessStep
  <2>3. CASE LockOrder(p) \/ LockOrderTooLate(p) \/ BookAttendances(p) \/ MarkMeetingCompleted(p)
               \/ CardRefused(p) \/ SetPostChargeFail(p) \/ DeadlockAbort(p)
    BY <2>1, <2>3, LockingChargeless, ChargelessStep
  <2>4. CASE ReleaseReserved(p)
    <3>1. /\ at[p] = "release" /\ bought'[p] = Shortfall /\ Shortfall \in Nat
          /\ at'[p] = IF Shortfall > 0 THEN "charge" ELSE "reward"
          /\ taken' = taken /\ booked' = booked
      BY <2>4, ShortfallCovers DEF ReleaseReserved, Goto, money, IInv, TypeOK
    <3>2. \A q \in Procs : at[q] # "reward"
      BY <3>1, DecidesAlone DEF WithLock
    <3>3. taken = booked /\ taken \in Nat
      BY <3>2 DEF ChargeKnown, IInv, TypeOK
    <3>4. \A q \in Procs : q # p => at'[q] # "reward"
      BY <2>1, <3>2 DEF Alone
    <3> QED
      BY <3>1, <3>3, <3>4 DEF ChargeKnown
  <2>5. CASE ChargeCard(p)
    <3>1. /\ at[p] = "charge" /\ bought'[p] = bought[p] /\ at'[p] = "reward"
          /\ taken' = taken + bought[p] /\ booked' = booked
      BY <2>5 DEF ChargeCard, Goto, locals, IInv, TypeOK
    <3>2. \A q \in Procs : at[q] # "reward"
      BY <3>1, DecidesAlone DEF WithLock
    <3>3. taken = booked
      BY <3>2 DEF ChargeKnown
    <3>4. \A q \in Procs : q # p => at'[q] # "reward"
      BY <2>1, <3>2 DEF Alone
    <3> QED
      BY <3>1, <3>3, <3>4 DEF ChargeKnown
  <2>6. CASE RewardAll(p) \/ RewardRaises(p)
    <3>1. at[p] = "reward" /\ ~ (bought[p] > 0) /\ Rollback(p, "idle")
      BY <1>3, <2>6 DEF RewardAll, RewardRaises
    <3>2. /\ bought[p] = 0 /\ taken' = taken /\ booked' = booked
          /\ booked \in Nat /\ at'[p] = "idle"
      BY <3>1 DEF Rollback, Goto, money, IInv, TypeOK
    <3>3. taken = booked
      BY <3>1, <3>2 DEF ChargeKnown
    <3>4. \A q \in Procs : at'[q] # "reward"
      BY <2>1, <3>1, <3>2, DecidesAlone DEF Alone, WithLock
    <3> QED
      BY <3>2, <3>3, <3>4 DEF ChargeKnown
  <2> QED
    BY <1>1, <2>2, <2>3, <2>4, <2>5, <2>6 DEF Step, Settle
<1> QED
  BY <1>2, <1>3

\* README.md:150-152: for any number of settlements and recharges that race, of
\* refused cards, of rewards that raise and of deadlocks, the money the gateway
\* has taken is recorded, unless the database aborts a transaction that has
\* charged, or the process dies in it.
THEOREM ChargeRecorded ==
  ASSUME MaxErrors = 0, MaxCrashes = 0 PROVE Spec => []TakenIsBooked
<1>1. Init => ChargeKnown
  BY DEF Init, ChargeKnown
<1>2. ASSUME IInv, ChargeKnown, [Next]_vars PROVE ChargeKnown'
  <2>1. CASE UNCHANGED vars
    BY <1>2, <2>1 DEF vars, money, locals, ChargeKnown
  <2>2. ASSUME NEW p \in Procs, Request(p) \/ Step(p) \/ Fault(p) PROVE ChargeKnown'
    BY <1>2, <2>2, ChargeStep
  <2> QED
    BY <1>2, <2>1, <2>2 DEF Next
<1>3. ChargeKnown => TakenIsBooked
  BY DEF ChargeKnown, TakenIsBooked, AtRest
<1>4. IInv /\ ChargeKnown /\ [Next]_vars => ChargeKnown'
  BY <1>2
<1> QED
  BY <1>1, <1>3, <1>4, Invariance, PTL DEF Spec

-----------------------------------------------------------------------------
(* One bill for an order that is handled by one handler at a time *)

\* An order that nobody forced is billed when all its casts have finished, so
\* that no cast can finish it again; a handler on its way to a bill works on an
\* order that has none, or that was forced.
BilledSerially(p) ==
    forced \/ /\ bills = IF status = "completed" THEN 1 ELSE 0
              /\ status = "completed" => ended = Casts
              /\ at[p] \in {"startWrite", "end", "checkAll", "endAll", "mark", "bill",
                            "complete", "release", "charge", "reward", "postFail"}
                    => status # "completed"

\* Every step of the only handler keeps that.
LEMMA SerialBillStep ==
  ASSUME NEW p \in Procs, Procs = {p},
         IInv, BilledSerially(p), Request(p) \/ Step(p) \/ Fault(p)
  PROVE  BilledSerially(p)'
<1> USE DEF IInv, TypeOK, BilledSerially, order, money, locals, Status, Labels,
            Start, Goto, Finish, SetStatus, Rollback
<1>1. CASE Request(p)
  <2>1. CASE CastFinish(p)
    <3>1. ended # Casts
      BY <2>1 DEF CastFinish
    <3> QED
      BY <2>1, <3>1 DEF CastFinish
  <2>2. CASE AdminFinish(p) \/ AdminComplete(p)
    <3>1. /\ forced \/ bills > 0 => forced'
          /\ status' = status /\ ended' = ended /\ bills' = bills
      BY <2>2, Zenon DEF AdminFinish, AdminComplete, Press
    <3>2. CASE forced \/ bills > 0
      BY <3>1, <3>2
    <3>3. CASE ~ (forced \/ bills > 0)
      BY <3>1, <3>3
    <3> QED
      BY <3>2, <3>3
  <2>3. CASE ~ CastFinish(p) /\ ~ AdminFinish(p) /\ ~ AdminComplete(p)
    BY <1>1, <2>3 DEF Request, Arrive, OperatorStart, OperatorFinish,
                      CompleteMeeting, Recharge, SpendElsewhere
  <2> QED
    BY <2>1, <2>2, <2>3
<1>2. CASE Starting(p)
  BY <1>2 DEF Starting, SetStartTime, SetStartTimes, StartRead, StartMeeting
<1>3. CASE Ending(p)
  <2>1. CASE SetEndTime(p)
    BY <2>1 DEF SetEndTime
  <2>2. CASE CheckAllFinished(p)
    BY <2>2 DEF CheckAllFinished
  <2>3. CASE SetEndTimes(p)
    BY <2>3 DEF SetEndTimes
  <2>4. CASE MarkMeetingFinished(p)
    BY <2>4 DEF MarkMeetingFinished
  <2> QED
    BY <1>3, <2>1, <2>2, <2>3, <2>4 DEF Ending
<1>4. CASE Settle(p) /\ ~ RewardAll(p) /\ ~ RewardRaises(p)
  BY <1>4 DEF Settle, LockOrder, LockOrderTooLate, BookAttendances, MarkMeetingCompleted,
              ReleaseReserved, ChargeCard, CardRefused, SetPostChargeFail, DeadlockAbort
<1>5. CASE RewardAll(p) \/ RewardRaises(p)
  <2>1. at[p] = "reward"
    BY <1>5 DEF RewardAll, RewardRaises
  <2>2. CASE Commit(p)
    <3>1. /\ forced \/ ended # Casts => forced'
          /\ status' = "completed" /\ ended' = ended /\ bills' = bills + 1
          /\ at' = [at EXCEPT ![p] = "idle"]
      BY <2>2, Zenon DEF Commit
    <3>2. ~ forced => bills = 0
      BY <2>1
    <3> QED
      BY <3>1, <3>2
  <2>3. CASE ~ Commit(p)
    BY <1>5, <2>3 DEF RewardAll, RewardRaises
  <2> QED
    BY <2>2, <2>3
<1>6. CASE Fault(p)
  BY <1>6 DEF Fault, RewardAborted, Crash
<1> QED
  BY <1>1, <1>2, <1>3, <1>4, <1>5, <1>6 DEF Step

\* lifecycle.ts:244-247: with the requests handled one after another, any number
\* of casts, any requests of casts, operators and admins, any amounts, refused
\* cards, recharges, raising rewards, database errors and crashes, an order is
\* billed once, unless the back office settled it before its casts had finished
\* or pressed a button of an outdated page.
THEOREM BilledOnceSerially ==
  ASSUME NEW p, Procs = {p} PROVE Spec => []BilledOnce
<1>1. Init => BilledSerially(p)
  BY DEF Init, BilledSerially
<1>2. ASSUME IInv, BilledSerially(p), [Next]_vars PROVE BilledSerially(p)'
  <2>1. CASE UNCHANGED vars
    BY <1>2, <2>1 DEF vars, order, BilledSerially
  <2>2. CASE Next
    BY <1>2, <2>2, SerialBillStep DEF Next
  <2> QED
    BY <1>2, <2>1, <2>2
<1>3. BilledSerially(p) => BilledOnce
  BY DEF BilledSerially, BilledOnce
<1>4. IInv /\ BilledSerially(p) /\ [Next]_vars => BilledSerially(p)'
  BY <1>2
<1> QED
  BY <1>1, <1>3, <1>4, Invariance, PTL DEF Spec
=============================================================================
