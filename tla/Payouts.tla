------------------------------- MODULE Payouts -------------------------------
(***************************************************************************)
(* A cast's earnings leave the system (server/services/payouts.ts and its  *)
(* routes): ordinary applications, holds, fast payouts, and the operator   *)
(* who releases, transfers or cancels an application.                      *)
(*                                                                         *)
(* An application looks for open ones, reads the balance and this month's  *)
(* earnings, and deducts in a transaction of its own; nothing is locked    *)
(* from the first look to the deduction.                                   *)
(***************************************************************************)
EXTENDS RequestHandlers

CONSTANTS
    BaseFee,        \* payout_base_fee
    FeePermille,    \* payout_fee_multiplier
    MaxFee,         \* payout_max_fee
    MinNet,         \* payout_min_net_amount
    Earning,        \* credits earned at a time
    Nets,           \* net amounts a cast may ask for
    PayoutOpenings, \* credits earned in earlier months
    MaxDay          \* bound: half months

ASSUME FeeAssumption ==
    /\ BaseFee \in Nat /\ FeePermille \in Nat /\ MaxFee \in Nat /\ MinNet \in Nat \ {0}
    /\ Earning \in Nat /\ Nets \subseteq Nat
    /\ PayoutOpenings \subseteq Nat /\ MaxDay \in Nat

VARIABLES
    savings,   \* users.credit_balance of the cast
    recent,    \* sum of the cast's credit_transactions of this month, payouts excluded
    matured,   \* credits earned in earlier months
    apps,      \* payout_requests, in the order of their ids
    sent,      \* sent[i]: transfers booked for apps[i]
    back,      \* back[i]: times the credits of apps[i] were returned
    fastOut,   \* credits that left by fast payouts
    reopened,  \* a closed application was put on hold again
    day,       \* half months: an even one ends on the 15th
    plan       \* plan[h]: what handler h has read and decided

payoutRows == <<savings, recent, matured, apps, sent, back, fastOut, reopened>>
payoutVars == <<payoutRows, day, plan>>

Open == {"pending", "on_hold"}
PayoutStatus == Open \cup {"processed", "cancelled"}
Apps == 1..MaxRequests
App(s, n) == [status |-> s, credit |-> n]
NoApp == App("none", 0)
Planned(k, n, b, p, i) == [kind |-> k, net |-> n, balance |-> b, payable |-> p, app |-> i]
NoPlan == Planned("none", 0, 0, 0, 1)
PayoutLabels == {"idle", "look", "readBalance", "readMonth", "holdLook", "book", "process", "cancel"}

PayoutTypeOK ==
    /\ at \in [Handlers -> PayoutLabels]
    /\ savings \in Int /\ recent \in Nat /\ matured \in Nat
    /\ fastOut \in Nat /\ reopened \in BOOLEAN /\ day \in 0..MaxDay
    /\ apps \in [Apps -> [status : PayoutStatus \cup {"none"}, credit : Nat]]
    /\ sent \in [Apps -> Nat] /\ back \in [Apps -> Nat]
    /\ plan \in [Handlers -> [kind : {"none", "apply", "hold", "fast"}, net : Nat,
                              balance : Int, payable : Nat, app : Apps \cup {1}]]

PayoutIdle ==
    /\ recent = 0 /\ fastOut = 0 /\ reopened = FALSE /\ day = 0
    /\ apps = [i \in Apps |-> NoApp]
    /\ sent = [i \in Apps |-> 0] /\ back = [i \in Apps |-> 0]
    /\ plan = [h \in Handlers |-> NoPlan]
    /\ matured = savings

PayoutInit == HandlersInit /\ savings \in PayoutOpenings /\ PayoutIdle

-----------------------------------------------------------------------------
(* Rules *)

Smaller(m, n) == IF m < n THEN m ELSE n
Larger(m, n)  == IF m > n THEN m ELSE n

\* computeCastPayout
FastFee(n) == Smaller((n * FeePermille) \div 1000 + BaseFee, MaxFee)

Payable(balance, month) == Larger(balance - month, 0)

OpenApps == {i \in Apps : apps[i].status \in Open}
Unused == {i \in Apps : apps[i].status = "none"}

Plan(h, p) == plan' = [plan EXCEPT ![h] = p]

PayoutDone(h) == End(h) /\ Plan(h, NoPlan)

-----------------------------------------------------------------------------
(* The world around *)

\* An order, a gift or a reward is credited to the cast.
Earn(h) ==
    /\ Begin(h, "idle")
    /\ savings' = savings + Earning
    /\ recent' = recent + Earning
    /\ UNCHANGED <<matured, apps, sent, back, fastOut, day, plan, reopened>>

HalfMonthPasses ==
    /\ day < MaxDay
    /\ day' = day + 1
    /\ IF day' % 2 = 0
       THEN matured' = matured + recent /\ recent' = 0
       ELSE UNCHANGED <<matured, recent>>
    /\ UNCHANGED <<handlerVars, savings, apps, sent, back, fastOut, plan, reopened>>

-----------------------------------------------------------------------------
(* The cast applies *)

\* Ordinary, in full (0) or for a net amount.
RequestPayout(h) ==
    /\ Begin(h, "look")
    /\ \E n \in Nets \cup {0} : Plan(h, Planned("apply", n, 0, 0, 1))
    /\ UNCHANGED <<payoutRows, day>>

HoldPayout(h) ==
    /\ Begin(h, "readBalance")
    /\ Plan(h, Planned("hold", 0, 0, 0, 1))
    /\ UNCHANGED <<payoutRows, day>>

RequestFastPayout(h) ==
    /\ Begin(h, "readBalance")
    /\ Plan(h, Planned("fast", 0, 0, 0, 1))
    /\ UNCHANGED <<payoutRows, day>>

\* Mutant of FindExisting: only pending applications are looked for.
FindExistingPending(h) ==
    /\ at[h] \in {"look", "holdLook"}
    /\ IF \E i \in Apps : apps[i].status = "pending"
       THEN PayoutDone(h)
       ELSE Continue(h, IF at[h] = "look" THEN "readBalance" ELSE "book") /\ UNCHANGED plan
    /\ UNCHANGED <<payoutRows, day>>

\* An application looks for an open one first, a hold after reading the balance.
FindExisting(h) ==
    /\ at[h] \in {"look", "holdLook"}
    /\ IF OpenApps # {}
       THEN PayoutDone(h)
       ELSE Continue(h, IF at[h] = "look" THEN "readBalance" ELSE "book") /\ UNCHANGED plan
    /\ UNCHANGED <<payoutRows, day>>

ReadBalance(h) ==
    /\ at[h] = "readBalance"
    /\ Plan(h, Planned(plan[h].kind, plan[h].net, savings, 0, 1))
    /\ Continue(h, "readMonth")
    /\ UNCHANGED <<payoutRows, day>>

\* What is deducted, what is transferred of it, and whether the rules allow it.
Deduction(p, payable) ==
    IF p.kind = "fast" THEN p.balance
    ELSE IF p.net > 0 THEN p.net + BaseFee ELSE payable
NetOf(p, payable) ==
    IF p.kind = "fast" THEN p.balance - FastFee(p.balance)
    ELSE IF p.kind = "hold" THEN payable
    ELSE IF p.net > 0 THEN p.net ELSE Larger(payable - BaseFee, 0)
Allowed(p, payable) ==
    /\ Deduction(p, payable) > 0
    /\ p.kind # "hold" => NetOf(p, payable) >= MinNet
    /\ p.kind # "fast" => Deduction(p, payable) <= payable

\* payableBalanceFor's aggregate, and the checks that follow it.
ReadMonth(h) ==
    /\ at[h] = "readMonth"
    /\ LET payable == Payable(plan[h].balance, recent)
       IN  IF Allowed(plan[h], payable)
           THEN /\ Plan(h, Planned(plan[h].kind, plan[h].net, plan[h].balance, payable, 1))
                /\ Continue(h, IF plan[h].kind = "hold" THEN "holdLook" ELSE "book")
           ELSE PayoutDone(h)
    /\ UNCHANGED <<payoutRows, day>>

\* The transaction: the ledger row with the new balance, and the request.
BookApplication(h) ==
    /\ at[h] = "book" /\ plan[h].kind # "fast"
    /\ LET p == plan[h]
           i == CHOOSE j \in Unused : \A k \in Unused : j <= k
       IN  /\ savings' = savings - Deduction(p, p.payable)
           /\ apps' = [apps EXCEPT ![i] =
                  App(IF p.kind = "hold" THEN "on_hold" ELSE "pending",
                      Deduction(p, p.payable))]
    /\ PayoutDone(h)
    /\ UNCHANGED <<recent, matured, sent, back, fastOut, day, reopened>>

BookFastPayout(h) ==
    /\ at[h] = "book" /\ plan[h].kind = "fast"
    /\ savings' = savings - plan[h].balance
    /\ fastOut' = fastOut + plan[h].balance
    /\ PayoutDone(h)
    /\ UNCHANGED <<recent, matured, apps, sent, back, day, reopened>>

-----------------------------------------------------------------------------
(* The operator *)

\* One conditional UPDATE, otherwise an error; the transfer's date is set anew.
ReleaseHold(h) ==
    /\ Begin(h, "idle")
    /\ \E i \in Apps :
          /\ apps[i].status = "on_hold"
          /\ apps' = [apps EXCEPT ![i] = App("pending", apps[i].credit)]
    /\ UNCHANGED <<savings, recent, matured, sent, back, fastOut, day, plan, reopened>>

\* The operator's PATCH puts any application on hold, whatever its status is.
PutOnHold(h) ==
    /\ Begin(h, "idle")
    /\ \E i \in Apps \ Unused :
          /\ apps' = [apps EXCEPT ![i] = App("on_hold", apps[i].credit)]
          /\ reopened' = (reopened \/ i \notin OpenApps)
    /\ UNCHANGED <<savings, recent, matured, sent, back, fastOut, day, plan>>

\* Mutant of ProcessRead: a cancelled application can be transferred.
ProcessReadCancelled(h) ==
    \E i \in Apps :
        /\ apps[i].status \notin {"none", "processed"}
        /\ Begin(h, "process")
        /\ Plan(h, Planned("none", 0, 0, 0, i))
        /\ UNCHANGED <<payoutRows, day>>

\* processPayoutRequest and cancelPayoutRequest read the status, ...
ProcessRead(h) ==
    \E i \in OpenApps :
        /\ Begin(h, "process")
        /\ Plan(h, Planned("none", 0, 0, 0, i))
        /\ UNCHANGED <<payoutRows, day>>

CancelRead(h) ==
    \E i \in OpenApps :
        /\ Begin(h, "cancel")
        /\ Plan(h, Planned("none", 0, 0, 0, i))
        /\ UNCHANGED <<payoutRows, day>>

\* ... and write it in a transaction that does not look again.
ProcessPayoutRequest(h) ==
    /\ at[h] = "process"
    /\ LET i == plan[h].app
       IN  /\ sent' = [sent EXCEPT ![i] = @ + 1]
           /\ apps' = [apps EXCEPT ![i] = App("processed", apps[i].credit)]
    /\ PayoutDone(h)
    /\ UNCHANGED <<savings, recent, matured, back, fastOut, day, reopened>>

\* Mutant of CancelPayoutRequest: the reversing entry counts as earned now.
CancelPayoutRequestEarns(h) ==
    /\ at[h] = "cancel"
    /\ LET i == plan[h].app
       IN  /\ savings' = savings + apps[i].credit
           /\ recent' = recent + apps[i].credit
           /\ back' = [back EXCEPT ![i] = @ + 1]
           /\ apps' = [apps EXCEPT ![i] = App("cancelled", apps[i].credit)]
    /\ PayoutDone(h)
    /\ UNCHANGED <<matured, sent, fastOut, day, reopened>>

CancelPayoutRequest(h) ==
    /\ at[h] = "cancel"
    /\ LET i == plan[h].app
       IN  /\ savings' = savings + apps[i].credit
           /\ back' = [back EXCEPT ![i] = @ + 1]
           /\ apps' = [apps EXCEPT ![i] = App("cancelled", apps[i].credit)]
    /\ PayoutDone(h)
    /\ UNCHANGED <<recent, matured, sent, fastOut, day, reopened>>

PayoutDie(h) ==
    /\ Die(h)
    /\ Plan(h, NoPlan)
    /\ UNCHANGED <<payoutRows, day>>

-----------------------------------------------------------------------------
PayoutNext ==
    \/ \E h \in Handlers :
          \/ Earn(h) \/ RequestPayout(h) \/ HoldPayout(h) \/ RequestFastPayout(h)
          \/ FindExisting(h) \/ ReadBalance(h) \/ ReadMonth(h)
          \/ BookApplication(h) \/ BookFastPayout(h)
          \/ ReleaseHold(h) \/ PutOnHold(h) \/ ProcessRead(h) \/ CancelRead(h)
          \/ ProcessPayoutRequest(h) \/ CancelPayoutRequest(h) \/ PayoutDie(h)
    \/ HalfMonthPasses

PayoutSpec == PayoutInit /\ [][PayoutNext]_<<handlerVars, payoutVars>>

-----------------------------------------------------------------------------
(* Properties *)

Credits(i) == IF apps[i].status \in {"none", "cancelled"} THEN 0 ELSE apps[i].credit

Outstanding[n \in 0..MaxRequests] == IF n = 0 THEN 0 ELSE Outstanding[n - 1] + Credits(n)

\* payouts.ts:183-189, 261-265: a cast whose applications do not overlap has one
\* open application at most, whichever of the two forms it has, unless the
\* operator has put a closed one on hold.
OneOpenApplication ==
    ~overlapped /\ ~reopened =>
        \A i, j \in Apps : i \in OpenApps /\ j \in OpenApps => i = j

\* payouts.ts:308-360: unless two operators decide at the same time, the credits
\* of an application leave the company once or come back once, never both.  The
\* PATCH that puts a closed application on hold (admin route:34) ends that.
TransferredOrReturned ==
    ~overlapped /\ ~reopened =>
        \A i \in Apps :
            /\ sent[i] = IF apps[i].status = "processed" THEN 1 ELSE 0
            /\ back[i] = IF apps[i].status = "cancelled" THEN 1 ELSE 0

\* payouts.ts:74-80: what can be applied for is what was earned before this month
\* and is not applied for already; a cancelled application is available again.
\* A fast payout ignores the month, which ends the equation.
PayableIsMatured ==
    Undisturbed /\ ~reopened /\ fastOut = 0 =>
        Payable(savings, recent) = matured - Outstanding[MaxRequests]
=============================================================================
