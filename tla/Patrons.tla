-------------------------------- MODULE Patrons --------------------------------
(***************************************************************************)
(* A patron's share of what their apprentices earn, and how it lapses      *)
(* (rewardPatron in server/services/rewards.ts, reapInactivePatronsWorker  *)
(* in server/jobs/handlers.ts, which runs at 08:30 every day).  Days are   *)
(* numbered from 1 through months of uneven length; one patron, other      *)
(* guests unnamed, the casts nobody else's.  A ledger row of the patron is *)
(* use of the service: an order of theirs, or a share they are paid.       *)
(***************************************************************************)
EXTENDS RequestHandlers, Sequences

CONSTANTS
    Apprentices,   \* casts
    MonthLengths,  \* the days of the months
    FirstDays,     \* days on which the patron can have used the service last
    MaxUses        \* bound: transactions of the patron

ASSUME PatronAssumption ==
    MonthLengths \in Seq(Nat \ {0}) /\ FirstDays \subseteq Nat \ {0} /\ MaxUses \in Nat

VARIABLES
    dayNo,     \* today
    reaped,    \* the job of this day has been started
    lastUse,   \* the date of the patron's last ledger row
    uses,      \* ledger rows of the patron after the first day
    bond,      \* bond[c]: "none", "met", "lapsed": first_privately_met_user_id and _at
    warning,   \* warning[n]: the days since the last use on which warning n was sent
    lapsedOn,  \* the day of the last lapse, and the last use then; 0: none
    scan,      \* scan[h]: the dates handler h compares with, and the row it has read
    overtaken  \* the patron used the service between the scan and the lapse

patronVars == <<dayNo, reaped, lastUse, uses, bond, warning, lapsedOn, scan, overtaken>>

NoScan == [one |-> 0, two |-> 0, last |-> 0]

PatronsIdle ==
    /\ dayNo = lastUse /\ reaped = TRUE
    /\ uses = 0
    /\ bond = [c \in Apprentices |-> "none"]
    /\ warning = [n \in {1, 2} |-> {}]
    /\ lapsedOn = [day |-> 0, last |-> 0]
    /\ scan = [h \in Handlers |-> NoScan]
    /\ overtaken = FALSE

PatronsInit == HandlersInit /\ lastUse \in FirstDays /\ PatronsIdle

-----------------------------------------------------------------------------
(* The calendar *)

Months == DOMAIN MonthLengths

\* EndOf[m]: the last day of month m.
EndOf[m \in {0} \cup Months] == IF m = 0 THEN 0 ELSE EndOf[m - 1] + MonthLengths[m]

LastDay == EndOf[Len(MonthLengths)]
ASSUME CalendarAssumption == FirstDays \subseteq 1..LastDay

MonthOf(d) == CHOOSE m \in Months : EndOf[m - 1] < d /\ d <= EndOf[m]

\* The same day n months before, or the last one if the month is shorter.
MonthsAgo(n, d) ==
    LET m   == MonthOf(d) - n
        day == d - EndOf[MonthOf(d) - 1]
    IN  IF m \notin Months THEN 0
        ELSE EndOf[m - 1] + IF day > MonthLengths[m] THEN MonthLengths[m] ELSE day

-----------------------------------------------------------------------------
(* Orders and shares *)

Scanning(h, s) == scan' = [scan EXCEPT ![h] = s]

LedgerSame == UNCHANGED <<lastUse, uses, warning, overtaken>>

\* A ledger row of the patron.
Use ==
    /\ uses < MaxUses
    /\ uses' = uses + 1
    /\ lastUse' = dayNo
    /\ warning' = [n \in {1, 2} |-> {}]
    /\ overtaken' = (overtaken \/ \E h \in Handlers : scan[h] # NoScan)

\* first_privately_met_user_id is empty; it stays when the bond lapses.
Establishes(c) == bond[c] = "none"

\* rewardPatron after an order of the patron: of the casts that are new one
\* becomes the apprentice, and a share is paid only if none is.
OwnOrder ==
    /\ Use
    /\ \E S \in SUBSET Apprentices \ {{}} :
          LET new == {c \in S : Establishes(c)}
          IN  IF new = {} THEN UNCHANGED bond
              ELSE \E c \in new : bond' = [bond EXCEPT ![c] = "met"]

\* After another guest's order with an apprentice: the share, a ledger row.
Share(c) == bond[c] = "met"

OthersOrder == (\E c \in Apprentices : Share(c)) /\ Use /\ UNCHANGED bond

Order ==
    /\ OwnOrder \/ OthersOrder
    /\ UNCHANGED <<handlerVars, dayNo, reaped, lapsedOn, scan>>

-----------------------------------------------------------------------------
(* The job *)

\* The patrons with apprentices whose last use is a month ago or more.
ReapInactivePatrons(h) ==
    /\ ~reaped /\ reaped' = TRUE
    /\ Deliver(h, IF "met" \in {bond[c] : c \in Apprentices} /\ lastUse <= MonthsAgo(1, dayNo)
                  THEN "row" ELSE "idle")
    /\ UNCHANGED begun
    /\ Scanning(h, IF at'[h] = "row"
                   THEN [one |-> MonthsAgo(1, dayNo), two |-> MonthsAgo(2, dayNo), last |-> lastUse]
                   ELSE NoScan)
    /\ LedgerSame /\ UNCHANGED <<dayNo, bond, lapsedOn>>

ScanDone(h) == End(h) /\ Scanning(h, NoScan)

Warn(h, n, then) ==
    /\ at[h] = "row" /\ scan[h].last = then
    /\ warning' = [warning EXCEPT ![n] = @ \cup {dayNo}]
    /\ ScanDone(h)
    /\ UNCHANGED <<dayNo, reaped, lastUse, uses, bond, lapsedOn, overtaken>>

WarnAfterOneMonth(h) == Warn(h, 1, scan[h].one)
WarnAfterTwoMonths(h) == scan[h].last # scan[h].one /\ Warn(h, 2, scan[h].two)

Lapses(s) == s.last < s.two

\* first_privately_met_at is cleared for all apprentices, then the patron is told.
EndBonds(h) ==
    /\ at[h] = "row" /\ Lapses(scan[h])
    /\ bond' = [c \in Apprentices |-> IF bond[c] = "met" THEN "lapsed" ELSE bond[c]]
    /\ lapsedOn' = [day |-> dayNo, last |-> lastUse]
    /\ Continue(h, "tellLapse")
    /\ LedgerSame /\ UNCHANGED <<dayNo, reaped, scan>>

TellLapse(h) ==
    /\ at[h] = "tellLapse"
    /\ ScanDone(h)
    /\ LedgerSame /\ UNCHANGED <<dayNo, reaped, bond, lapsedOn>>

\* Between the two dates nothing is done.
NoWarningDue(h) ==
    /\ at[h] = "row"
    /\ ~Lapses(scan[h]) /\ scan[h].last \notin {scan[h].one, scan[h].two}
    /\ ScanDone(h)
    /\ LedgerSame /\ UNCHANGED <<dayNo, reaped, bond, lapsedOn>>

NextDay ==
    /\ AtRest /\ reaped /\ dayNo < LastDay
    /\ dayNo' = dayNo + 1 /\ reaped' = FALSE
    /\ LedgerSame /\ UNCHANGED <<handlerVars, bond, lapsedOn, scan>>

\* The queue tries this job once: the rest of the day's rows is left out.
PatronDie(h) ==
    /\ Die(h) /\ Scanning(h, NoScan)
    /\ LedgerSame /\ UNCHANGED <<dayNo, reaped, bond, lapsedOn>>

-----------------------------------------------------------------------------
PatronsNext ==
    \/ Order \/ NextDay
    \/ \E h \in Handlers :
        \/ ReapInactivePatrons(h) \/ WarnAfterOneMonth(h) \/ WarnAfterTwoMonths(h)
        \/ EndBonds(h) \/ TellLapse(h) \/ NoWarningDue(h) \/ PatronDie(h)

PatronsSpec == PatronsInit /\ [][PatronsNext]_<<handlerVars, patronVars>>

-----------------------------------------------------------------------------
(* Properties *)

\* The n-th month after that of day d has the day.
HasDay(d, n) ==
    LET m == MonthOf(d) + n IN m \in Months /\ d - EndOf[MonthOf(d) - 1] <= MonthLengths[m]

\* The day after the second month is over, counted forward from a use on day d: the
\* next day's, two months on, or the first day of the month after where that month
\* lacks it; 0 beyond the calendar.
LapseDay(d) ==
    LET m == MonthOf(d)
    IN  IF m + 2 \notin Months THEN 0
        ELSE IF d < EndOf[m] /\ HasDay(d + 1, 2) THEN EndOf[m + 1] + d + 1 - EndOf[m - 1]
        ELSE EndOf[m + 2] + 1

\* handlers.ts:594-596: bonds last while the patron uses the service and lapse
\* when two months are over; after one month and on the day before the lapse the
\* patron is warned, except when that month lacks the day.  A job that dies, or a
\* use between its scan and the lapse, can break it.
WarnedBeforeLapse ==
    faults = 0 /\ ~overtaken =>
        /\ "met" \in {bond[c] : c \in Apprentices} /\ reaped /\ AtRest
              => dayNo < LapseDay(lastUse) \/ LapseDay(lastUse) = 0
        /\ lapsedOn.day > 0 => lapsedOn.day = LapseDay(lapsedOn.last)
        /\ lapsedOn.day > 0 /\ lastUse = lapsedOn.last =>
              /\ HasDay(lastUse, 1) => warning[1] # {}
              /\ HasDay(lastUse, 2) => lapsedOn.day - 1 \in warning[2]
=============================================================================
