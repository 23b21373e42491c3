------------------------------ MODULE Reminders ------------------------------
(***************************************************************************)
(* The delayed jobs of one order (server/jobs/queues.ts): the reminder     *)
(* before the selection closes, one reminder for each cast before their    *)
(* time is over, the review dialog; and the route by which an operator who *)
(* has moved an order's times has its jobs moved too                       *)
(* (internal_api/meetings/:id/reschedule_jobs).                            *)
(*                                                                         *)
(* A job's id is made of its name, the order and the cast.  The queue      *)
(* ignores a job whose id it holds already, be it waiting, running, done   *)
(* or failed: a done job is kept for a week.  The job of a dead worker is  *)
(* handed to another one once, then it has failed.  How casts enter and    *)
(* are chosen, and how an order ends, are single steps here (GroupOrder,   *)
(* Settlement).                                                            *)
(***************************************************************************)
EXTENDS RequestHandlers

CONSTANTS
    RemindedCasts,
    SelectionLead,  \* remind_time_before_selection_end
    EndLead,        \* remind_time_before_meeting_end
    OrderTimes,     \* when the selection closes, the order starts and ends
    Moves,          \* what an operator adds to these
    MaxTime         \* bound: the clock stops here

ASSUME ReminderAssumption ==
    /\ SelectionLead \in Nat \ {0} /\ EndLead \in Nat \ {0} /\ MaxTime \in Nat
    /\ OrderTimes \in [{"closes", "from", "to"} -> Nat]
    /\ Moves \subseteq [{"closes", "from", "to"} -> Int]
    /\ \A m \in Moves : \E f \in DOMAIN m : m[f] # 0
    /\ RemindedCasts \cap {"open", "selection", "review", "none"} = {}
    /\ IsFiniteSet(RemindedCasts)

VARIABLES
    time,      \* the clock
    needed,    \* casts the order needs
    timing,    \* when the selection closes, the order starts and ends
    phase,     \* meetings.status
    seat,      \* seat[c]: cast_attendances.role, or "none"
    arrivedAt, \* arrivedAt[c]: start_time, or Never
    gone,      \* casts with an end_time
    queue,     \* queue[j]: the job with id j, and when it is due
    reminded,  \* reminded[j]: how often the reminder j was sent, when last, and when it was due
    asked,     \* members whose page was asked to open the review dialog
    errand,    \* errand[h]: what handler h does and has read
    nag,       \* the guest had a choice to make when the reminder fell due
    late,      \* the reminders whose lead had begun when an operator moved the times
    torn       \* a request died, or overlapped with an operator's

jobVars ==
    <<time, needed, timing, phase, seat, arrivedAt, gone, queue, reminded, asked, errand,
      nag, late, torn>>

Never == MaxTime + 1
Jobs == {"open", "selection", "review"} \cup RemindedCasts
NoJob == [state |-> "none", at |-> 0, stalled |-> FALSE]
NoErrand == [job |-> "none", timing |-> OrderTimes, rest |-> {}, operator |-> FALSE]

RemindersIdle ==
    /\ time = 0 /\ timing = OrderTimes
    /\ phase = "new"
    /\ seat = [c \in RemindedCasts |-> "none"]
    /\ arrivedAt = [c \in RemindedCasts |-> Never] /\ gone = {}
    /\ queue = [j \in Jobs |-> NoJob]
    /\ reminded = [j \in Jobs |-> [times |-> 0, at |-> 0, due |-> 0]]
    /\ asked = {}
    /\ errand = [h \in Handlers |-> NoErrand]
    /\ nag = FALSE /\ late = {} /\ torn = FALSE

RemindersInit == HandlersInit /\ needed \in {1, 2} /\ RemindersIdle

-----------------------------------------------------------------------------
(* The queue *)

\* Never in the past; without effect if the queue holds the id.
Add(j, t) ==
    queue' = IF queue[j].state = "none"
             THEN [queue EXCEPT ![j] = [NoJob EXCEPT !.state = "delayed",
                                                     !.at = IF t < time THEN time ELSE t]]
             ELSE queue

\* A running job is locked and stays; its failure to go is not reported.
Remove(js, states) ==
    queue' = [j \in Jobs |-> IF j \in js /\ queue[j].state \in states
                             THEN NoJob ELSE queue[j]]

Due == {j \in Jobs : queue[j].state = "delayed" /\ queue[j].at <= time}

OrderSame == UNCHANGED <<needed, timing, phase, seat, arrivedAt, gone>>
ToldSame  == UNCHANGED <<reminded, asked>>
ClockSame == UNCHANGED <<time, nag, late>>

Run(h, e) == errand' = [errand EXCEPT ![h] = e]

Crossed(operator) ==
    torn' = (torn \/ (operator /\ ~AtRest) \/ \E g \in Handlers : errand[g].operator)

RequestEnds(h) == End(h) /\ Run(h, NoErrand)

JobDone(h) ==
    /\ RequestEnds(h)
    /\ queue' = [queue EXCEPT ![errand[h].job].state = "kept"]

-----------------------------------------------------------------------------
(* The order *)

\* setUpMeeting opens the selection, then adds two jobs.
SetUpReminders(h) ==
    /\ phase = "new"
    /\ Begin(h, "addOpen")
    /\ phase' = "requested"
    /\ Run(h, [NoErrand EXCEPT !.timing = timing]) /\ Crossed(FALSE)
    /\ ClockSame /\ ToldSame /\ UNCHANGED <<needed, timing, seat, arrivedAt, gone, queue>>

EnqueueOpen(h) ==
    /\ at[h] = "addOpen"
    /\ Add("open", errand[h].timing.closes)
    /\ Continue(h, "addSelection")
    /\ OrderSame /\ ClockSame /\ ToldSame /\ UNCHANGED <<errand, torn>>

EnqueueRemindSelectionEnd(h) ==
    /\ at[h] = "addSelection"
    /\ Add("selection", errand[h].timing.closes - SelectionLead)
    /\ RequestEnds(h)
    /\ OrderSame /\ ClockSame /\ ToldSame /\ UNCHANGED torn

Recruiting == phase \in {"requested", "cast_selectable"}
With(role) == {c \in RemindedCasts : seat[c] = role}
OnDuty == {c \in With("attending") : arrivedAt[c] # Never /\ c \notin gone}

\* A cast enters, between two requests.
EnterOrder ==
    /\ AtRest /\ Recruiting
    /\ \E c \in With("none") :
          /\ seat' = [seat EXCEPT ![c] = "unconfirmed"]
          /\ phase' = IF Cardinality(With("unconfirmed")) + 1 >= needed
                      THEN "cast_selectable" ELSE phase
    /\ UNCHANGED <<needed, timing, arrivedAt, gone>>

\* The casts in S come, the others do not.
Match(S) ==
    /\ seat' = [c \in RemindedCasts |-> CASE c \in S -> "attending"
                                          [] c \in With("unconfirmed") \ S -> "out"
                                          [] OTHER -> seat[c]]
    /\ phase' = "scheduled"
    /\ UNCHANGED <<needed, timing, arrivedAt, gone>>

\* The guest chooses.
ChooseCasts ==
    /\ phase = "cast_selectable"
    /\ \E S \in SUBSET With("unconfirmed") : Cardinality(S) = needed /\ Match(S)

OrderMoves ==
    /\ EnterOrder \/ ChooseCasts
    /\ ClockSame /\ ToldSame /\ UNCHANGED <<handlerVars, queue, errand, torn>>

\* A cast arrives, at most a tick early as a bound; the order is read with the attendance.
ArriveAtOrder(h) ==
    /\ Begin(h, "setStart")
    /\ \E c \in With("attending") :
          /\ phase \in {"scheduled", "in_progress"} /\ arrivedAt[c] = Never
          /\ time + 1 >= timing.from
          /\ Run(h, [NoErrand EXCEPT !.job = c, !.timing = timing])
    /\ Crossed(FALSE)
    /\ OrderSame /\ ClockSame /\ ToldSame /\ UNCHANGED queue

SetArrival(h) ==
    /\ at[h] = "setStart"
    /\ arrivedAt' = [arrivedAt EXCEPT ![errand[h].job] = time]
    /\ Continue(h, "addEnd")
    /\ ClockSame /\ ToldSame
    /\ UNCHANGED <<needed, timing, phase, seat, gone, queue, errand, torn>>

\* As costs_for_being_early is on, everybody's time runs from their arrival.
RemindTime(c, t) == arrivedAt[c] + (t.to - t.from) - EndLead

EnqueueRemindMeetingEnd(h) ==
    /\ at[h] = "addEnd"
    /\ Add(errand[h].job, RemindTime(errand[h].job, errand[h].timing))
    /\ Continue(h, "begin")
    /\ OrderSame /\ ClockSame /\ ToldSame /\ UNCHANGED <<errand, torn>>

\* The first arrival starts the order; no job is added here.
BeginOrder(h) ==
    /\ at[h] = "begin"
    /\ phase' = IF phase = "scheduled" THEN "in_progress" ELSE phase
    /\ RequestEnds(h)
    /\ ClockSame /\ ToldSame /\ UNCHANGED <<needed, timing, seat, arrivedAt, gone, queue, torn>>

\* A cast leaves; the last one ends the order, and the review dialog is queued.
LeaveOrder ==
    /\ phase = "in_progress"
    /\ \E c \in OnDuty :
          LET all == With("attending") = gone \cup {c}
          IN  /\ gone' = gone \cup {c}
              /\ phase' = IF all THEN "finished" ELSE phase
              /\ IF all THEN Add("review", time) ELSE UNCHANGED queue
    /\ ClockSame /\ ToldSame
    /\ UNCHANGED <<handlerVars, needed, timing, seat, arrivedAt, errand, torn>>

-----------------------------------------------------------------------------
(* The workers *)

TakeJob(h) ==
    \E j \in Due :
        /\ Deliver(h, CASE j = "open" -> "openOrder" [] j = "selection" -> "findChoice"
                        [] j = "review" -> "askReview" [] OTHER -> "findOrder")
        /\ UNCHANGED begun
        /\ queue' = [queue EXCEPT ![j].state = "running"]
        /\ Run(h, [NoErrand EXCEPT !.job = j]) /\ Crossed(FALSE)
        /\ OrderSame /\ ClockSame /\ ToldSame

\* AutoOpenMeetingWorker: as many as are needed, or nobody if they are too few.  The
\* order has no minimum; whether its end has passed by a moment or not, too few casts
\* fail it, here or in the matching (selection.ts:341).
OpenSelection(h) ==
    /\ at[h] = "openOrder"
    /\ IF Recruiting
       THEN IF Cardinality(With("unconfirmed")) < needed
            THEN phase' = "not_enough_cast_fail" /\ UNCHANGED <<needed, timing, seat, arrivedAt, gone>>
            ELSE \E S \in SUBSET With("unconfirmed") : Cardinality(S) = needed /\ Match(S)
       ELSE OrderSame
    /\ JobDone(h)
    /\ ClockSame /\ ToldSame /\ UNCHANGED torn

RealSelection == Cardinality(With("unconfirmed")) > needed - Cardinality(With("attending"))

\* RemindSelectionEndWorker: the order, ...
FindSelectable(h) ==
    /\ at[h] = "findChoice"
    /\ IF phase = "cast_selectable" /\ time < timing.closes
       THEN Continue(h, "countChoice") /\ UNCHANGED <<queue, errand>>
       ELSE JobDone(h)
    /\ OrderSame /\ ClockSame /\ ToldSame /\ UNCHANGED torn

\* ... its attendances ...
FindRealSelection(h) ==
    /\ at[h] = "countChoice"
    /\ IF RealSelection
       THEN Continue(h, "tell") /\ UNCHANGED <<queue, errand>>
       ELSE JobDone(h)
    /\ OrderSame /\ ClockSame /\ ToldSame /\ UNCHANGED torn

\* RemindMeetingEndWorker: the order, ...
FindOrder(h) ==
    /\ at[h] = "findOrder"
    /\ IF phase \in {"scheduled", "in_progress"}
       THEN Continue(h, "findSeat") /\ UNCHANGED <<queue, errand>>
       ELSE JobDone(h)
    /\ OrderSame /\ ClockSame /\ ToldSame /\ UNCHANGED torn

\* ... the attendance of the cast it is about ...
FindSeat(h) ==
    /\ at[h] = "findSeat"
    /\ IF errand[h].job \in With("attending") \ gone
       THEN Continue(h, "tell") /\ UNCHANGED <<queue, errand>>
       ELSE JobDone(h)
    /\ OrderSame /\ ClockSame /\ ToldSame /\ UNCHANGED torn

\* ... and the message; then the queue learns that the job is done.
SendReminder(h) ==
    /\ at[h] = "tell"
    /\ LET j == errand[h].job
       IN  reminded' = [reminded EXCEPT ![j] =
               [times |-> @.times + 1, at |-> time,
                due   |-> IF j = "selection" THEN timing.closes - SelectionLead
                          ELSE RemindTime(j, timing)]]
    /\ Continue(h, "sent")
    /\ OrderSame /\ ClockSame /\ UNCHANGED <<queue, errand, asked, torn>>

FinishReminder(h) ==
    /\ at[h] = "sent"
    /\ JobDone(h)
    /\ OrderSame /\ ClockSame /\ ToldSame /\ UNCHANGED torn

\* OpenReviewModalWorker: the guest and the casts that are not out.
AskForReview(h) ==
    /\ at[h] = "askReview"
    /\ asked' = IF phase = "finished"
                THEN asked \cup {"guest"} \cup {c \in RemindedCasts : seat[c] \notin {"none", "out"}}
                ELSE asked
    /\ JobDone(h)
    /\ OrderSame /\ ClockSame /\ UNCHANGED <<reminded, torn>>

-----------------------------------------------------------------------------
(* Moving the jobs *)

\* An operator writes new times, then calls the route; once, as a bound.
MoveTimes(h) ==
    /\ timing = OrderTimes
    /\ phase \notin {"new", "finished", "not_enough_cast_fail"}
    /\ Begin(h, "readTimes")
    /\ \E m \in Moves :
          /\ timing' = [f \in DOMAIN timing |-> timing[f] + m[f]]
          /\ nag' = (nag /\ m.closes = 0)
    /\ late' = late
          \cup {j \in {"selection"} : Recruiting /\ timing'.closes <= time + SelectionLead}
          \cup {j \in {"end"} : phase = "in_progress" /\ timing'.to <= time + EndLead}
    /\ Run(h, [NoErrand EXCEPT !.operator = TRUE]) /\ Crossed(TRUE)
    /\ ToldSame /\ UNCHANGED <<time, needed, phase, seat, arrivedAt, gone, queue>>

ReadTimes(h) ==
    /\ at[h] = "readTimes"
    /\ CASE Recruiting -> Continue(h, "dropOpen")
         [] phase = "in_progress" -> Continue(h, "dropEnds")
         [] OTHER -> End(h)
    /\ Run(h, IF at'[h] = "idle" THEN NoErrand ELSE [errand[h] EXCEPT !.timing = timing])
    /\ OrderSame /\ ClockSame /\ ToldSame /\ UNCHANGED <<queue, torn>>

\* removeMeetingJobs looks these up by id, whatever their state.
RemoveSelectionJobs(h) ==
    /\ at[h] = "dropOpen"
    /\ Remove({"open", "selection"}, {"delayed", "kept", "failed"})
    /\ Continue(h, "addOpenAgain")
    /\ OrderSame /\ ClockSame /\ ToldSame /\ UNCHANGED <<errand, torn>>

AddOpenAgain(h) ==
    /\ at[h] = "addOpenAgain"
    /\ Add("open", errand[h].timing.closes)
    /\ Continue(h, "addSelectionAgain")
    /\ OrderSame /\ ClockSame /\ ToldSame /\ UNCHANGED <<errand, torn>>

\* Mutant of AddSelectionAgain: the reminder comes when the selection closes.
AddSelectionAgainLate(h) ==
    /\ at[h] = "addSelectionAgain"
    /\ IF errand[h].timing.closes - SelectionLead > time
       THEN Add("selection", errand[h].timing.closes)
       ELSE UNCHANGED queue
    /\ RequestEnds(h)
    /\ OrderSame /\ ClockSame /\ ToldSame /\ UNCHANGED torn

\* The reminder only if its time is still to come.
AddSelectionAgain(h) ==
    /\ at[h] = "addSelectionAgain"
    /\ IF errand[h].timing.closes - SelectionLead > time
       THEN Add("selection", errand[h].timing.closes - SelectionLead)
       ELSE UNCHANGED queue
    /\ RequestEnds(h)
    /\ OrderSame /\ ClockSame /\ ToldSame /\ UNCHANGED torn

\* The ids of the end's reminders carry the cast: only waiting ones are found.
RemoveEndJobs(h) ==
    /\ at[h] = "dropEnds"
    /\ Remove(RemindedCasts, {"delayed"})
    /\ Continue(h, "findArrived")
    /\ OrderSame /\ ClockSame /\ ToldSame /\ UNCHANGED <<errand, torn>>

\* They come back only while the order's planned end is further off than the lead.
FindArrived(h) ==
    /\ at[h] = "findArrived"
    /\ LET arrived == {c \in RemindedCasts : seat[c] # "out" /\ arrivedAt[c] # Never}
       IN  IF errand[h].timing.to > time + EndLead /\ arrived # {}
           THEN Continue(h, "addEnds") /\ Run(h, [errand[h] EXCEPT !.rest = arrived])
           ELSE RequestEnds(h)
    /\ OrderSame /\ ClockSame /\ ToldSame /\ UNCHANGED <<queue, torn>>

AddEndsAgain(h) ==
    /\ at[h] = "addEnds"
    /\ \E c \in errand[h].rest :
          /\ Add(c, RemindTime(c, errand[h].timing))
          /\ IF errand[h].rest = {c}
             THEN RequestEnds(h)
             ELSE Continue(h, "addEnds") /\ Run(h, [errand[h] EXCEPT !.rest = @ \ {c}])
    /\ OrderSame /\ ClockSame /\ ToldSame /\ UNCHANGED torn

-----------------------------------------------------------------------------
(* The clock and faults *)

\* Requests are short, and a job that is due is taken before the next tick.
Tick ==
    /\ AtRest /\ Due = {} /\ time < MaxTime
    /\ time' = time + 1
    /\ nag' = IF time' = timing.closes - SelectionLead
              THEN phase = "cast_selectable" /\ RealSelection ELSE nag
    /\ OrderSame /\ ToldSame /\ UNCHANGED <<handlerVars, queue, errand, late, torn>>

Working(h) ==
    at[h] \in {"openOrder", "findChoice", "countChoice", "findOrder", "findSeat", "tell", "sent",
               "askReview"}

\* The queue hands the job of a dead worker to another one, once; a request is gone.
Stalled(q) == [q EXCEPT !.state = IF q.stalled THEN "failed" ELSE "delayed", !.stalled = TRUE]

ReminderDie(h) ==
    /\ Die(h)
    /\ queue' = IF Working(h)
                THEN [queue EXCEPT ![errand[h].job] = Stalled(queue[errand[h].job])] ELSE queue
    /\ torn' = (torn \/ ~Working(h))
    /\ Run(h, NoErrand)
    /\ OrderSame /\ ClockSame /\ ToldSame

-----------------------------------------------------------------------------
\* Nothing is claimed once a request is torn; the behaviour ends there.
RemindersNext ==
    /\ ~torn
    /\ \/ OrderMoves \/ LeaveOrder \/ Tick
       \/ \E h \in Handlers :
           \/ SetUpReminders(h) \/ EnqueueOpen(h) \/ EnqueueRemindSelectionEnd(h)
           \/ ArriveAtOrder(h) \/ SetArrival(h) \/ EnqueueRemindMeetingEnd(h) \/ BeginOrder(h)
           \/ TakeJob(h) \/ OpenSelection(h) \/ FindSelectable(h) \/ FindRealSelection(h)
           \/ FindOrder(h) \/ FindSeat(h) \/ SendReminder(h) \/ FinishReminder(h)
           \/ AskForReview(h)
           \/ MoveTimes(h) \/ ReadTimes(h) \/ RemoveSelectionJobs(h) \/ AddOpenAgain(h)
           \/ AddSelectionAgain(h) \/ RemoveEndJobs(h) \/ FindArrived(h) \/ AddEndsAgain(h)
           \/ ReminderDie(h)

RemindersSpec == RemindersInit /\ [][RemindersNext]_<<handlerVars, jobVars>>

-----------------------------------------------------------------------------
(* Properties *)

\* lifecycle.ts:71-72, queues.ts:13-16: whatever interleaves, and also when a
\* worker dies, a cast on duty has been reminded by their own end less the lead,
\* once and once more for every death, and when it was due or on arrival; the times
\* may have been moved before, not within the lead, and a reminder sent before that
\* stands.  The guest who has a real choice to make is reminded, the selection does
\* not outlast its end, and everybody is asked for a review: unless two workers
\* have died of the job.
RemindedInTime ==
    AtRest /\ Due = {} /\ ~torn =>
        /\ \A c \in OnDuty :
              /\ "end" \notin late /\ RemindTime(c, timing) <= time
                 => reminded[c].times > 0 \/ queue[c].state = "failed"
              /\ reminded[c].times <= 1 + faults
              /\ reminded[c].times > 0 =>
                    /\ reminded[c].at >= reminded[c].due
                    /\ timing = OrderTimes =>
                          reminded[c].at = IF reminded[c].due < arrivedAt[c]
                                           THEN arrivedAt[c] ELSE reminded[c].due
        /\ phase = "cast_selectable" /\ nag /\ "selection" \notin late
           => reminded["selection"].times > 0 \/ queue["selection"].state = "failed"
        /\ Recruiting => time < timing.closes \/ queue["open"].state = "failed"
        /\ phase = "finished" =>
              asked = {"guest"} \cup With("attending") \/ queue["review"].state = "failed"
=============================================================================
