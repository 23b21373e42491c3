--------------------------- MODULE OperationsProofs ---------------------------
(***************************************************************************)
(* Proofs about the desks of Members at which the worker does most of the  *)
(* work: the delayed jobs of an order, what members are told and how it    *)
(* reaches them, the daily job that ends the bonds of inactive patrons.    *)
(* For each the inductive invariant of its rows, handlers and jobs, and at *)
(* the end the theorems that Members keeps what these desks promise.       *)
(***************************************************************************)
EXTENDS Members, RequestHandlersProofs
-----------------------------------------------------------------------------
(* Reminders *)

RemLabels ==
    {"idle", "addOpen", "addSelection", "setStart", "addEnd", "begin", "openOrder", "findChoice",
     "countChoice", "findOrder", "findSeat", "tell", "sent", "askReview", "readTimes", "dropOpen",
     "addOpenAgain", "addSelectionAgain", "dropEnds", "findArrived", "addEnds"}
OperatorLabels ==
    {"readTimes", "dropOpen", "addOpenAgain", "addSelectionAgain", "dropEnds", "findArrived",
     "addEnds"}
ArriveLabels == {"setStart", "addEnd", "begin"}
\* Up to here an order is new, or an operator has not read the times that they wrote.
NoSelectionYet == {"addOpen", "addSelection", "readTimes", "dropOpen", "addOpenAgain", "addSelectionAgain"}
NoOpenYet == {"addOpen", "readTimes", "dropOpen", "addOpenAgain"}

OrderPhases ==
    {"new", "requested", "cast_selectable", "scheduled", "in_progress", "finished",
     "not_enough_cast_fail"}
Timings == [{"closes", "from", "to"} -> Int]
QueueEntry == [state : {"none", "delayed", "running", "kept", "failed"}, at : Int, stalled : BOOLEAN]
Telling == [times : Nat, at : Int, due : Int]
Errands == [job : Jobs \cup {"none"}, timing : Timings, rest : SUBSET RemindedCasts, operator : BOOLEAN]

RemTyped ==
    /\ at \in [Handlers -> RemLabels] /\ faults \in Nat
    /\ time \in 0..MaxTime /\ timing \in Timings /\ phase \in OrderPhases
    /\ needed \in Nat
    /\ seat \in [RemindedCasts -> {"none", "unconfirmed", "attending", "out"}]
    /\ arrivedAt \in [RemindedCasts -> 0..Never]
    /\ gone \subseteq RemindedCasts
    /\ queue \in [Jobs -> QueueEntry]
    /\ reminded \in [Jobs -> Telling]
    /\ errand \in [Handlers -> Errands]

\* What a worker at l works on.
WorksOn(l, j) ==
    /\ l = "openOrder" => j = "open"
    /\ l \in {"findChoice", "countChoice"} => j = "selection"
    /\ l \in {"findOrder", "findSeat"} => j \in RemindedCasts
    /\ l \in {"tell", "sent"} => j \in RemindedCasts \cup {"selection"}
    /\ l = "askReview" => j = "review"

\* One worker has a running job, and no clock ticks while it is due.
WorkersHold ==
    /\ \A h \in Handlers : Working(h) =>
          /\ errand[h].job \in Jobs /\ WorksOn(at[h], errand[h].job)
          /\ queue[errand[h].job].state = "running"
          /\ at[h] = "sent" => reminded[errand[h].job].times > 0
    /\ \A g, h \in Handlers : g # h /\ Working(g) /\ Working(h) => errand[g].job # errand[h].job
    /\ \A j \in Jobs : queue[j].state = "running" => \E h \in Handlers : Working(h) /\ errand[h].job = j
    /\ \A j \in Jobs : /\ queue[j].state = "delayed" => queue[j].at >= time
                       /\ queue[j].state = "running" => queue[j].at = time

\* An operator who moves the jobs is alone, and has moved the times.
OperatorAlone ==
    \A h \in Handlers :
        /\ errand[h].operator => at[h] \in OperatorLabels
        /\ at[h] \in OperatorLabels =>
              /\ errand[h].operator /\ timing # OrderTimes
              /\ \A g \in Handlers : g # h => at[g] = "idle"

\* What a request has read is so.
RequestsKnow ==
    \A h \in Handlers :
        /\ at[h] \in ArriveLabels \cup (OperatorLabels \ {"readTimes"}) \cup {"addOpen", "addSelection"}
           => errand[h].timing = timing
        /\ at[h] \in ArriveLabels =>
              /\ errand[h].job \in RemindedCasts /\ seat[errand[h].job] = "attending"
              /\ arrivedAt[errand[h].job] \in {Never, time}
              /\ at[h] # "setStart" => arrivedAt[errand[h].job] = time
        /\ at[h] \in {"addOpen", "addOpenAgain"} => queue["open"].state = "none"
        /\ at[h] \in {"addOpen", "addSelection", "addOpenAgain", "addSelectionAgain"}
           => queue["selection"].state = "none"
        /\ at[h] \in {"addOpen", "addSelection"} =>
              \A g \in Handlers : g # h => at[g] \notin {"addOpen", "addSelection"}
        /\ at[h] = "addEnds" => \A c \in errand[h].rest : arrivedAt[c] # Never

SeatsFollow ==
    /\ phase = "new" => /\ \A h \in Handlers : at[h] = "idle"
                        /\ \A j \in Jobs : queue[j].state = "none"
    /\ \A c \in RemindedCasts :
          /\ arrivedAt[c] # Never => seat[c] = "attending"
          /\ seat[c] = "attending" => phase \in {"scheduled", "in_progress", "finished"}
          /\ seat[c] = "unconfirmed" => phase \notin {"scheduled", "in_progress", "finished"}
          /\ c \in gone => seat[c] = "attending"
          /\ phase = "finished" /\ seat[c] = "attending" => c \in gone
          /\ phase = "scheduled" /\ arrivedAt[c] # Never => \E h \in Handlers : at[h] \in {"addEnd", "begin"}

MaxOfTwo(a, b) == IF a < b THEN b ELSE a

\* A job that is due at t at a time d: then, unless it came too late or on arrival.
OnTime(t, d, a) ==
    /\ t >= d /\ (t = d \/ t <= time)
    /\ timing = OrderTimes => t = MaxOfTwo(d, a)

Unread == \E h \in Handlers : at[h] \in {"readTimes", "dropEnds"}

CastJobs ==
    \A c \in RemindedCasts :
        /\ queue[c].state # "none" \/ reminded[c].times > 0 => arrivedAt[c] # Never
        /\ queue[c].state \in {"delayed", "running"} /\ phase # "finished" /\ ~Unread
           => OnTime(queue[c].at, RemindTime(c, timing), arrivedAt[c])
        /\ (\E h \in Handlers : at[h] \in {"findSeat", "tell"} /\ errand[h].job = c)
           => OnTime(queue[c].at, RemindTime(c, timing), arrivedAt[c])
        /\ queue[c].state = "kept" => reminded[c].times > 0 \/ c \in gone \/ phase = "finished"
        /\ queue[c].state = "none" /\ arrivedAt[c] # Never =>
              \/ "end" \in late
              \/ \E h \in Handlers : \/ at[h] = "addEnd" /\ errand[h].job = c
                                     \/ at[h] = "findArrived"
                                     \/ at[h] = "addEnds" /\ c \in errand[h].rest

EndMoves ==
    \A h \in Handlers :
        at[h] \in {"dropEnds", "findArrived"} \/ (at[h] = "readTimes" /\ phase = "in_progress")
        => "end" \in late \/ timing.to > time + EndLead

\* A reminder has been sent at most once more than workers have died.
SentOnce ==
    \A c \in RemindedCasts :
        /\ reminded[c].times <= 1 + faults
        /\ queue[c].state \in {"none", "delayed"} => reminded[c].times <= faults
        /\ \A h \in Handlers : Working(h) /\ errand[h].job = c /\ at[h] # "sent"
                               => reminded[c].times <= faults
        /\ reminded[c].times > 0 =>
              /\ reminded[c].at >= reminded[c].due
              /\ timing = OrderTimes => reminded[c].at = MaxOfTwo(reminded[c].due, arrivedAt[c])

SelectionAwaits ==
    Recruiting /\ time < timing.closes - SelectionLead
    /\ (\A h \in Handlers : at[h] \notin NoSelectionYet)
    => queue["selection"].state = "delayed" /\ queue["selection"].at = timing.closes - SelectionLead
NagKnown == nag => phase \notin {"new", "requested"} /\ time >= timing.closes - SelectionLead
ChoiceReminded ==
    nag /\ phase = "cast_selectable" /\ "selection" \notin late =>
        /\ \A h \in Handlers : at[h] \notin OperatorLabels
        /\ \/ reminded["selection"].times > 0
           \/ queue["selection"].state = "failed"
           \/ /\ time = timing.closes - SelectionLead /\ RealSelection
              /\ \/ queue["selection"].state = "delayed" /\ queue["selection"].at = time
                 \/ queue["selection"].state = "running"
OpenAwaits ==
    Recruiting /\ (\A h \in Handlers : at[h] \notin NoOpenYet)
    => \/ queue["open"].state = "delayed"
          /\ (queue["open"].at <= timing.closes \/ queue["open"].at <= time)
       \/ queue["open"].state \in {"running", "failed"}
SelectionJobs == SelectionAwaits /\ NagKnown /\ ChoiceReminded /\ OpenAwaits

ReviewJobs ==
    /\ phase # "finished" => queue["review"].state = "none" /\ asked = {}
    /\ phase = "finished" =>
          \/ queue["review"].state \in {"running", "failed"}
          \/ asked = {"guest"} \cup With("attending")
          \/ queue["review"].state = "delayed" /\ queue["review"].at <= time
    /\ asked \in {{}, {"guest"} \cup With("attending")}

RemFacts ==
    /\ RemTyped /\ WorkersHold /\ OperatorAlone /\ RequestsKnow /\ SeatsFollow
    /\ CastJobs /\ EndMoves /\ SentOnce /\ SelectionJobs /\ ReviewJobs

\* A torn behaviour ends.
RemIInv == ~torn => RemFacts


LEMMA RemOpening ==
  /\ NoJob \in QueueEntry /\ NoJob.state = "none"
  /\ NoErrand \in Errands /\ NoErrand.job = "none" /\ ~NoErrand.operator
  /\ RemindedCasts \subseteq Jobs /\ {"open", "selection", "review"} \subseteq Jobs
<1>1. OrderTimes \in Timings
  BY ReminderAssumption DEF Timings
<1> QED
  BY <1>1 DEF NoJob, NoErrand, QueueEntry, Errands, Jobs

LEMMA RemInitOK ==
  ASSUME at = Idle, faults = 0, needed \in {1, 2}, RemindersIdle
  PROVE  RemIInv
<1>1. \A h \in Handlers : at[h] = "idle" /\ errand[h] = NoErrand
  BY DEF Idle, RemindersIdle
<1>2. \A j \in Jobs : queue[j] = NoJob /\ reminded[j].times = 0
  BY DEF RemindersIdle
<1>3. \A c \in RemindedCasts : seat[c] = "none" /\ arrivedAt[c] = Never
  BY DEF RemindersIdle
<1>4. gone = {} /\ phase = "new" /\ ~nag /\ asked = {} /\ time = 0
  BY DEF RemindersIdle
<1>5. RemTyped
  <2>1. at \in [Handlers -> RemLabels]
    BY DEF Idle, RemLabels
  <2>2. timing \in Timings
    BY ReminderAssumption DEF RemindersIdle, Timings
  <2>3. seat \in [RemindedCasts -> {"none", "unconfirmed", "attending", "out"}]
    BY DEF RemindersIdle
  <2>4. arrivedAt \in [RemindedCasts -> 0..Never]
    BY ReminderAssumption DEF RemindersIdle, Never
  <2>5. queue \in [Jobs -> QueueEntry]
    BY RemOpening DEF RemindersIdle
  <2>6. reminded \in [Jobs -> Telling]
    BY DEF RemindersIdle, Telling
  <2>7. errand \in [Handlers -> Errands]
    BY RemOpening DEF RemindersIdle
  <2>8. time \in 0..MaxTime /\ phase \in OrderPhases /\ needed \in Nat /\ gone \subseteq RemindedCasts
    BY <1>4, ReminderAssumption DEF OrderPhases
  <2> QED
    BY <2>1, <2>2, <2>3, <2>4, <2>5, <2>6, <2>7, <2>8 DEF RemTyped
<1>6. WorkersHold
  BY <1>1, <1>2, RemOpening DEF WorkersHold, Working
<1>7. OperatorAlone
  BY <1>1, RemOpening DEF OperatorAlone, OperatorLabels
<1>8. RequestsKnow
  BY <1>1 DEF RequestsKnow, ArriveLabels, OperatorLabels
<1>9. SeatsFollow
  BY <1>1, <1>2, <1>3, <1>4, RemOpening DEF SeatsFollow
<1>10. CastJobs
  BY <1>1, <1>2, <1>3, <1>4, RemOpening DEF CastJobs
<1>11. EndMoves
  BY <1>1 DEF EndMoves
<1>12. SentOnce
  BY <1>1, <1>2, RemOpening DEF SentOnce, RemindersIdle
<1>13. SelectionJobs
  BY <1>4 DEF SelectionJobs, SelectionAwaits, NagKnown, ChoiceReminded, OpenAwaits, Recruiting
<1>14. ReviewJobs
  BY <1>2, <1>4, RemOpening DEF ReviewJobs
<1> QED
  BY <1>5, <1>6, <1>7, <1>8, <1>9, <1>10, <1>11, <1>12, <1>13, <1>14 DEF RemIInv, RemFacts

\* At rest, when nothing is due, the jobs that were to run have run.
LEMMA RemIInvReminded ==
  ASSUME RemIInv
  PROVE  RemindedInTime
<1> SUFFICES ASSUME AtRest, Due = {}, ~torn
             PROVE  RemindedInTime
  BY DEF RemindedInTime
<1>1. /\ RemTyped /\ WorkersHold /\ SeatsFollow /\ CastJobs /\ SentOnce
      /\ SelectionJobs /\ ReviewJobs
  BY DEF RemIInv, RemFacts
<1>2. \A h \in Handlers : at[h] = "idle"
  BY DEF AtRest, Idle
<1>3. \A j \in Jobs : queue[j].state # "running" /\ (queue[j].state = "delayed" => queue[j].at > time)
  <2>1. \A j \in Jobs : queue[j].state # "running"
    BY <1>1, <1>2 DEF WorkersHold, Working
  <2>2. \A j \in Jobs : queue[j].state = "delayed" => ~(queue[j].at <= time)
    BY DEF Due
  <2>3. \A j \in Jobs : queue[j].at \in Int
    BY <1>1 DEF RemTyped, QueueEntry
  <2>4. time \in Int
    BY <1>1 DEF RemTyped
  <2> QED
    BY <2>1, <2>2, <2>3, <2>4
<1>4. timing.closes \in Int /\ time \in Int
  BY <1>1 DEF RemTyped, Timings
<1>5. ASSUME NEW c \in OnDuty
      PROVE  /\ "end" \notin late /\ RemindTime(c, timing) <= time
                => reminded[c].times > 0 \/ queue[c].state = "failed"
             /\ reminded[c].times <= 1 + faults
             /\ reminded[c].times > 0 =>
                   /\ reminded[c].at >= reminded[c].due
                   /\ timing = OrderTimes =>
                         reminded[c].at = IF reminded[c].due < arrivedAt[c]
                                          THEN arrivedAt[c] ELSE reminded[c].due
  <2>1. c \in RemindedCasts /\ seat[c] = "attending" /\ arrivedAt[c] # Never /\ c \notin gone
    BY DEF OnDuty, With
  <2>2. phase # "finished" /\ c \in Jobs
    BY <1>1, <2>1, RemOpening DEF SeatsFollow
  <2>3. ASSUME "end" \notin late, RemindTime(c, timing) <= time
        PROVE  reminded[c].times > 0 \/ queue[c].state = "failed"
    <3>1. queue[c].state # "none"
      BY <1>1, <1>2, <2>1, <2>3 DEF CastJobs
    <3>2. queue[c].state = "kept" => reminded[c].times > 0
      BY <1>1, <2>1, <2>2 DEF CastJobs
    <3>3. queue[c].state # "delayed"
      <4> SUFFICES ASSUME queue[c].state = "delayed" PROVE FALSE
        OBVIOUS
      <4>1. ~Unread
        BY <1>2 DEF Unread
      <4>2. OnTime(queue[c].at, RemindTime(c, timing), arrivedAt[c])
        BY <1>1, <2>1, <2>2, <4>1 DEF CastJobs
      <4>3. queue[c].at = RemindTime(c, timing) \/ queue[c].at <= time
        BY <4>2 DEF OnTime
      <4>4. queue[c].at > time /\ queue[c].at \in Int
        BY <1>1, <1>3, <2>2 DEF RemTyped, QueueEntry
      <4> QED
        BY <1>4, <2>3, <4>3, <4>4
    <3>4. queue[c].state \in {"none", "delayed", "running", "kept", "failed"}
      BY <1>1, <2>2 DEF RemTyped, QueueEntry
    <3> QED
      BY <1>3, <2>2, <3>1, <3>2, <3>3, <3>4
  <2> QED
    BY <1>1, <2>1, <2>3 DEF SentOnce, MaxOfTwo
<1>6. phase = "cast_selectable" /\ nag /\ "selection" \notin late
      => reminded["selection"].times > 0 \/ queue["selection"].state = "failed"
  <2>1. "selection" \in Jobs /\ queue["selection"].at \in Int
    BY <1>1, RemOpening DEF RemTyped, QueueEntry
  <2> QED
    BY <1>1, <1>3, <1>4, <2>1 DEF SelectionJobs, SelectionAwaits, NagKnown, ChoiceReminded, OpenAwaits
<1>7. Recruiting => time < timing.closes \/ queue["open"].state = "failed"
  <2>1. "open" \in Jobs /\ queue["open"].at \in Int
    BY <1>1, RemOpening DEF RemTyped, QueueEntry
  <2>2. \A h \in Handlers : at[h] \notin NoOpenYet
    BY <1>2 DEF NoOpenYet
  <2> QED
    BY <1>1, <1>3, <1>4, <2>1, <2>2 DEF SelectionJobs, SelectionAwaits, NagKnown, ChoiceReminded, OpenAwaits
<1>8. phase = "finished" =>
        asked = {"guest"} \cup With("attending") \/ queue["review"].state = "failed"
  <2>1. "review" \in Jobs /\ queue["review"].at \in Int
    BY <1>1, RemOpening DEF RemTyped, QueueEntry
  <2> QED
    BY <1>1, <1>3, <1>4, <2>1 DEF ReviewJobs
<1> QED
  BY <1>5, <1>6, <1>7, <1>8 DEF RemindedInTime

-----------------------------------------------------------------------------
(* A step of a handler *)

LEMMA RemMoves ==
  ASSUME RemTyped, NEW h \in Handlers, NEW l \in RemLabels, NEW e \in Errands,
         at' = [at EXCEPT ![h] = l], errand' = [errand EXCEPT ![h] = e]
  PROVE  /\ at' \in [Handlers -> RemLabels] /\ errand' \in [Handlers -> Errands]
         /\ at'[h] = l /\ errand'[h] = e
         /\ \A g \in Handlers : g # h => at'[g] = at[g] /\ errand'[g] = errand[g]
BY DEF RemTyped

LEMMA NoOperatorBeside ==
  ASSUME OperatorAlone, NEW h \in Handlers, at[h] # "idle", at[h] \notin OperatorLabels
  PROVE  \A g \in Handlers : at[g] \notin OperatorLabels
BY DEF OperatorAlone, OperatorLabels

\* A worker reads on.
LEMMA WorkerGoesOn ==
  ASSUME RemFacts, NEW h \in Handlers,
         NEW l \in {"countChoice", "tell", "findSeat"},
         at[h] \in {"findChoice", "countChoice", "findOrder", "findSeat"},
         Continue(h, l), UNCHANGED <<errand, queue>>, OrderSame, ToldSame, ClockSame,
         WorksOn(l, errand[h].job),
         at[h] = "findOrder" => phase # "finished"
  PROVE  RemFacts'
<1>1. /\ RemTyped /\ WorkersHold /\ OperatorAlone /\ RequestsKnow /\ SeatsFollow
      /\ CastJobs /\ EndMoves /\ SentOnce /\ SelectionJobs /\ ReviewJobs
  BY DEF RemFacts
<1>2. /\ at'[h] = l /\ \A g \in Handlers : g # h => at'[g] = at[g]
      /\ at' \in [Handlers -> RemLabels] /\ faults' = faults
  BY <1>1 DEF RemTyped, Continue, Goto, RemLabels
<1>3. /\ errand' = errand /\ queue' = queue /\ needed' = needed /\ timing' = timing /\ phase' = phase
      /\ seat' = seat /\ arrivedAt' = arrivedAt /\ gone' = gone /\ reminded' = reminded
      /\ asked' = asked /\ time' = time /\ nag' = nag /\ late' = late
  BY DEF OrderSame, ToldSame, ClockSame
<1>4. \A g \in Handlers : at[g] \notin OperatorLabels /\ at'[g] \notin OperatorLabels
  BY <1>1, <1>2, NoOperatorBeside DEF OperatorLabels
<1>5. RemTyped'
  BY <1>1, <1>2, <1>3 DEF RemTyped
<1>6. \A g \in Handlers : (Working(g) <=> Working(g)') /\ (at'[g] = "sent" => at[g] = "sent")
  BY <1>2 DEF Working
<1>7. WorkersHold'
  <2>1. \A g \in Handlers : Working(g) => errand[g].job \in Jobs /\ WorksOn(at'[g], errand[g].job)
    BY <1>1, <1>2 DEF WorkersHold
  <2> QED
    BY <1>1, <1>3, <1>6, <2>1 DEF WorkersHold
<1>8. OperatorAlone'
  BY <1>1, <1>2, <1>3, <1>4 DEF OperatorAlone
<1>9. RequestsKnow'
  BY <1>1, <1>2, <1>3, <1>4 DEF RequestsKnow, ArriveLabels
<1>10. SeatsFollow'
  BY <1>1, <1>2, <1>3 DEF SeatsFollow
<1>11. CastJobs'
  <2>1. ~Unread
    BY <1>4 DEF Unread, OperatorLabels
  <2>2. ASSUME NEW c \in RemindedCasts, l \in {"tell", "findSeat"}, errand[h].job = c
        PROVE  OnTime(queue[c].at, RemindTime(c, timing), arrivedAt[c])
    <3>1. at[h] \in {"findOrder", "findSeat"}
      BY <1>1, <2>2, ReminderAssumption DEF WorkersHold, Working, WorksOn
    <3>2. queue[c].state = "running"
      BY <1>1, <2>2, <3>1 DEF WorkersHold, Working
    <3> QED
      BY <1>1, <2>1, <2>2, <3>1, <3>2 DEF CastJobs
  <2>3. \A t, d, a : OnTime(t, d, a)' <=> OnTime(t, d, a)
    BY <1>3 DEF OnTime
  <2>4. \A c \in RemindedCasts : RemindTime(c, timing)' = RemindTime(c, timing)
    BY <1>3 DEF RemindTime
  <2>5. ~Unread'
    BY <1>4 DEF Unread, OperatorLabels
  <2> QED
    BY <1>1, <1>2, <1>3, <1>4, <2>1, <2>2, <2>3, <2>4, <2>5 DEF CastJobs
<1>12. EndMoves'
  BY <1>4 DEF EndMoves, OperatorLabels
<1>13. SentOnce'
  BY <1>1, <1>2, <1>3, <1>6 DEF SentOnce, MaxOfTwo
<1>14. SelectionJobs'
  <2>1. RealSelection' <=> RealSelection
    BY <1>3 DEF RealSelection, With
  <2>2. \A g \in Handlers : g # h => at'[g] = at[g]
    BY <1>2
  <2> QED
    BY <1>1, <1>2, <1>3, <1>4, <2>1 DEF SelectionJobs, SelectionAwaits, NagKnown, ChoiceReminded, OpenAwaits, Recruiting, NoSelectionYet, NoOpenYet
<1>15. ReviewJobs'
  BY <1>1, <1>3 DEF ReviewJobs, With
<1> QED
  BY <1>5, <1>7, <1>8, <1>9, <1>10, <1>11, <1>12, <1>13, <1>14, <1>15 DEF RemFacts

\* A worker's job is done, as it may be when what it is for has happened or is not wanted.
LEMMA JobIsDone ==
  ASSUME RemFacts, NEW h \in Handlers, Working(h), JobDone(h), OrderSame, ClockSame,
         reminded' = reminded,
         asked' = asked \/ (phase = "finished" /\ asked' = {"guest"} \cup With("attending")),
         errand[h].job \in RemindedCasts =>
            \/ reminded[errand[h].job].times > 0
            \/ errand[h].job \in gone
            \/ phase = "finished",
         errand[h].job = "selection" => reminded["selection"].times > 0 \/ phase # "cast_selectable"
                                        \/ ~RealSelection \/ time >= timing.closes,
         errand[h].job = "open" => ~Recruiting,
         errand[h].job = "review" => phase = "finished" /\ asked' = {"guest"} \cup With("attending")
  PROVE  RemFacts'
<1>1. /\ RemTyped /\ WorkersHold /\ OperatorAlone /\ RequestsKnow /\ SeatsFollow
      /\ CastJobs /\ EndMoves /\ SentOnce /\ SelectionJobs /\ ReviewJobs
  BY DEF RemFacts
<1>2. PICK j \in Jobs : j = errand[h].job /\ queue[j].state = "running"
  BY <1>1 DEF WorkersHold
<1>3. at' = [at EXCEPT ![h] = "idle"] /\ errand' = [errand EXCEPT ![h] = NoErrand]
      /\ faults' = faults /\ overlapped' = overlapped
  BY DEF JobDone, RequestEnds, End, Continue, Goto, Run
<1>4. /\ at'[h] = "idle" /\ errand'[h] = NoErrand
      /\ \A g \in Handlers : g # h => at'[g] = at[g] /\ errand'[g] = errand[g]
      /\ at' \in [Handlers -> RemLabels] /\ errand' \in [Handlers -> Errands]
  BY <1>1, <1>3, RemOpening, RemMoves DEF RemLabels
<1>5. /\ needed' = needed /\ timing' = timing /\ phase' = phase
      /\ seat' = seat /\ arrivedAt' = arrivedAt /\ gone' = gone /\ reminded' = reminded
      /\ time' = time /\ nag' = nag /\ late' = late
  BY DEF OrderSame, ClockSame
<1>6. /\ queue'[j].state = "kept" /\ queue'[j].at = queue[j].at
      /\ \A i \in Jobs : i # j => queue'[i] = queue[i]
      /\ queue' \in [Jobs -> QueueEntry]
  <2>1. queue' = [queue EXCEPT ![j] = [queue[j] EXCEPT !.state = "kept"]]
    BY <1>2 DEF JobDone
  <2>2. queue[j] \in QueueEntry
    BY <1>1 DEF RemTyped
  <2>3. [queue[j] EXCEPT !.state = "kept"] \in QueueEntry
    BY <2>2 DEF QueueEntry
  <2> QED
    BY <1>1, <2>1, <2>2, <2>3 DEF RemTyped, QueueEntry
<1>7. \A g \in Handlers : at[g] \notin OperatorLabels /\ at'[g] \notin OperatorLabels
  BY <1>1, <1>4, NoOperatorBeside DEF OperatorLabels, Working
<1>8. \A g \in Handlers : g # h => (Working(g)' <=> Working(g))
  BY <1>4 DEF Working
<1>9. ~Working(h)' /\ at[h] # "idle" /\ at[h] \notin {"addEnd", "begin", "addOpen"}
  BY <1>4 DEF Working
<1>10. RemTyped'
  BY <1>1, <1>4, <1>5, <1>3, <1>6 DEF RemTyped
<1>11. WorkersHold'
  <2>1. \A g \in Handlers : g # h /\ Working(g) => errand[g].job # j
    BY <1>1, <1>2 DEF WorkersHold
  <2>2. \A i \in Jobs : queue'[i].state = "running" => \E g \in Handlers : Working(g)' /\ errand'[g].job = i
    BY <1>1, <1>2, <1>4, <1>6, <1>8 DEF WorkersHold
  <2> QED
    BY <1>1, <1>2, <1>4, <1>5, <1>6, <1>8, <1>9, <2>1, <2>2 DEF WorkersHold
<1>12. OperatorAlone'
  BY <1>1, <1>4, <1>5, <1>7, RemOpening DEF OperatorAlone
<1>13. RequestsKnow'
  BY <1>1, <1>2, <1>4, <1>5, <1>6, <1>7, RemOpening DEF RequestsKnow, ArriveLabels
<1>14. SeatsFollow'
  BY <1>1, <1>4, <1>5, <1>6, <1>9 DEF SeatsFollow
<1>15. \A t, d, a : OnTime(t, d, a)' <=> OnTime(t, d, a)
  BY <1>5 DEF OnTime
<1>16. \A c \in RemindedCasts : RemindTime(c, timing)' = RemindTime(c, timing)
  BY <1>5 DEF RemindTime
<1>17. CastJobs'
  <2>1. ~Unread /\ ~Unread'
    BY <1>7 DEF Unread, OperatorLabels
  <2> SUFFICES ASSUME NEW c \in RemindedCasts
        PROVE  /\ queue'[c].state # "none" \/ reminded'[c].times > 0 => arrivedAt'[c] # Never
               /\ queue'[c].state \in {"delayed", "running"} /\ phase' # "finished" /\ ~Unread'
                  => OnTime(queue[c].at, RemindTime(c, timing), arrivedAt[c])'
               /\ (\E g \in Handlers : at'[g] \in {"findSeat", "tell"} /\ errand'[g].job = c)
                  => OnTime(queue[c].at, RemindTime(c, timing), arrivedAt[c])'
               /\ queue'[c].state = "kept" => reminded'[c].times > 0 \/ c \in gone' \/ phase' = "finished"
               /\ queue'[c].state = "none" /\ arrivedAt'[c] # Never =>
                     \/ "end" \in late'
                     \/ \E g \in Handlers : \/ at'[g] = "addEnd" /\ errand'[g].job = c
                                            \/ at'[g] = "findArrived"
                                            \/ at'[g] = "addEnds" /\ c \in errand'[g].rest
    BY DEF CastJobs
  <2>2. c \in Jobs
    BY RemOpening
  <2>3. queue'[c].at = queue[c].at /\ (queue'[c].state = "none" <=> queue[c].state = "none")
    BY <1>2, <1>6, <2>2
  <2>4. queue[c].state # "none" \/ reminded[c].times > 0 => arrivedAt[c] # Never
    BY <1>1 DEF CastJobs
  <2>5. queue'[c].state \in {"delayed", "running"} => queue'[c] = queue[c]
    BY <1>6, <2>2
  <2>6. queue[c].state \in {"delayed", "running"} /\ phase # "finished" /\ ~Unread
        => OnTime(queue[c].at, RemindTime(c, timing), arrivedAt[c])
    BY <1>1 DEF CastJobs
  <2>7. (\E g \in Handlers : at'[g] \in {"findSeat", "tell"} /\ errand'[g].job = c)
        => OnTime(queue[c].at, RemindTime(c, timing), arrivedAt[c])
    BY <1>1, <1>4 DEF CastJobs
  <2>8. queue'[c].state = "kept" => reminded[c].times > 0 \/ c \in gone \/ phase = "finished"
    BY <1>1, <1>2, <1>6, <2>2 DEF CastJobs
  <2>9. queue[c].state = "none" /\ arrivedAt[c] # Never =>
            \/ "end" \in late
            \/ \E g \in Handlers : \/ at'[g] = "addEnd" /\ errand'[g].job = c
                                   \/ at'[g] = "findArrived"
                                   \/ at'[g] = "addEnds" /\ c \in errand'[g].rest
    BY <1>1, <1>4, <1>7, <1>9 DEF CastJobs, OperatorLabels
  <2> QED
    BY <1>5, <1>15, <1>16, <2>1, <2>3, <2>4, <2>5, <2>6, <2>7, <2>8, <2>9
<1>18. EndMoves'
  BY <1>7 DEF EndMoves, OperatorLabels
<1>19. SentOnce'
  BY <1>1, <1>2, <1>3, <1>4, <1>5, <1>6, <1>8, <1>9, RemOpening DEF SentOnce, MaxOfTwo
<1>20. SelectionJobs'
  <2>1. RealSelection' <=> RealSelection
    BY <1>5 DEF RealSelection, With
  <2>4. "selection" \in Jobs /\ "open" \in Jobs
    BY RemOpening
  <2>5. j # "open" => queue'["open"] = queue["open"]
    BY <1>6, <2>4
  <2>6. j # "selection" => queue'["selection"] = queue["selection"]
    BY <1>6, <2>4
  <2>7. SelectionLead > 0 /\ SelectionLead \in Nat /\ time \in Int /\ timing.closes \in Int
    BY <1>1, ReminderAssumption DEF RemTyped, Timings
  <2>8. ASSUME nag, phase = "cast_selectable", "selection" \notin late
        PROVE  \/ reminded["selection"].times > 0
               \/ queue'["selection"].state = "failed"
               \/ /\ time = timing.closes - SelectionLead /\ RealSelection
                  /\ \/ queue'["selection"].state = "delayed" /\ queue'["selection"].at = time
                     \/ queue'["selection"].state = "running"
    BY <1>1, <1>2, <2>6, <2>7, <2>8 DEF SelectionJobs, SelectionAwaits, NagKnown, ChoiceReminded, OpenAwaits
  <2>9. j = "selection" => ~(Recruiting /\ time < timing.closes - SelectionLead
                             /\ \A g \in Handlers : at[g] \notin NoSelectionYet)
    BY <1>1, <1>2 DEF SelectionJobs, SelectionAwaits, NagKnown, ChoiceReminded, OpenAwaits
  <2>10. \A g \in Handlers : /\ at'[g] \in NoSelectionYet <=> at[g] \in NoSelectionYet
                             /\ at'[g] \in NoOpenYet <=> at[g] \in NoOpenYet
    BY <1>4, <1>7, <1>9 DEF NoSelectionYet, NoOpenYet, Working
  <2>11. Recruiting' <=> Recruiting
    BY <1>5 DEF Recruiting
  <2>12. SelectionAwaits'
    BY <1>1, <1>5, <2>6, <2>9, <2>10, <2>11 DEF SelectionJobs, SelectionAwaits
  <2>13. NagKnown'
    BY <1>1, <1>5 DEF SelectionJobs, NagKnown
  <2>14. ChoiceReminded'
    BY <1>5, <1>7, <2>1, <2>8 DEF ChoiceReminded
  <2>15. OpenAwaits'
    BY <1>1, <1>2, <1>5, <2>5, <2>10, <2>11 DEF SelectionJobs, OpenAwaits
  <2> QED
    BY <2>12, <2>13, <2>14, <2>15 DEF SelectionJobs
<1>21. ReviewJobs'
  <2>1. With("attending")' = With("attending")
    BY <1>5 DEF With
  <2>2. j # "review" => queue'["review"] = queue["review"]
    BY <1>6, RemOpening
  <2>3. CASE j = "review"
    BY <1>2, <1>5, <2>1, <2>3 DEF ReviewJobs
  <2>4. CASE j # "review"
    BY <1>1, <1>5, <2>1, <2>2, <2>4 DEF ReviewJobs
  <2> QED
    BY <2>3, <2>4
<1> QED
  BY <1>10, <1>11, <1>12, <1>13, <1>14, <1>17, <1>18, <1>19, <1>20, <1>21 DEF RemFacts

LEMMA WorkerDone ==
  ASSUME RemFacts, NEW h \in Handlers, Working(h), JobDone(h), OrderSame, ToldSame, ClockSame,
         errand[h].job \in RemindedCasts =>
            \/ reminded[errand[h].job].times > 0
            \/ errand[h].job \in gone
            \/ phase = "finished",
         errand[h].job = "selection" => reminded["selection"].times > 0 \/ phase # "cast_selectable"
                                        \/ ~RealSelection \/ time >= timing.closes,
         errand[h].job \notin {"open", "review"}
  PROVE  RemFacts'
<1>1. reminded' = reminded /\ asked' = asked
  BY DEF ToldSame
<1> QED
  BY <1>1, JobIsDone

\* What a worker has, and how far the order of a running reminder is.
LEMMA WorkerHas ==
  ASSUME RemFacts, NEW h \in Handlers, Working(h)
  PROVE  /\ errand[h].job \in Jobs /\ WorksOn(at[h], errand[h].job)
         /\ queue[errand[h].job].state = "running"
         /\ errand[h].job \in RemindedCasts =>
               /\ arrivedAt[errand[h].job] # Never /\ seat[errand[h].job] = "attending"
               /\ phase \in {"scheduled", "in_progress", "finished"}
BY DEF RemFacts, WorkersHold, CastJobs, SeatsFollow

LEMMA RemFindSelectable ==
  ASSUME RemFacts, NEW h \in Handlers, FindSelectable(h)
  PROVE  RemFacts'
<1>1. at[h] = "findChoice" /\ Working(h) /\ OrderSame /\ ClockSame /\ ToldSame
  BY DEF FindSelectable, Working
<1>2. errand[h].job = "selection"
  BY <1>1, WorkerHas DEF WorksOn
<1>3. CASE phase = "cast_selectable" /\ time < timing.closes
  <2>1. Continue(h, "countChoice") /\ UNCHANGED <<queue, errand>>
    BY <1>3 DEF FindSelectable
  <2> QED
    BY <1>1, <1>2, <2>1, WorkerGoesOn DEF WorksOn
<1>4. CASE ~(phase = "cast_selectable" /\ time < timing.closes)
  <2>1. JobDone(h)
    BY <1>4 DEF FindSelectable
  <2>2. time \in Int /\ timing.closes \in Int
    BY DEF RemFacts, RemTyped, Timings
  <2>3. phase # "cast_selectable" \/ time >= timing.closes
    BY <1>4, <2>2
  <2>4. "selection" \notin RemindedCasts
    BY ReminderAssumption
  <2> QED
    BY <1>1, <1>2, <2>1, <2>3, <2>4, WorkerDone
<1> QED
  BY <1>3, <1>4

LEMMA RemFindRealSelection ==
  ASSUME RemFacts, NEW h \in Handlers, FindRealSelection(h)
  PROVE  RemFacts'
<1>1. at[h] = "countChoice" /\ Working(h) /\ OrderSame /\ ClockSame /\ ToldSame
  BY DEF FindRealSelection, Working
<1>2. errand[h].job = "selection"
  BY <1>1, WorkerHas DEF WorksOn
<1>3. CASE RealSelection
  <2>1. Continue(h, "tell") /\ UNCHANGED <<queue, errand>>
    BY <1>3 DEF FindRealSelection
  <2> QED
    BY <1>1, <1>2, <2>1, WorkerGoesOn DEF WorksOn
<1>4. CASE ~RealSelection
  <2>1. JobDone(h)
    BY <1>4 DEF FindRealSelection
  <2>2. "selection" \notin RemindedCasts
    BY ReminderAssumption
  <2> QED
    BY <1>1, <1>2, <1>4, <2>1, <2>2, WorkerDone
<1> QED
  BY <1>3, <1>4

LEMMA RemFindOrder ==
  ASSUME RemFacts, NEW h \in Handlers, FindOrder(h)
  PROVE  RemFacts'
<1>1. at[h] = "findOrder" /\ Working(h) /\ OrderSame /\ ClockSame /\ ToldSame
  BY DEF FindOrder, Working
<1>2. errand[h].job \in RemindedCasts
  BY <1>1, WorkerHas DEF WorksOn
<1>3. errand[h].job \notin {"selection", "open", "review"}
  BY <1>2, ReminderAssumption
<1>4. CASE phase \in {"scheduled", "in_progress"}
  <2>1. Continue(h, "findSeat") /\ UNCHANGED <<queue, errand>>
    BY <1>4 DEF FindOrder
  <2>2. phase # "finished"
    BY <1>4
  <2> QED
    BY <1>1, <1>2, <2>1, <2>2, WorkerGoesOn DEF WorksOn
<1>5. CASE phase \notin {"scheduled", "in_progress"}
  <2>1. JobDone(h)
    BY <1>5 DEF FindOrder
  <2>2. phase = "finished"
    BY <1>1, <1>2, <1>5, WorkerHas
  <2> QED
    BY <1>1, <1>2, <1>3, <2>1, <2>2, WorkerDone
<1> QED
  BY <1>4, <1>5

LEMMA RemFindSeat ==
  ASSUME RemFacts, NEW h \in Handlers, FindSeat(h)
  PROVE  RemFacts'
<1>1. at[h] = "findSeat" /\ Working(h) /\ OrderSame /\ ClockSame /\ ToldSame
  BY DEF FindSeat, Working
<1>2. errand[h].job \in RemindedCasts
  BY <1>1, WorkerHas DEF WorksOn
<1>3. errand[h].job \notin {"selection", "open", "review"}
  BY <1>2, ReminderAssumption
<1>4. CASE errand[h].job \in With("attending") \ gone
  <2>1. Continue(h, "tell") /\ UNCHANGED <<queue, errand>>
    BY <1>4 DEF FindSeat
  <2> QED
    BY <1>1, <1>2, <2>1, WorkerGoesOn DEF WorksOn
<1>5. CASE errand[h].job \notin With("attending") \ gone
  <2>1. JobDone(h)
    BY <1>5 DEF FindSeat
  <2>2. errand[h].job \in gone
    BY <1>1, <1>2, <1>5, WorkerHas DEF With
  <2> QED
    BY <1>1, <1>2, <1>3, <2>1, <2>2, WorkerDone
<1> QED
  BY <1>4, <1>5

LEMMA RemFinishReminder ==
  ASSUME RemFacts, NEW h \in Handlers, FinishReminder(h)
  PROVE  RemFacts'
<1>1. at[h] = "sent" /\ Working(h) /\ OrderSame /\ ClockSame /\ ToldSame /\ JobDone(h)
  BY DEF FinishReminder, Working
<1>2. errand[h].job \in RemindedCasts \cup {"selection"} /\ reminded[errand[h].job].times > 0
  BY <1>1, WorkerHas DEF WorksOn, RemFacts, WorkersHold
<1>3. errand[h].job \notin {"open", "review"}
  BY <1>2, ReminderAssumption
<1> QED
  BY <1>1, <1>2, <1>3, WorkerDone

-----------------------------------------------------------------------------
(* A job is taken, and a worker dies *)

\* The state of one job changes to l at most, and its time stays.
Rejob(j, s) ==
    /\ queue' \in [Jobs -> QueueEntry]
    /\ queue'[j].state = s /\ queue'[j].at = queue[j].at
    /\ \A i \in Jobs : i # j => queue'[i] = queue[i]

LEMMA RemTakeJob ==
  ASSUME RemFacts, NEW h \in Handlers, TakeJob(h), ~torn'
  PROVE  RemFacts'
<1>1. /\ RemTyped /\ WorkersHold /\ OperatorAlone /\ RequestsKnow /\ SeatsFollow
      /\ CastJobs /\ EndMoves /\ SentOnce /\ SelectionJobs /\ ReviewJobs
  BY DEF RemFacts
<1>2. PICK j \in Due :
        /\ Deliver(h, CASE j = "open" -> "openOrder" [] j = "selection" -> "findChoice"
                        [] j = "review" -> "askReview" [] OTHER -> "findOrder")
        /\ queue' = [queue EXCEPT ![j].state = "running"]
        /\ Run(h, [NoErrand EXCEPT !.job = j]) /\ Crossed(FALSE)
        /\ OrderSame /\ ClockSame /\ ToldSame
  BY DEF TakeJob
<1>3. PICK l : l = (CASE j = "open" -> "openOrder" [] j = "selection" -> "findChoice"
                        [] j = "review" -> "askReview" [] OTHER -> "findOrder")
  OBVIOUS
<1>4. PICK e : e = [NoErrand EXCEPT !.job = j]
  OBVIOUS
<1>5. j \in Jobs /\ queue[j].state = "delayed" /\ queue[j].at <= time
  BY <1>2 DEF Due
<1>6. l \in {"openOrder", "findChoice", "askReview", "findOrder"} /\ WorksOn(l, j)
  BY <1>3, <1>5 DEF WorksOn, Jobs
<1>7. e \in Errands /\ e.job = j /\ ~e.operator
  <2>1. NoErrand \in Errands /\ ~NoErrand.operator
    BY RemOpening
  <2> QED
    BY <1>4, <1>5, <2>1 DEF Errands
<1>8. /\ at' = [at EXCEPT ![h] = l] /\ errand' = [errand EXCEPT ![h] = e]
      /\ at[h] = "idle" /\ faults' = faults
  BY <1>2, <1>3, <1>4 DEF Deliver, Goto, Run
<1>9. /\ at'[h] = l /\ errand'[h] = e
      /\ \A g \in Handlers : g # h => at'[g] = at[g] /\ errand'[g] = errand[g]
      /\ at' \in [Handlers -> RemLabels] /\ errand' \in [Handlers -> Errands]
  BY <1>1, <1>6, <1>7, <1>8, RemMoves DEF RemLabels
<1>10. /\ needed' = needed /\ timing' = timing /\ phase' = phase
       /\ seat' = seat /\ arrivedAt' = arrivedAt /\ gone' = gone /\ reminded' = reminded
       /\ asked' = asked /\ time' = time /\ nag' = nag /\ late' = late
  BY <1>2 DEF OrderSame, ToldSame, ClockSame
<1>11. Rejob(j, "running")
  <2>1. queue' = [queue EXCEPT ![j] = [queue[j] EXCEPT !.state = "running"]]
    BY <1>2
  <2>2. queue[j] \in QueueEntry
    BY <1>1, <1>5 DEF RemTyped
  <2>3. [queue[j] EXCEPT !.state = "running"] \in QueueEntry
    BY <2>2 DEF QueueEntry
  <2> QED
    BY <1>1, <1>5, <2>1, <2>2, <2>3 DEF RemTyped, QueueEntry, Rejob
<1>12. \A g \in Handlers : at[g] \notin OperatorLabels /\ at'[g] \notin OperatorLabels
  <2>1. \A g \in Handlers : ~errand[g].operator
    BY <1>2 DEF Crossed
  <2>2. \A g \in Handlers : at[g] \notin OperatorLabels
    BY <1>1, <2>1 DEF OperatorAlone
  <2> QED
    BY <1>6, <1>9, <2>2 DEF OperatorLabels
<1>13. /\ \A g \in Handlers : g # h => (Working(g)' <=> Working(g))
       /\ Working(h)' /\ ~Working(h)
  BY <1>6, <1>8, <1>9 DEF Working
<1>14. RemTyped'
  BY <1>1, <1>8, <1>9, <1>10, <1>11 DEF RemTyped, Rejob
<1>15. WorkersHold'
  <2>1. \A g \in Handlers : Working(g) => errand[g].job # j
    BY <1>1, <1>5 DEF WorkersHold
  <2>2. queue[j].at = time
    <3>1. queue[j].at >= time
      BY <1>1, <1>5 DEF WorkersHold
    <3>2. queue[j].at \in Int /\ time \in Int
      BY <1>1, <1>5 DEF RemTyped, QueueEntry
    <3> QED
      BY <1>5, <3>1, <3>2
  <2>3. \A i \in Jobs : queue'[i].state = "running" => \E g \in Handlers : Working(g)' /\ errand'[g].job = i
    <3>1. ASSUME NEW i \in Jobs, i # j, queue'[i].state = "running"
          PROVE  \E g \in Handlers : Working(g)' /\ errand'[g].job = i
      <4>1. PICK g \in Handlers : Working(g) /\ errand[g].job = i
        BY <1>1, <1>11, <3>1 DEF WorkersHold, Rejob
      <4> QED
        BY <1>9, <1>13, <4>1
    <3> QED
      BY <1>7, <1>9, <1>13, <3>1
  <2>4. \A g \in Handlers : Working(g)' =>
          /\ errand'[g].job \in Jobs /\ WorksOn(at'[g], errand'[g].job)
          /\ queue'[errand'[g].job].state = "running"
          /\ at'[g] = "sent" => reminded'[errand'[g].job].times > 0
    BY <1>1, <1>5, <1>6, <1>7, <1>9, <1>10, <1>11, <1>13, <2>1 DEF WorkersHold, Rejob
  <2>5. \A i \in Jobs : /\ queue'[i].state = "delayed" => queue'[i].at >= time'
                        /\ queue'[i].state = "running" => queue'[i].at = time'
    BY <1>1, <1>5, <1>10, <1>11, <2>2 DEF WorkersHold, Rejob
  <2>6. \A f, g \in Handlers : f # g /\ Working(f)' /\ Working(g)' => errand'[f].job # errand'[g].job
    BY <1>1, <1>7, <1>9, <1>13, <2>1 DEF WorkersHold
  <2> QED
    BY <2>3, <2>4, <2>5, <2>6 DEF WorkersHold
<1>16. OperatorAlone'
  BY <1>1, <1>7, <1>9, <1>10, <1>12 DEF OperatorAlone
<1>17. RequestsKnow'
  BY <1>1, <1>5, <1>6, <1>9, <1>10, <1>11, <1>12, RemOpening DEF RequestsKnow, ArriveLabels, Rejob
<1>18. SeatsFollow'
  BY <1>1, <1>5, <1>8, <1>9, <1>10, <1>11 DEF SeatsFollow
<1>19. \A t, d, a : OnTime(t, d, a)' <=> OnTime(t, d, a)
  BY <1>10 DEF OnTime
<1>20. \A c \in RemindedCasts : RemindTime(c, timing)' = RemindTime(c, timing)
  BY <1>10 DEF RemindTime
<1>21. CastJobs'
  <2>1. ~Unread /\ ~Unread'
    BY <1>12 DEF Unread, OperatorLabels
  <2> SUFFICES ASSUME NEW c \in RemindedCasts
        PROVE  /\ queue'[c].state # "none" \/ reminded'[c].times > 0 => arrivedAt'[c] # Never
               /\ queue'[c].state \in {"delayed", "running"} /\ phase' # "finished" /\ ~Unread'
                  => OnTime(queue[c].at, RemindTime(c, timing), arrivedAt[c])'
               /\ (\E g \in Handlers : at'[g] \in {"findSeat", "tell"} /\ errand'[g].job = c)
                  => OnTime(queue[c].at, RemindTime(c, timing), arrivedAt[c])'
               /\ queue'[c].state = "kept" => reminded'[c].times > 0 \/ c \in gone' \/ phase' = "finished"
               /\ queue'[c].state = "none" /\ arrivedAt'[c] # Never =>
                     \/ "end" \in late'
                     \/ \E g \in Handlers : \/ at'[g] = "addEnd" /\ errand'[g].job = c
                                            \/ at'[g] = "findArrived"
                                            \/ at'[g] = "addEnds" /\ c \in errand'[g].rest
    BY DEF CastJobs
  <2>2. c \in Jobs
    BY RemOpening
  <2>3. /\ queue'[c].at = queue[c].at /\ (queue'[c].state = "none" <=> queue[c].state = "none")
        /\ (queue'[c].state = "kept" <=> queue[c].state = "kept")
        /\ (queue'[c].state \in {"delayed", "running"} <=> queue[c].state \in {"delayed", "running"})
    BY <1>5, <1>11, <2>2 DEF Rejob
  <2>4. queue[c].state # "none" \/ reminded[c].times > 0 => arrivedAt[c] # Never
    BY <1>1 DEF CastJobs
  <2>5. queue[c].state \in {"delayed", "running"} /\ phase # "finished" /\ ~Unread
        => OnTime(queue[c].at, RemindTime(c, timing), arrivedAt[c])
    BY <1>1 DEF CastJobs
  <2>6. (\E g \in Handlers : at'[g] \in {"findSeat", "tell"} /\ errand'[g].job = c)
        => OnTime(queue[c].at, RemindTime(c, timing), arrivedAt[c])
    BY <1>1, <1>6, <1>9 DEF CastJobs
  <2>7. queue[c].state = "kept" => reminded[c].times > 0 \/ c \in gone \/ phase = "finished"
    BY <1>1 DEF CastJobs
  <2>8. queue[c].state = "none" /\ arrivedAt[c] # Never =>
            \/ "end" \in late
            \/ \E g \in Handlers : \/ at'[g] = "addEnd" /\ errand'[g].job = c
                                   \/ at'[g] = "findArrived"
                                   \/ at'[g] = "addEnds" /\ c \in errand'[g].rest
    BY <1>1, <1>8, <1>9 DEF CastJobs
  <2> QED
    BY <1>10, <1>19, <1>20, <2>1, <2>3, <2>4, <2>5, <2>6, <2>7, <2>8
<1>22. EndMoves'
  BY <1>12 DEF EndMoves, OperatorLabels
<1>23. SentOnce'
  BY <1>1, <1>5, <1>7, <1>8, <1>9, <1>10, <1>11, <1>13, RemOpening DEF SentOnce, MaxOfTwo, Rejob
<1>24. SelectionJobs'
  <2>1. RealSelection' <=> RealSelection
    BY <1>10 DEF RealSelection, With
  <2>3. \A g \in Handlers : /\ at'[g] \in NoSelectionYet <=> at[g] \in NoSelectionYet
                            /\ at'[g] \in NoOpenYet <=> at[g] \in NoOpenYet
    BY <1>6, <1>8, <1>9 DEF NoSelectionYet, NoOpenYet
  <2>4. /\ queue'["selection"].at = queue["selection"].at /\ queue'["open"].at = queue["open"].at
        /\ queue'["selection"].state # queue["selection"].state
             => j = "selection" /\ queue'["selection"].state = "running"
        /\ queue'["open"].state # queue["open"].state
             => j = "open" /\ queue'["open"].state = "running"
    BY <1>5, <1>11, RemOpening DEF Rejob
  <2>5. time \in Int /\ queue[j].at \in Int /\ timing.closes \in Int /\ SelectionLead \in Int
    BY <1>1, <1>5, ReminderAssumption DEF RemTyped, Timings, QueueEntry
  <2>6. j = "selection" => ~(Recruiting /\ time < timing.closes - SelectionLead
                             /\ \A g \in Handlers : at[g] \notin NoSelectionYet)
    BY <1>1, <1>5, <2>5 DEF SelectionJobs, SelectionAwaits, NagKnown, ChoiceReminded, OpenAwaits
  <2>7. (Recruiting' <=> Recruiting) /\ ~torn'
    BY <1>10 DEF Recruiting
  <2>8. SelectionAwaits'
    BY <1>1, <1>10, <2>3, <2>4, <2>6, <2>7 DEF SelectionJobs, SelectionAwaits
  <2>9. NagKnown'
    BY <1>1, <1>10 DEF SelectionJobs, NagKnown
  <2>10. ChoiceReminded'
    <3> SUFFICES ASSUME nag', phase' = "cast_selectable", "selection" \notin late'
                 PROVE  \/ reminded["selection"].times > 0
                        \/ queue'["selection"].state = "failed"
                        \/ /\ time = timing.closes - SelectionLead /\ RealSelection
                           /\ \/ queue'["selection"].state = "delayed" /\ queue'["selection"].at = time
                              \/ queue'["selection"].state = "running"
      BY <1>10, <1>12, <2>1 DEF ChoiceReminded
    <3>1. \/ reminded["selection"].times > 0
          \/ queue["selection"].state = "failed"
          \/ /\ time = timing.closes - SelectionLead /\ RealSelection
             /\ \/ queue["selection"].state = "delayed" /\ queue["selection"].at = time
                \/ queue["selection"].state = "running"
      BY <1>1, <1>10 DEF SelectionJobs, ChoiceReminded
    <3>2. queue["selection"].state = "failed" => queue'["selection"].state = "failed"
      BY <1>5, <2>4
    <3>3. \/ queue'["selection"].state = queue["selection"].state
          \/ queue'["selection"].state = "running"
      BY <2>4
    <3> QED
      BY <2>4, <3>1, <3>2, <3>3
  <2>11. OpenAwaits'
    BY <1>1, <1>10, <2>3, <2>4, <2>7 DEF SelectionJobs, OpenAwaits
  <2> QED
    BY <2>8, <2>9, <2>10, <2>11 DEF SelectionJobs
<1>25. ReviewJobs'
  BY <1>1, <1>5, <1>10, <1>11, RemOpening DEF ReviewJobs, With, Rejob
<1> QED
  BY <1>14, <1>15, <1>16, <1>17, <1>18, <1>21, <1>22, <1>23, <1>24, <1>25 DEF RemFacts

\* A worker dies: another one is to do the job, or it has failed.
LEMMA RemReminderDie ==
  ASSUME RemFacts, NEW h \in Handlers, ReminderDie(h), ~torn'
  PROVE  RemFacts'
<1>1. /\ RemTyped /\ WorkersHold /\ OperatorAlone /\ RequestsKnow /\ SeatsFollow
      /\ CastJobs /\ EndMoves /\ SentOnce /\ SelectionJobs /\ ReviewJobs
  BY DEF RemFacts
<1>2. Working(h)
  BY DEF ReminderDie
<1>3. PICK j \in Jobs : j = errand[h].job /\ queue[j].state = "running"
  BY <1>1, <1>2 DEF WorkersHold
<1>4. at' = [at EXCEPT ![h] = "idle"] /\ errand' = [errand EXCEPT ![h] = NoErrand]
      /\ faults' = faults + 1
  BY DEF ReminderDie, Die, Refused, Goto, Run
<1>5. /\ at'[h] = "idle" /\ errand'[h] = NoErrand
      /\ \A g \in Handlers : g # h => at'[g] = at[g] /\ errand'[g] = errand[g]
      /\ at' \in [Handlers -> RemLabels] /\ errand' \in [Handlers -> Errands]
  BY <1>1, <1>4, RemOpening, RemMoves DEF RemLabels
<1>6. /\ needed' = needed /\ timing' = timing /\ phase' = phase
      /\ seat' = seat /\ arrivedAt' = arrivedAt /\ gone' = gone /\ reminded' = reminded
      /\ asked' = asked /\ time' = time /\ nag' = nag /\ late' = late
  BY DEF OrderSame, ToldSame, ClockSame, ReminderDie
<1>7. PICK s : s = IF queue[j].stalled THEN "failed" ELSE "delayed"
  OBVIOUS
<1>8. s \in {"delayed", "failed"}
  BY <1>7
<1>9. Rejob(j, s)
  <2>1. queue' = [queue EXCEPT ![j] = Stalled(queue[j])]
    BY <1>2, <1>3 DEF ReminderDie
  <2>2. queue[j] \in QueueEntry
    BY <1>1 DEF RemTyped
  <2>3. PICK q : q = Stalled(queue[j])
    OBVIOUS
  <2>4. q \in QueueEntry /\ q.state = s /\ q.at = queue[j].at
    BY <1>7, <1>8, <2>2, <2>3 DEF QueueEntry, Stalled
  <2> QED
    BY <1>1, <2>1, <2>3, <2>4 DEF RemTyped, Rejob
<1>10. queue[j].at = time
  BY <1>1, <1>3 DEF WorkersHold
<1>11. \A g \in Handlers : at[g] \notin OperatorLabels /\ at'[g] \notin OperatorLabels
  BY <1>1, <1>2, <1>5, NoOperatorBeside DEF OperatorLabels, Working
<1>12. /\ \A g \in Handlers : g # h => (Working(g)' <=> Working(g))
       /\ ~Working(h)'
  BY <1>5 DEF Working
<1>13. at[h] \notin {"idle", "addEnd", "begin", "addOpen", "addSelection"}
  BY <1>2 DEF Working
<1>14. RemTyped'
  BY <1>1, <1>4, <1>5, <1>6, <1>9 DEF RemTyped, Rejob
<1>15. WorkersHold'
  <2>1. \A g \in Handlers : g # h /\ Working(g) => errand[g].job # j
    BY <1>1, <1>2, <1>3 DEF WorkersHold
  <2>2. \A i \in Jobs : queue'[i].state = "running" => \E g \in Handlers : Working(g)' /\ errand'[g].job = i
    BY <1>1, <1>3, <1>5, <1>8, <1>9, <1>12 DEF WorkersHold, Rejob
  <2>3. \A g \in Handlers : Working(g)' =>
          /\ errand'[g].job \in Jobs /\ WorksOn(at'[g], errand'[g].job)
          /\ queue'[errand'[g].job].state = "running"
          /\ at'[g] = "sent" => reminded'[errand'[g].job].times > 0
    BY <1>1, <1>5, <1>6, <1>9, <1>12, <2>1 DEF WorkersHold, Rejob
  <2>4. \A f, g \in Handlers : f # g /\ Working(f)' /\ Working(g)' => errand'[f].job # errand'[g].job
    BY <1>1, <1>5, <1>12 DEF WorkersHold
  <2>5. \A i \in Jobs : i # j =>
          /\ queue'[i].state = "delayed" => queue'[i].at >= time'
          /\ queue'[i].state = "running" => queue'[i].at = time'
    BY <1>1, <1>6, <1>9 DEF WorkersHold, Rejob
  <2>6. /\ queue'[j].state = "delayed" => queue'[j].at >= time'
        /\ queue'[j].state = "running" => queue'[j].at = time'
    <3>1. time \in Int
      BY <1>1 DEF RemTyped
    <3> QED
      BY <1>6, <1>9, <1>10, <3>1 DEF Rejob
  <2> QED
    BY <2>2, <2>3, <2>4, <2>5, <2>6 DEF WorkersHold
<1>16. OperatorAlone'
  BY <1>1, <1>5, <1>6, <1>11, RemOpening DEF OperatorAlone
<1>17. RequestsKnow'
  BY <1>1, <1>3, <1>5, <1>6, <1>8, <1>9, <1>11, RemOpening DEF RequestsKnow, ArriveLabels, Rejob
<1>18. SeatsFollow'
  BY <1>1, <1>3, <1>5, <1>6, <1>9, <1>13 DEF SeatsFollow, Rejob
<1>19. \A t, d, a : OnTime(t, d, a)' <=> OnTime(t, d, a)
  BY <1>6 DEF OnTime
<1>20. \A c \in RemindedCasts : RemindTime(c, timing)' = RemindTime(c, timing)
  BY <1>6 DEF RemindTime
<1>21. CastJobs'
  <2>1. ~Unread /\ ~Unread'
    BY <1>11 DEF Unread, OperatorLabels
  <2> SUFFICES ASSUME NEW c \in RemindedCasts
        PROVE  /\ queue'[c].state # "none" \/ reminded'[c].times > 0 => arrivedAt'[c] # Never
               /\ queue'[c].state \in {"delayed", "running"} /\ phase' # "finished" /\ ~Unread'
                  => OnTime(queue[c].at, RemindTime(c, timing), arrivedAt[c])'
               /\ (\E g \in Handlers : at'[g] \in {"findSeat", "tell"} /\ errand'[g].job = c)
                  => OnTime(queue[c].at, RemindTime(c, timing), arrivedAt[c])'
               /\ queue'[c].state = "kept" => reminded'[c].times > 0 \/ c \in gone' \/ phase' = "finished"
               /\ queue'[c].state = "none" /\ arrivedAt'[c] # Never =>
                     \/ "end" \in late'
                     \/ \E g \in Handlers : \/ at'[g] = "addEnd" /\ errand'[g].job = c
                                            \/ at'[g] = "findArrived"
                                            \/ at'[g] = "addEnds" /\ c \in errand'[g].rest
    BY DEF CastJobs
  <2>2. c \in Jobs
    BY RemOpening
  <2>3. /\ queue'[c].at = queue[c].at /\ (queue'[c].state = "none" <=> queue[c].state = "none")
        /\ (queue'[c].state = "kept" <=> queue[c].state = "kept")
        /\ (queue'[c].state \in {"delayed", "running"} => queue[c].state \in {"delayed", "running"})
    BY <1>3, <1>8, <1>9, <2>2 DEF Rejob
  <2>4. queue[c].state # "none" \/ reminded[c].times > 0 => arrivedAt[c] # Never
    BY <1>1 DEF CastJobs
  <2>5. queue[c].state \in {"delayed", "running"} /\ phase # "finished" /\ ~Unread
        => OnTime(queue[c].at, RemindTime(c, timing), arrivedAt[c])
    BY <1>1 DEF CastJobs
  <2>6. (\E g \in Handlers : at'[g] \in {"findSeat", "tell"} /\ errand'[g].job = c)
        => OnTime(queue[c].at, RemindTime(c, timing), arrivedAt[c])
    BY <1>1, <1>5 DEF CastJobs
  <2>7. queue[c].state = "kept" => reminded[c].times > 0 \/ c \in gone \/ phase = "finished"
    BY <1>1 DEF CastJobs
  <2>8. queue[c].state = "none" /\ arrivedAt[c] # Never =>
            \/ "end" \in late
            \/ \E g \in Handlers : \/ at'[g] = "addEnd" /\ errand'[g].job = c
                                   \/ at'[g] = "findArrived"
                                   \/ at'[g] = "addEnds" /\ c \in errand'[g].rest
    BY <1>1, <1>2, <1>5 DEF CastJobs, Working
  <2> QED
    BY <1>6, <1>19, <1>20, <2>1, <2>3, <2>4, <2>5, <2>6, <2>7, <2>8
<1>22. EndMoves'
  BY <1>11 DEF EndMoves, OperatorLabels
<1>23. SentOnce'
  <2>1. \A c \in RemindedCasts : reminded[c].times \in Nat /\ reminded[c].times <= 1 + faults
    BY <1>1, RemOpening DEF SentOnce, RemTyped, Telling
  <2>2. faults \in Nat
    BY <1>1 DEF RemTyped
  <2>3. \A c \in RemindedCasts : reminded'[c].times <= faults' /\ reminded'[c].times <= 1 + faults'
    BY <1>4, <1>6, <2>1, <2>2
  <2> QED
    BY <1>1, <1>6, <2>3 DEF SentOnce, MaxOfTwo
<1>24. SelectionJobs'
  <2>1. RealSelection' <=> RealSelection
    BY <1>6 DEF RealSelection, With
  <2>3. \A g \in Handlers : /\ at'[g] \in NoSelectionYet <=> at[g] \in NoSelectionYet
                            /\ at'[g] \in NoOpenYet <=> at[g] \in NoOpenYet
    BY <1>2, <1>5 DEF NoSelectionYet, NoOpenYet, Working
  <2>4. /\ j = "selection" => queue'["selection"].at = time /\ queue'["selection"].state = s
        /\ j = "open" => queue'["open"].at = time /\ queue'["open"].state = s
        /\ j # "selection" => queue'["selection"] = queue["selection"]
        /\ j # "open" => queue'["open"] = queue["open"]
    BY <1>9, <1>10, RemOpening DEF Rejob
  <2>5. time \in Int
    BY <1>1 DEF RemTyped
  <2>6. j = "selection" => ~(Recruiting /\ time < timing.closes - SelectionLead
                             /\ \A g \in Handlers : at[g] \notin NoSelectionYet)
    BY <1>1, <1>3 DEF SelectionJobs, SelectionAwaits
  <2>7. (Recruiting' <=> Recruiting)
    BY <1>6 DEF Recruiting
  <2>8. SelectionAwaits'
    BY <1>1, <1>6, <2>3, <2>4, <2>6, <2>7 DEF SelectionJobs, SelectionAwaits
  <2>9. NagKnown'
    BY <1>1, <1>6 DEF SelectionJobs, NagKnown
  <2>10. ChoiceReminded'
    <3> SUFFICES ASSUME nag', phase' = "cast_selectable", "selection" \notin late'
                 PROVE  \/ reminded["selection"].times > 0
                        \/ queue'["selection"].state = "failed"
                        \/ /\ time = timing.closes - SelectionLead /\ RealSelection
                           /\ \/ queue'["selection"].state = "delayed" /\ queue'["selection"].at = time
                              \/ queue'["selection"].state = "running"
      BY <1>6, <1>11, <2>1 DEF ChoiceReminded
    <3>1. \/ reminded["selection"].times > 0
          \/ queue["selection"].state = "failed"
          \/ /\ time = timing.closes - SelectionLead /\ RealSelection
             /\ \/ queue["selection"].state = "delayed" /\ queue["selection"].at = time
                \/ queue["selection"].state = "running"
      BY <1>1, <1>6 DEF SelectionJobs, ChoiceReminded
    <3>2. CASE j = "selection"
      BY <1>3, <1>8, <2>4, <3>1, <3>2
    <3>3. CASE j # "selection"
      BY <2>4, <3>1, <3>3
    <3> QED
      BY <3>2, <3>3
  <2>11. OpenAwaits'
    <3>1. CASE j = "open"
      BY <1>6, <1>8, <2>4, <2>5, <3>1 DEF OpenAwaits
    <3>2. CASE j # "open"
      BY <1>1, <1>6, <2>3, <2>4, <2>7, <3>2 DEF SelectionJobs, OpenAwaits
    <3> QED
      BY <3>1, <3>2
  <2> QED
    BY <2>8, <2>9, <2>10, <2>11 DEF SelectionJobs
<1>25. ReviewJobs'
  <2>1. j = "review" => queue'["review"].at = time /\ queue'["review"].state = s /\ time \in Int
    BY <1>1, <1>9, <1>10 DEF Rejob, RemTyped
  <2>2. j # "review" => queue'["review"] = queue["review"]
    BY <1>9, RemOpening DEF Rejob
  <2>3. With("attending")' = With("attending")
    BY <1>6 DEF With
  <2>4. CASE j = "review"
    BY <1>1, <1>3, <1>6, <1>8, <2>1, <2>3, <2>4 DEF ReviewJobs
  <2>5. CASE j # "review"
    BY <1>1, <1>6, <2>2, <2>3, <2>5 DEF ReviewJobs
  <2> QED
    BY <2>4, <2>5
<1> QED
  BY <1>14, <1>15, <1>16, <1>17, <1>18, <1>21, <1>22, <1>23, <1>24, <1>25 DEF RemFacts

\* A reminder goes out when its job is due.
LEMMA RemSendReminder ==
  ASSUME RemFacts, NEW h \in Handlers, SendReminder(h)
  PROVE  RemFacts'
<1>1. /\ RemTyped /\ WorkersHold /\ OperatorAlone /\ RequestsKnow /\ SeatsFollow
      /\ CastJobs /\ EndMoves /\ SentOnce /\ SelectionJobs /\ ReviewJobs
  BY DEF RemFacts
<1>2. at[h] = "tell" /\ Working(h)
  BY DEF SendReminder, Working
<1>3. PICK j \in Jobs : j = errand[h].job /\ queue[j].state = "running"
  BY <1>1, <1>2 DEF WorkersHold
<1>4. j \in RemindedCasts \cup {"selection"}
  BY <1>1, <1>2, <1>3 DEF WorkersHold, WorksOn
<1>5. /\ at'[h] = "sent" /\ \A g \in Handlers : g # h => at'[g] = at[g]
      /\ at' \in [Handlers -> RemLabels] /\ faults' = faults
  BY <1>1 DEF RemTyped, SendReminder, Continue, Goto, RemLabels
<1>6. /\ errand' = errand /\ queue' = queue /\ needed' = needed /\ timing' = timing /\ phase' = phase
      /\ seat' = seat /\ arrivedAt' = arrivedAt /\ gone' = gone
      /\ asked' = asked /\ time' = time /\ nag' = nag /\ late' = late
  BY DEF OrderSame, ToldSame, ClockSame, SendReminder
<1>7. PICK d : d = IF j = "selection" THEN timing.closes - SelectionLead ELSE RemindTime(j, timing)
  OBVIOUS
<1>8. /\ reminded' \in [Jobs -> Telling]
      /\ reminded'[j].times = reminded[j].times + 1 /\ reminded'[j].at = time /\ reminded'[j].due = d
      /\ \A i \in Jobs : i # j => reminded'[i] = reminded[i]
  <2>1. d \in Int
    <3>1. CASE j = "selection"
      BY <1>1, <1>7, <3>1, ReminderAssumption DEF RemTyped, Timings
    <3>2. CASE j # "selection"
      <4>1. arrivedAt[j] \in Int /\ timing.from \in Int /\ timing.to \in Int
        BY <1>1, <1>4, <3>2, ReminderAssumption DEF RemTyped, Timings, Never
      <4> QED
        BY <1>7, <3>2, <4>1, ReminderAssumption DEF RemindTime
    <3> QED
      BY <3>1, <3>2
  <2>2. reminded' = [reminded EXCEPT ![j] = [times |-> reminded[j].times + 1, at |-> time, due |-> d]]
    BY <1>3, <1>7 DEF SendReminder
  <2>3. reminded[j].times \in Nat /\ time \in Int
    BY <1>1 DEF RemTyped, Telling
  <2>4. [times |-> reminded[j].times + 1, at |-> time, due |-> d] \in Telling
    BY <2>1, <2>3 DEF Telling
  <2> QED
    BY <1>1, <2>2, <2>4 DEF RemTyped
<1>9. \A g \in Handlers : at[g] \notin OperatorLabels /\ at'[g] \notin OperatorLabels
  BY <1>1, <1>2, <1>5, NoOperatorBeside DEF OperatorLabels
<1>10. \A g \in Handlers : Working(g)' <=> Working(g)
  BY <1>2, <1>5 DEF Working
<1>11. \A i \in Jobs : reminded[i].times > 0 => reminded'[i].times > 0
  <2>1. reminded[j].times \in Nat
    BY <1>1 DEF RemTyped, Telling
  <2> QED
    BY <1>8, <2>1
<1>12. \A t, e, a : OnTime(t, e, a)' <=> OnTime(t, e, a)
  BY <1>6 DEF OnTime
<1>13. \A c \in RemindedCasts : RemindTime(c, timing)' = RemindTime(c, timing)
  BY <1>6 DEF RemindTime
<1>14. RemTyped'
  BY <1>1, <1>5, <1>6, <1>8 DEF RemTyped
<1>15. WorkersHold'
  <2>1. \A g \in Handlers : at'[g] = "sent" => reminded'[errand[g].job].times > 0
    <3>1. reminded'[j].times > 0
      <4>1. reminded[j].times \in Nat
        BY <1>1 DEF RemTyped, Telling
      <4> QED
        BY <1>8, <4>1
    <3>2. ASSUME NEW g \in Handlers, g # h, at[g] = "sent" PROVE reminded'[errand[g].job].times > 0
      <4>1. Working(g)
        BY <3>2 DEF Working
      <4> QED
        BY <1>1, <1>11, <3>2, <4>1 DEF WorkersHold
    <3> QED
      BY <1>3, <1>5, <3>1, <3>2
  <2>2. \A g \in Handlers : Working(g) => WorksOn(at'[g], errand[g].job) /\ errand[g].job \in Jobs
    BY <1>1, <1>2, <1>5 DEF WorkersHold, WorksOn
  <2> QED
    BY <1>1, <1>6, <1>10, <2>1, <2>2 DEF WorkersHold
<1>16. OperatorAlone'
  BY <1>1, <1>6, <1>9 DEF OperatorAlone
<1>17. RequestsKnow'
  BY <1>1, <1>5, <1>6, <1>9 DEF RequestsKnow, ArriveLabels
<1>18. SeatsFollow'
  BY <1>1, <1>2, <1>5, <1>6 DEF SeatsFollow
<1>19. CastJobs'
  <2>1. ~Unread /\ ~Unread'
    BY <1>9 DEF Unread, OperatorLabels
  <2> SUFFICES ASSUME NEW c \in RemindedCasts
        PROVE  /\ queue'[c].state # "none" \/ reminded'[c].times > 0 => arrivedAt'[c] # Never
               /\ queue'[c].state \in {"delayed", "running"} /\ phase' # "finished" /\ ~Unread'
                  => OnTime(queue[c].at, RemindTime(c, timing), arrivedAt[c])'
               /\ (\E g \in Handlers : at'[g] \in {"findSeat", "tell"} /\ errand'[g].job = c)
                  => OnTime(queue[c].at, RemindTime(c, timing), arrivedAt[c])'
               /\ queue'[c].state = "kept" => reminded'[c].times > 0 \/ c \in gone' \/ phase' = "finished"
               /\ queue'[c].state = "none" /\ arrivedAt'[c] # Never =>
                     \/ "end" \in late'
                     \/ \E g \in Handlers : \/ at'[g] = "addEnd" /\ errand'[g].job = c
                                            \/ at'[g] = "findArrived"
                                            \/ at'[g] = "addEnds" /\ c \in errand'[g].rest
    BY DEF CastJobs
  <2>2. c \in Jobs
    BY RemOpening
  <2>3. queue[c].state # "none" \/ reminded[c].times > 0 => arrivedAt[c] # Never
    BY <1>1 DEF CastJobs
  <2>4. reminded'[c].times > 0 => arrivedAt[c] # Never
    BY <1>3, <1>8, <2>2, <2>3
  <2>5. queue[c].state \in {"delayed", "running"} /\ phase # "finished" /\ ~Unread
        => OnTime(queue[c].at, RemindTime(c, timing), arrivedAt[c])
    BY <1>1 DEF CastJobs
  <2>6. (\E g \in Handlers : at'[g] \in {"findSeat", "tell"} /\ errand'[g].job = c)
        => OnTime(queue[c].at, RemindTime(c, timing), arrivedAt[c])
    BY <1>1, <1>5, <1>6 DEF CastJobs
  <2>7. queue[c].state = "kept" => reminded[c].times > 0 \/ c \in gone \/ phase = "finished"
    BY <1>1 DEF CastJobs
  <2>8. queue[c].state = "none" /\ arrivedAt[c] # Never =>
            \/ "end" \in late
            \/ \E g \in Handlers : \/ at'[g] = "addEnd" /\ errand'[g].job = c
                                   \/ at'[g] = "findArrived"
                                   \/ at'[g] = "addEnds" /\ c \in errand'[g].rest
    BY <1>1, <1>2, <1>5, <1>6 DEF CastJobs
  <2> QED
    BY <1>6, <1>11, <1>12, <1>13, <2>1, <2>2, <2>3, <2>4, <2>5, <2>6, <2>7, <2>8
<1>20. EndMoves'
  BY <1>9 DEF EndMoves, OperatorLabels
<1>21. SentOnce'
  <2> SUFFICES ASSUME NEW c \in RemindedCasts
        PROVE  /\ reminded'[c].times <= 1 + faults
               /\ queue[c].state \in {"none", "delayed"} => reminded'[c].times <= faults
               /\ \A g \in Handlers : Working(g) /\ errand[g].job = c /\ at'[g] # "sent"
                                      => reminded'[c].times <= faults
               /\ reminded'[c].times > 0 =>
                     /\ reminded'[c].at >= reminded'[c].due
                     /\ timing = OrderTimes => reminded'[c].at = MaxOfTwo(reminded'[c].due, arrivedAt[c])
    BY <1>5, <1>6, <1>10 DEF SentOnce, MaxOfTwo
  <2>1. CASE c = j
    <3>1. reminded[c].times <= faults /\ faults \in Nat /\ reminded[c].times \in Nat
      BY <1>1, <1>2, <1>3, <2>1 DEF SentOnce, RemTyped, Telling
    <3>2. \A g \in Handlers : Working(g) /\ errand[g].job = c => g = h
      BY <1>1, <1>2, <1>3, <2>1 DEF WorkersHold
    <3>3. d = RemindTime(c, timing)
      BY <1>7, <2>1, ReminderAssumption
    <3>4. OnTime(queue[c].at, RemindTime(c, timing), arrivedAt[c])
      BY <1>1, <1>2, <1>3, <2>1 DEF CastJobs
    <3>5. queue[c].at = time
      BY <1>1, <1>3, <2>1 DEF WorkersHold
    <3>6. time >= d /\ (timing = OrderTimes => time = MaxOfTwo(d, arrivedAt[c]))
      BY <3>3, <3>4, <3>5 DEF OnTime
    <3> QED
      BY <1>3, <1>5, <1>8, <2>1, <3>1, <3>2, <3>6
  <2>2. CASE c # j
    <3>1. reminded'[c] = reminded[c]
      BY <1>8, <2>2, RemOpening
    <3>2. \A g \in Handlers : Working(g) /\ errand[g].job = c => g # h
      BY <1>3, <2>2
    <3> QED
      BY <1>1, <1>5, <3>1, <3>2 DEF SentOnce
  <2> QED
    BY <2>1, <2>2
<1>22. SelectionJobs'
  <2>1. RealSelection' <=> RealSelection
    BY <1>6 DEF RealSelection, With
  <2>2. \A g \in Handlers : /\ at'[g] \in NoSelectionYet <=> at[g] \in NoSelectionYet
                            /\ at'[g] \in NoOpenYet <=> at[g] \in NoOpenYet
    BY <1>2, <1>5 DEF NoSelectionYet, NoOpenYet
  <2>3. (Recruiting' <=> Recruiting)
    BY <1>6 DEF Recruiting
  <2>4. SelectionAwaits'
    BY <1>1, <1>6, <2>2, <2>3 DEF SelectionJobs, SelectionAwaits
  <2>5. NagKnown'
    BY <1>1, <1>6 DEF SelectionJobs, NagKnown
  <2>6. ChoiceReminded'
    BY <1>1, <1>6, <1>9, <1>11, <2>1, RemOpening DEF SelectionJobs, ChoiceReminded
  <2>7. OpenAwaits'
    BY <1>1, <1>6, <2>2, <2>3 DEF SelectionJobs, OpenAwaits
  <2> QED
    BY <2>4, <2>5, <2>6, <2>7 DEF SelectionJobs
<1>23. ReviewJobs'
  BY <1>1, <1>6 DEF ReviewJobs, With
<1> QED
  BY <1>14, <1>15, <1>16, <1>17, <1>18, <1>19, <1>20, <1>21, <1>22, <1>23 DEF RemFacts

-----------------------------------------------------------------------------
(* The selection *)

\* While casts enter, nobody has been chosen, so that nobody has come.
LEMMA NobodyYet ==
  ASSUME RemFacts, Recruiting
  PROVE  /\ phase # "new" /\ phase # "finished" /\ gone = {} /\ ~(\E h \in Handlers : at[h] \in ArriveLabels)
         /\ asked = {} /\ queue["review"].state = "none"
         /\ \A c \in RemindedCasts : /\ seat[c] # "attending" /\ arrivedAt[c] = Never
                                     /\ queue[c].state = "none" /\ ~(reminded[c].times > 0)
<1>1. /\ RemTyped /\ WorkersHold /\ RequestsKnow /\ SeatsFollow /\ CastJobs /\ ReviewJobs
  BY DEF RemFacts
<1>2. phase \notin {"scheduled", "in_progress", "finished", "new"}
  BY DEF Recruiting
<1>3. \A c \in RemindedCasts : seat[c] # "attending" /\ arrivedAt[c] = Never
  BY <1>1, <1>2 DEF SeatsFollow
<1>4. \A c \in RemindedCasts : queue[c].state = "none" /\ ~(reminded[c].times > 0)
  BY <1>1, <1>3 DEF CastJobs
<1>5. gone = {}
  BY <1>1, <1>3 DEF SeatsFollow, RemTyped
<1>6. ~(\E h \in Handlers : at[h] \in ArriveLabels)
  BY <1>1, <1>3 DEF RequestsKnow
<1> QED
  BY <1>1, <1>2, <1>3, <1>4, <1>5, <1>6 DEF ReviewJobs

\* A match makes everybody who entered come or stay away.
LEMMA MatchSeats ==
  ASSUME RemFacts, Recruiting, NEW S \in SUBSET With("unconfirmed"), Match(S)
  PROVE  /\ seat' \in [RemindedCasts -> {"none", "unconfirmed", "attending", "out"}]
         /\ \A c \in RemindedCasts : seat'[c] # "unconfirmed"
         /\ phase' = "scheduled" /\ UNCHANGED <<needed, timing, arrivedAt, gone>>
<1>1. seat \in [RemindedCasts -> {"none", "unconfirmed", "attending", "out"}]
  BY DEF RemFacts, RemTyped
<1>2. seat' = [c \in RemindedCasts |-> CASE c \in S -> "attending"
                                          [] c \in With("unconfirmed") \ S -> "out"
                                          [] OTHER -> seat[c]]
  BY DEF Match
<1>3. ASSUME NEW c \in RemindedCasts
      PROVE  seat'[c] \in {"none", "attending", "out"}
  <2>1. seat'[c] = CASE c \in S -> "attending"
                     [] c \in With("unconfirmed") \ S -> "out"
                     [] OTHER -> seat[c]
    BY <1>2
  <2>2. c \in With("unconfirmed") <=> seat[c] = "unconfirmed"
    BY DEF With
  <2>3. CASE c \in S
    BY <2>1, <2>3
  <2>4. CASE c \in With("unconfirmed") \ S
    <3>1. c \notin S
      BY <2>4
    <3> QED
      BY <2>1, <2>4, <3>1
  <2>5. CASE c \notin S /\ c \notin With("unconfirmed")
    BY <1>1, <2>1, <2>2, <2>5
  <2> QED
    BY <2>3, <2>4, <2>5
<1>4. DOMAIN seat' = RemindedCasts
  BY <1>2
<1>5. seat' = [c \in RemindedCasts |-> seat'[c]]
  BY <1>2
<1>6. \A c \in RemindedCasts : seat'[c] # "unconfirmed"
  BY <1>3
<1>7. seat' \in [RemindedCasts -> {"none", "unconfirmed", "attending", "out"}]
  BY <1>3, <1>5
<1> QED
  BY <1>6, <1>7 DEF Match

\* The recruitment is over, in a step that leaves the clock and what was told alone.
LEMMA SelectionEnds ==
  ASSUME RemFacts, Recruiting, RemTyped', WorkersHold', OperatorAlone',
         phase' \in {"scheduled", "not_enough_cast_fail"},
         phase' = "scheduled" => \A c \in RemindedCasts : seat'[c] # "unconfirmed",
         phase' # "scheduled" => seat' = seat,
         timing' = timing, arrivedAt' = arrivedAt, gone' = gone, reminded' = reminded,
         asked' = asked, nag' = nag, late' = late, time' = time, faults' = faults,
         \A j \in Jobs : j # "open" => queue'[j] = queue[j],
         queue'["open"].state = "none" <=> queue["open"].state = "none",
         \A h \in Handlers : \/ at'[h] = at[h] /\ errand'[h] = errand[h]
                             \/ at'[h] = "idle"
  PROVE  RemFacts'
<1>1. /\ RemTyped /\ WorkersHold /\ OperatorAlone /\ RequestsKnow /\ SeatsFollow
      /\ CastJobs /\ EndMoves /\ SentOnce /\ SelectionJobs /\ ReviewJobs
  BY DEF RemFacts
<1>2. /\ phase # "new" /\ phase # "finished" /\ gone = {} /\ ~(\E h \in Handlers : at[h] \in ArriveLabels)
      /\ asked = {} /\ queue["review"].state = "none"
      /\ \A c \in RemindedCasts : /\ seat[c] # "attending" /\ arrivedAt[c] = Never
                                  /\ queue[c].state = "none" /\ ~(reminded[c].times > 0)
  BY NobodyYet
<1>3. /\ \A c \in RemindedCasts : queue'[c].state = "none"
      /\ queue'["review"].state = "none" /\ queue'["selection"].state = queue["selection"].state
  BY <1>2, RemOpening, ReminderAssumption
<1>4. ~(\E h \in Handlers : at'[h] \in ArriveLabels)
  BY <1>2 DEF ArriveLabels
<1>5. RequestsKnow'
  BY <1>1, <1>3, <1>4 DEF RequestsKnow, ArriveLabels, OperatorLabels
<1>6. SeatsFollow'
  BY <1>1, <1>2 DEF SeatsFollow
<1>7. \A c \in RemindedCasts : ~(\E h \in Handlers : at'[h] \in {"findSeat", "tell"} /\ errand'[h].job = c)
  <2> SUFFICES ASSUME NEW c \in RemindedCasts, NEW h \in Handlers,
                      at'[h] \in {"findSeat", "tell"}, errand'[h].job = c
               PROVE  FALSE
    OBVIOUS
  <2>1. Working(h)'
    BY DEF Working
  <2>2. queue'[c].state = "running"
    BY <2>1 DEF WorkersHold
  <2> QED
    BY <1>3, <2>2
<1>8. CastJobs'
  BY <1>2, <1>3, <1>7 DEF CastJobs
<1>9. EndMoves'
  <2>1. phase' # "in_progress"
    OBVIOUS
  <2> QED
    BY <1>1, <2>1 DEF EndMoves
<1>10. SentOnce'
  <2>1. \A c \in RemindedCasts : reminded[c].times \in Nat
    BY <1>1, RemOpening DEF RemTyped, Telling
  <2>2. \A c \in RemindedCasts : reminded[c].times = 0
    BY <1>2, <2>1
  <2>3. faults \in Nat
    BY <1>1 DEF RemTyped
  <2> QED
    BY <2>2, <2>3 DEF SentOnce
<1>11. SelectionJobs'
  <2>1. ~Recruiting' /\ phase' \notin {"new", "requested", "cast_selectable"}
    BY DEF Recruiting
  <2> QED
    BY <1>1, <2>1 DEF SelectionJobs, SelectionAwaits, NagKnown, ChoiceReminded, OpenAwaits
<1>12. ReviewJobs'
  BY <1>2, <1>3 DEF ReviewJobs
<1> QED
  BY <1>5, <1>6, <1>8, <1>9, <1>10, <1>11, <1>12 DEF RemFacts

LEMMA RemChooseCasts ==
  ASSUME RemFacts, ChooseCasts, ClockSame, ToldSame, UNCHANGED <<handlerVars, queue, errand>>
  PROVE  RemFacts'
<1>1. /\ RemTyped /\ WorkersHold /\ OperatorAlone
  BY DEF RemFacts
<1>2. Recruiting
  BY DEF ChooseCasts, Recruiting
<1>3. PICK S \in SUBSET With("unconfirmed") : Match(S)
  BY DEF ChooseCasts
<1>4. /\ seat' \in [RemindedCasts -> {"none", "unconfirmed", "attending", "out"}]
      /\ \A c \in RemindedCasts : seat'[c] # "unconfirmed"
      /\ phase' = "scheduled" /\ UNCHANGED <<needed, timing, arrivedAt, gone>>
  BY <1>2, <1>3, MatchSeats
<1>5. /\ at' = at /\ faults' = faults /\ queue' = queue /\ errand' = errand
      /\ reminded' = reminded /\ asked' = asked /\ time' = time /\ nag' = nag /\ late' = late
  BY DEF ClockSame, ToldSame, handlerVars
<1>6. RemTyped'
  BY <1>1, <1>4, <1>5 DEF RemTyped, OrderPhases
<1>7. WorkersHold' /\ OperatorAlone'
  BY <1>1, <1>4, <1>5 DEF WorkersHold, OperatorAlone, Working
<1> QED
  BY <1>2, <1>4, <1>5, <1>6, <1>7, SelectionEnds

\* What is left when a worker of another job than a reminder's has done it.
LEMMA OtherJobDone ==
  ASSUME RemFacts, NEW h \in Handlers, Working(h), JobDone(h),
         reminded' = reminded, time' = time, timing' = timing
  PROVE  /\ queue' \in [Jobs -> QueueEntry] /\ at' \in [Handlers -> RemLabels]
         /\ errand' \in [Handlers -> Errands] /\ faults' = faults
         /\ WorkersHold' /\ OperatorAlone'
         /\ queue'[errand[h].job].state = "kept" /\ queue[errand[h].job].state = "running"
         /\ \A i \in Jobs : i # errand[h].job => queue'[i] = queue[i]
         /\ at'[h] = "idle" /\ errand'[h] = NoErrand
         /\ \A g \in Handlers : g # h => at'[g] = at[g] /\ errand'[g] = errand[g]
         /\ \A g \in Handlers : at[g] \notin OperatorLabels /\ at'[g] \notin OperatorLabels
<1>1. RemTyped /\ WorkersHold /\ OperatorAlone
  BY DEF RemFacts
<1>2. PICK j \in Jobs : j = errand[h].job /\ queue[j].state = "running"
  BY <1>1 DEF WorkersHold
<1>3. at' = [at EXCEPT ![h] = "idle"] /\ errand' = [errand EXCEPT ![h] = NoErrand]
      /\ faults' = faults
  BY DEF JobDone, RequestEnds, End, Continue, Goto, Run
<1>4. /\ at'[h] = "idle" /\ errand'[h] = NoErrand
      /\ \A g \in Handlers : g # h => at'[g] = at[g] /\ errand'[g] = errand[g]
      /\ at' \in [Handlers -> RemLabels] /\ errand' \in [Handlers -> Errands]
  BY <1>1, <1>3, RemOpening, RemMoves DEF RemLabels
<1>5. /\ queue'[j].state = "kept" /\ queue'[j].at = queue[j].at
      /\ \A i \in Jobs : i # j => queue'[i] = queue[i]
      /\ queue' \in [Jobs -> QueueEntry]
  <2>1. queue' = [queue EXCEPT ![j] = [queue[j] EXCEPT !.state = "kept"]]
    BY <1>2 DEF JobDone
  <2>2. queue[j] \in QueueEntry
    BY <1>1 DEF RemTyped
  <2>3. [queue[j] EXCEPT !.state = "kept"] \in QueueEntry
    BY <2>2 DEF QueueEntry
  <2> QED
    BY <1>1, <2>1, <2>2, <2>3 DEF RemTyped, QueueEntry
<1>6. \A g \in Handlers : at[g] \notin OperatorLabels /\ at'[g] \notin OperatorLabels
  BY <1>1, <1>4, NoOperatorBeside DEF OperatorLabels, Working
<1>7. \A g \in Handlers : g # h => (Working(g)' <=> Working(g))
  BY <1>4 DEF Working
<1>8. ~Working(h)'
  BY <1>4 DEF Working
<1>9. WorkersHold'
  <2>1. \A g \in Handlers : g # h /\ Working(g) => errand[g].job # j
    BY <1>1, <1>2 DEF WorkersHold
  <2>2. \A i \in Jobs : queue'[i].state = "running" => \E g \in Handlers : Working(g)' /\ errand'[g].job = i
    BY <1>1, <1>2, <1>4, <1>5, <1>7 DEF WorkersHold
  <2> QED
    BY <1>1, <1>2, <1>4, <1>5, <1>7, <1>8, <2>1, <2>2 DEF WorkersHold
<1>10. OperatorAlone'
  BY <1>1, <1>4, <1>6, RemOpening DEF OperatorAlone
<1> QED
  BY <1>2, <1>3, <1>4, <1>5, <1>6, <1>9, <1>10

LEMMA RemOpenSelection ==
  ASSUME RemFacts, NEW h \in Handlers, OpenSelection(h)
  PROVE  RemFacts'
<1>1. at[h] = "openOrder" /\ Working(h) /\ ClockSame /\ ToldSame /\ JobDone(h)
  BY DEF OpenSelection, Working
<1>2. errand[h].job = "open"
  BY <1>1, WorkerHas DEF WorksOn
<1>3. CASE ~Recruiting
  <2>1. OrderSame
    BY <1>3 DEF OpenSelection
  <2>2. reminded' = reminded /\ asked' = asked
    BY <1>1 DEF ToldSame
  <2>3. "open" \notin RemindedCasts
    BY ReminderAssumption
  <2> QED
    BY <1>1, <1>2, <1>3, <2>1, <2>2, <2>3, JobIsDone
<1>4. CASE Recruiting
  <2>1. /\ phase' \in {"scheduled", "not_enough_cast_fail"}
        /\ phase' = "scheduled" => \A c \in RemindedCasts : seat'[c] # "unconfirmed"
        /\ phase' # "scheduled" => seat' = seat
        /\ seat' \in [RemindedCasts -> {"none", "unconfirmed", "attending", "out"}]
        /\ UNCHANGED <<needed, timing, arrivedAt, gone>>
    <3>1. CASE Cardinality(With("unconfirmed")) < needed
      <4>1. phase' = "not_enough_cast_fail" /\ UNCHANGED <<needed, timing, seat, arrivedAt, gone>>
        BY <1>4, <3>1 DEF OpenSelection
      <4>2. seat \in [RemindedCasts -> {"none", "unconfirmed", "attending", "out"}]
        BY DEF RemFacts, RemTyped
      <4> QED
        BY <4>1, <4>2
    <3>2. CASE ~(Cardinality(With("unconfirmed")) < needed)
      <4>1. PICK S \in SUBSET With("unconfirmed") : Match(S)
        BY <1>4, <3>2 DEF OpenSelection
      <4> QED
        BY <1>4, <4>1, MatchSeats
    <3> QED
      BY <3>1, <3>2
  <2>2. /\ reminded' = reminded /\ asked' = asked /\ time' = time /\ nag' = nag /\ late' = late
    BY <1>1 DEF ToldSame, ClockSame
  <2>3. /\ queue' \in [Jobs -> QueueEntry] /\ at' \in [Handlers -> RemLabels]
        /\ errand' \in [Handlers -> Errands] /\ faults' = faults
        /\ WorkersHold' /\ OperatorAlone'
        /\ queue'["open"].state = "kept" /\ queue["open"].state = "running"
        /\ \A i \in Jobs : i # "open" => queue'[i] = queue[i]
        /\ at'[h] = "idle"
        /\ \A g \in Handlers : g # h => at'[g] = at[g] /\ errand'[g] = errand[g]
    BY <1>1, <1>2, <2>1, <2>2, OtherJobDone
  <2>4. RemTyped'
    BY <2>1, <2>2, <2>3 DEF RemFacts, RemTyped, OrderPhases
  <2>5. queue'["open"].state = "none" <=> queue["open"].state = "none"
    BY <2>3
  <2>6. \A g \in Handlers : (at'[g] = at[g] /\ errand'[g] = errand[g]) \/ at'[g] = "idle"
    BY <2>3
  <2> QED
    BY <1>4, <2>1, <2>2, <2>3, <2>4, <2>5, <2>6, SelectionEnds
<1> QED
  BY <1>3, <1>4

LEMMA RemAskForReview ==
  ASSUME RemFacts, NEW h \in Handlers, AskForReview(h)
  PROVE  RemFacts'
<1>1. at[h] = "askReview" /\ Working(h) /\ ClockSame /\ OrderSame /\ JobDone(h) /\ reminded' = reminded
  BY DEF AskForReview, Working
<1>2. errand[h].job = "review" /\ queue["review"].state = "running"
  BY <1>1, WorkerHas DEF WorksOn
<1>3. phase = "finished"
  BY <1>2 DEF RemFacts, ReviewJobs
<1>4. asked' = asked \cup {"guest"} \cup {c \in RemindedCasts : seat[c] \notin {"none", "out"}}
  BY <1>3 DEF AskForReview
<1>5. {c \in RemindedCasts : seat[c] \notin {"none", "out"}} = With("attending")
  <2>1. \A c \in RemindedCasts : seat[c] \in {"none", "attending", "out"}
    BY <1>3 DEF RemFacts, RemTyped, SeatsFollow
  <2> QED
    BY <2>1 DEF With
<1>6. asked' = {"guest"} \cup With("attending")
  <2>1. asked \in {{}, {"guest"} \cup With("attending")}
    BY DEF RemFacts, ReviewJobs
  <2> QED
    BY <1>4, <1>5, <2>1
<1>7. "review" \notin RemindedCasts
  BY ReminderAssumption
<1> QED
  BY <1>1, <1>2, <1>3, <1>6, <1>7, JobIsDone

-----------------------------------------------------------------------------
(* Requests *)

\* A job is added, not before now, unless the queue holds it.
LEMMA AddsJob ==
  ASSUME RemTyped, NEW j \in Jobs, NEW t \in Int, Add(j, t)
  PROVE  /\ queue' \in [Jobs -> QueueEntry]
         /\ \A i \in Jobs : i # j => queue'[i] = queue[i]
         /\ queue[j].state # "none" => queue'[j] = queue[j]
         /\ queue[j].state = "none" =>
               /\ queue'[j].state = "delayed" /\ queue'[j].at = MaxOfTwo(t, time)
               /\ queue'[j].at >= time
<1>1. PICK q : q = [NoJob EXCEPT !.state = "delayed", !.at = IF t < time THEN time ELSE t]
  OBVIOUS
<1>2. time \in Int /\ queue \in [Jobs -> QueueEntry]
  BY DEF RemTyped
<1>3. q \in QueueEntry /\ q.state = "delayed" /\ q.at = MaxOfTwo(t, time)
  BY <1>1, <1>2 DEF NoJob, QueueEntry, MaxOfTwo
<1>4. queue' = IF queue[j].state = "none" THEN [queue EXCEPT ![j] = q] ELSE queue
  BY <1>1 DEF Add
<1>5. MaxOfTwo(t, time) >= time
  BY <1>2 DEF MaxOfTwo
<1> QED
  BY <1>2, <1>3, <1>4, <1>5

\* The workers have what they had.
LEMMA WorkersStay ==
  ASSUME WorkersHold, time' = time, reminded' = reminded,
         \A j \in Jobs : \/ queue'[j] = queue[j]
                         \/ /\ queue[j].state # "running" /\ queue'[j].state # "running"
                            /\ queue'[j].state = "delayed" => queue'[j].at >= time,
         \A g \in Handlers : \/ at'[g] = at[g] /\ errand'[g] = errand[g]
                             \/ ~Working(g) /\ ~Working(g)'
  PROVE  WorkersHold'
<1>1. \A g \in Handlers : /\ Working(g)' <=> Working(g)
                          /\ Working(g) => at'[g] = at[g] /\ errand'[g] = errand[g]
  BY DEF Working
<1>2. \A j \in Jobs : /\ queue'[j].state = "running" <=> queue[j].state = "running"
                      /\ queue[j].state = "running" => queue'[j] = queue[j]
                      /\ queue'[j].state = "delayed" => queue'[j].at >= time'
  BY DEF WorkersHold
<1>3. \A j \in Jobs : queue'[j].state = "running" => \E g \in Handlers : Working(g)' /\ errand'[g].job = j
  <2> SUFFICES ASSUME NEW j \in Jobs, queue'[j].state = "running"
               PROVE  \E g \in Handlers : Working(g)' /\ errand'[g].job = j
    OBVIOUS
  <2>1. PICK g \in Handlers : Working(g) /\ errand[g].job = j
    BY <1>2 DEF WorkersHold
  <2> QED
    BY <1>1, <2>1
<1>4. \A g \in Handlers : Working(g)' =>
          /\ errand'[g].job \in Jobs /\ WorksOn(at'[g], errand'[g].job)
          /\ queue'[errand'[g].job].state = "running"
          /\ at'[g] = "sent" => reminded'[errand'[g].job].times > 0
  BY <1>1, <1>2 DEF WorkersHold
<1>5. \A f, g \in Handlers : f # g /\ Working(f)' /\ Working(g)' => errand'[f].job # errand'[g].job
  BY <1>1 DEF WorkersHold
<1> QED
  BY <1>2, <1>3, <1>4, <1>5 DEF WorkersHold

\* A request goes on, and may add or remove jobs that nobody works on.
LEMMA RequestStep ==
  ASSUME RemFacts, OrderSame, ToldSame, ClockSame, faults' = faults, phase # "new",
         NEW h \in Handlers, ~Working(h), ~Working(h)',
         at' \in [Handlers -> RemLabels], errand' \in [Handlers -> Errands],
         \A g \in Handlers : g # h => at'[g] = at[g] /\ errand'[g] = errand[g],
         at[h] \in {"addEnd", "begin"} => at'[h] \in {"addEnd", "begin"},
         queue' \in [Jobs -> QueueEntry], queue'["review"] = queue["review"],
         \A j \in Jobs : \/ queue'[j] = queue[j]
                         \/ /\ queue[j].state # "running" /\ queue'[j].state \in {"none", "delayed"}
                            /\ queue'[j].state = "delayed" => queue'[j].at >= time
                            /\ j \in RemindedCasts => queue[j].state \in {"none", "delayed"}
  PROVE  /\ RemTyped' /\ WorkersHold' /\ SeatsFollow' /\ SentOnce' /\ ReviewJobs' /\ NagKnown'
         /\ (RealSelection' <=> RealSelection) /\ (Recruiting' <=> Recruiting)
         /\ \A t, d, a : OnTime(t, d, a)' <=> OnTime(t, d, a)
         /\ \A c \in RemindedCasts : RemindTime(c, timing)' = RemindTime(c, timing)
         /\ needed' = needed /\ timing' = timing /\ phase' = phase
         /\ seat' = seat /\ arrivedAt' = arrivedAt /\ gone' = gone /\ reminded' = reminded
         /\ asked' = asked /\ time' = time /\ nag' = nag /\ late' = late
<1>1. /\ RemTyped /\ WorkersHold /\ OperatorAlone /\ RequestsKnow /\ SeatsFollow
      /\ CastJobs /\ EndMoves /\ SentOnce /\ SelectionJobs /\ ReviewJobs
  BY DEF RemFacts
<1>2. /\ needed' = needed /\ timing' = timing /\ phase' = phase
      /\ seat' = seat /\ arrivedAt' = arrivedAt /\ gone' = gone /\ reminded' = reminded
      /\ asked' = asked /\ time' = time /\ nag' = nag /\ late' = late
  BY DEF OrderSame, ToldSame, ClockSame
<1>3. RemTyped'
  BY <1>1, <1>2 DEF RemTyped
<1>4. WorkersHold'
  <2>1. \A g \in Handlers : \/ at'[g] = at[g] /\ errand'[g] = errand[g]
                            \/ ~Working(g) /\ ~Working(g)'
    OBVIOUS
  <2>2. \A j \in Jobs : \/ queue'[j] = queue[j]
                        \/ /\ queue[j].state # "running" /\ queue'[j].state # "running"
                           /\ queue'[j].state = "delayed" => queue'[j].at >= time
    OBVIOUS
  <2> QED
    BY <1>1, <1>2, <2>1, <2>2, WorkersStay
<1>5. SeatsFollow'
  <2>1. ASSUME NEW c \in RemindedCasts, phase = "scheduled", arrivedAt[c] # Never
        PROVE  \E g \in Handlers : at'[g] \in {"addEnd", "begin"}
    BY <1>1, <2>1 DEF SeatsFollow
  <2> QED
    BY <1>1, <1>2, <2>1 DEF SeatsFollow
<1>6. SentOnce'
  <2>1. \A g \in Handlers : /\ Working(g)' <=> Working(g)
                            /\ Working(g) => at'[g] = at[g] /\ errand'[g] = errand[g]
    BY DEF Working
  <2>2. \A c \in RemindedCasts : queue'[c].state \in {"none", "delayed"} => queue[c].state \in {"none", "delayed"}
    BY RemOpening
  <2> QED
    BY <1>1, <1>2, <2>1, <2>2 DEF SentOnce, MaxOfTwo
<1>7. With("attending")' = With("attending")
  BY <1>2 DEF With
<1>8. ReviewJobs'
  BY <1>1, <1>2, <1>7 DEF ReviewJobs
<1>9. NagKnown'
  BY <1>1, <1>2 DEF SelectionJobs, NagKnown
<1>10. (RealSelection' <=> RealSelection) /\ (Recruiting' <=> Recruiting)
  BY <1>2 DEF RealSelection, Recruiting, With
<1>11. \A t, d, a : OnTime(t, d, a)' <=> OnTime(t, d, a)
  BY <1>2 DEF OnTime
<1>12. \A c \in RemindedCasts : RemindTime(c, timing)' = RemindTime(c, timing)
  BY <1>2 DEF RemindTime
<1> QED
  BY <1>2, <1>3, <1>4, <1>5, <1>6, <1>8, <1>9, <1>10, <1>11, <1>12

SelectionLabels == {"addOpen", "addSelection", "dropOpen", "addOpenAgain", "addSelectionAgain"}

\* A request that has to do with the selection's jobs goes on.
LEMMA SelectionRequest ==
  ASSUME RemFacts, OrderSame, ToldSame, ClockSame, faults' = faults,
         NEW h \in Handlers, at[h] \in SelectionLabels, at'[h] \in SelectionLabels \cup {"idle"},
         at' \in [Handlers -> RemLabels], errand' \in [Handlers -> Errands],
         \A g \in Handlers : g # h => at'[g] = at[g] /\ errand'[g] = errand[g],
         errand'[h] = errand[h] \/ (at'[h] = "idle" /\ errand'[h] = NoErrand),
         at'[h] # "idle" => (at'[h] \in OperatorLabels <=> at[h] \in OperatorLabels),
         at'[h] = "idle" => errand'[h] = NoErrand,
         queue' \in [Jobs -> QueueEntry],
         \A j \in Jobs : j \notin {"open", "selection"} => queue'[j] = queue[j],
         \A j \in Jobs : \/ queue'[j] = queue[j]
                         \/ /\ queue[j].state # "running" /\ queue'[j].state \in {"none", "delayed"}
                            /\ queue'[j].state = "delayed" => queue'[j].at >= time,
         at'[h] \in {"addOpen", "addOpenAgain"} => queue'["open"].state = "none",
         at'[h] \in {"addOpen", "addSelection", "addOpenAgain", "addSelectionAgain"}
           => queue'["selection"].state = "none",
         at'[h] = "idle" /\ time < timing.closes - SelectionLead
           => /\ queue'["selection"].state = "delayed"
              /\ queue'["selection"].at = timing.closes - SelectionLead,
         at'[h] \notin NoOpenYet
           => \/ queue'["open"].state = "delayed"
                 /\ (queue'["open"].at <= timing.closes \/ queue'["open"].at <= time)
              \/ at[h] \notin NoOpenYet /\ queue'["open"] = queue["open"]
  PROVE  RemFacts'
<1>1. /\ RemTyped /\ WorkersHold /\ OperatorAlone /\ RequestsKnow /\ SeatsFollow
      /\ CastJobs /\ EndMoves /\ SentOnce /\ SelectionJobs /\ ReviewJobs
  BY DEF RemFacts
<1>2. phase # "new" /\ ~Working(h) /\ ~Working(h)' /\ at[h] \notin {"addEnd", "begin"}
  BY <1>1 DEF SelectionLabels, Working, SeatsFollow
<1>3. \A c \in RemindedCasts : c \in Jobs /\ queue'[c] = queue[c] /\ c \notin {"open", "selection"}
  BY RemOpening, ReminderAssumption
<1>4. queue'["review"] = queue["review"] /\ "open" \in Jobs /\ "selection" \in Jobs
  BY RemOpening
<1>5. \A j \in Jobs : \/ queue'[j] = queue[j]
                      \/ /\ queue[j].state # "running" /\ queue'[j].state \in {"none", "delayed"}
                         /\ queue'[j].state = "delayed" => queue'[j].at >= time
                         /\ j \in RemindedCasts => queue[j].state \in {"none", "delayed"}
  BY <1>3
<1>6. /\ RemTyped' /\ WorkersHold' /\ SeatsFollow' /\ SentOnce' /\ ReviewJobs' /\ NagKnown'
      /\ (RealSelection' <=> RealSelection) /\ (Recruiting' <=> Recruiting)
      /\ \A t, d, a : OnTime(t, d, a)' <=> OnTime(t, d, a)
      /\ \A c \in RemindedCasts : RemindTime(c, timing)' = RemindTime(c, timing)
      /\ needed' = needed /\ timing' = timing /\ phase' = phase
      /\ seat' = seat /\ arrivedAt' = arrivedAt /\ gone' = gone /\ reminded' = reminded
      /\ asked' = asked /\ time' = time /\ nag' = nag /\ late' = late
  BY <1>2, <1>4, <1>5, RequestStep
<1>7. OperatorAlone'
  <2>1. at'[h] \in OperatorLabels => at[h] \in OperatorLabels /\ errand'[h] = errand[h]
    BY <1>1, RemOpening DEF OperatorLabels, OperatorAlone
  <2>2. errand'[h].operator => at'[h] \in OperatorLabels
    BY <1>1, RemOpening DEF OperatorAlone
  <2>3. ASSUME NEW g \in Handlers, g # h, at[g] \in OperatorLabels PROVE FALSE
    BY <1>1, <2>3 DEF OperatorAlone, SelectionLabels
  <2> QED
    BY <1>1, <1>6, <2>1, <2>2, <2>3 DEF OperatorAlone
<1>8. RequestsKnow'
  <2>1. ASSUME NEW g \in Handlers
        PROVE  /\ at'[g] \in ArriveLabels \cup (OperatorLabels \ {"readTimes"}) \cup {"addOpen", "addSelection"}
                  => errand'[g].timing = timing
               /\ at'[g] \in ArriveLabels => g # h
               /\ at'[g] = "addEnds" => g # h
    BY <1>1, RemOpening DEF RequestsKnow, SelectionLabels, ArriveLabels, OperatorLabels
  <2>2. ASSUME NEW g \in Handlers, g # h, at[g] \in {"addOpen", "addSelection", "addOpenAgain", "addSelectionAgain"}
        PROVE  FALSE
    <3>1. at[g] \notin OperatorLabels /\ at[h] \notin OperatorLabels
      BY <1>1, <2>2 DEF OperatorAlone, SelectionLabels
    <3>2. at[g] \in {"addOpen", "addSelection"} /\ at[h] \in {"addOpen", "addSelection"}
      BY <2>2, <3>1 DEF OperatorLabels, SelectionLabels
    <3> QED
      BY <1>1, <2>2, <3>2 DEF RequestsKnow
  <2> QED
    BY <1>1, <1>6, <2>1, <2>2 DEF RequestsKnow, SelectionLabels, ArriveLabels
<1>9. CastJobs'
  <2>1. Unread' <=> Unread
    BY DEF Unread, SelectionLabels
  <2> QED
    BY <1>1, <1>3, <1>6, <2>1 DEF CastJobs, SelectionLabels
<1>10. EndMoves'
  BY <1>1, <1>6 DEF EndMoves, SelectionLabels
<1>11. SelectionAwaits'
  <2>1. \A g \in Handlers : g # h => at'[g] = at[g]
    OBVIOUS
  <2>2. at'[h] \notin NoSelectionYet => at'[h] = "idle"
    BY DEF NoSelectionYet, SelectionLabels
  <2> QED
    BY <1>6, <2>2 DEF SelectionAwaits
<1>12. ChoiceReminded'
  <2> SUFFICES ASSUME nag, phase = "cast_selectable", "selection" \notin late
               PROVE  /\ \A g \in Handlers : at'[g] \notin OperatorLabels
                      /\ reminded["selection"].times > 0 \/ queue'["selection"].state = "failed"
    BY <1>6 DEF ChoiceReminded
  <2>1. /\ \A g \in Handlers : at[g] \notin OperatorLabels
        /\ \/ reminded["selection"].times > 0
           \/ queue["selection"].state = "failed"
           \/ queue["selection"].state = "delayed"
           \/ queue["selection"].state = "running"
    BY <1>1 DEF SelectionJobs, ChoiceReminded
  <2>2. at[h] \in {"addOpen", "addSelection"}
    BY <2>1 DEF OperatorLabels, SelectionLabels
  <2>3. queue["selection"].state = "none"
    BY <1>1, <2>2 DEF RequestsKnow
  <2>4. reminded["selection"].times > 0
    BY <2>1, <2>3
  <2>5. \A g \in Handlers : at'[g] \notin OperatorLabels
    BY <2>1 DEF OperatorLabels
  <2> QED
    BY <2>4, <2>5
<1>13. OpenAwaits'
  <2>1. CASE queue'["open"].state = "delayed"
              /\ (queue'["open"].at <= timing.closes \/ queue'["open"].at <= time)
    BY <1>6, <2>1 DEF OpenAwaits
  <2>2. CASE at[h] \notin NoOpenYet /\ queue'["open"] = queue["open"]
    <3>1. (\A g \in Handlers : at'[g] \notin NoOpenYet) => (\A g \in Handlers : at[g] \notin NoOpenYet)
      BY <2>2
    <3> QED
      BY <1>1, <1>6, <2>2, <3>1 DEF SelectionJobs, OpenAwaits
  <2>3. CASE at'[h] \in NoOpenYet
    BY <2>3 DEF OpenAwaits
  <2> QED
    BY <2>1, <2>2, <2>3
<1> QED
  BY <1>6, <1>7, <1>8, <1>9, <1>10, <1>11, <1>12, <1>13 DEF RemFacts, SelectionJobs

\* A handler of a request goes on, or ends.
LEMMA RequestMoves ==
  ASSUME RemTyped, NEW h \in Handlers, NEW l \in RemLabels,
         Continue(h, l) /\ (errand' = errand \/ Run(h, NoErrand))
  PROVE  /\ at' \in [Handlers -> RemLabels] /\ errand' \in [Handlers -> Errands] /\ faults' = faults
         /\ at'[h] = l /\ \A g \in Handlers : g # h => at'[g] = at[g] /\ errand'[g] = errand[g]
         /\ errand' = errand \/ errand'[h] = NoErrand
BY RemOpening DEF RemTyped, Continue, Goto, Run

LEMMA RemEnqueueOpen ==
  ASSUME RemFacts, NEW h \in Handlers, EnqueueOpen(h)
  PROVE  RemFacts'
<1>1. RemTyped /\ RequestsKnow
  BY DEF RemFacts
<1>2. /\ at[h] = "addOpen" /\ OrderSame /\ ClockSame /\ ToldSame
      /\ Continue(h, "addSelection") /\ errand' = errand
  BY DEF EnqueueOpen
<1>3. errand[h].timing = timing /\ queue["open"].state = "none" /\ queue["selection"].state = "none"
  BY <1>1, <1>2 DEF RequestsKnow
<1>4. PICK t \in Int : t = timing.closes
  BY <1>1 DEF RemTyped, Timings
<1>5. Add("open", t)
  BY <1>3, <1>4 DEF EnqueueOpen
<1>6. "open" \in Jobs
  BY RemOpening
<1>7. /\ queue' \in [Jobs -> QueueEntry]
      /\ \A i \in Jobs : i # "open" => queue'[i] = queue[i]
      /\ queue'["open"].state = "delayed" /\ queue'["open"].at = MaxOfTwo(t, time)
      /\ queue'["open"].at >= time
  BY <1>1, <1>3, <1>5, <1>6, AddsJob
<1>8. queue'["open"].at <= timing.closes \/ queue'["open"].at <= time
  BY <1>1, <1>4, <1>7 DEF MaxOfTwo, RemTyped
<1>9. "addSelection" \in RemLabels
  BY DEF RemLabels
<1>10. /\ at' \in [Handlers -> RemLabels] /\ errand' \in [Handlers -> Errands] /\ faults' = faults
       /\ at'[h] = "addSelection" /\ \A g \in Handlers : g # h => at'[g] = at[g] /\ errand'[g] = errand[g]
  BY <1>1, <1>2, <1>9, RequestMoves
<1>11. "selection" \in Jobs /\ queue'["selection"].state = "none"
  BY <1>3, <1>7, RemOpening
<1>12. at[h] \in SelectionLabels /\ at'[h] \in SelectionLabels
       /\ (at'[h] \in OperatorLabels <=> at[h] \in OperatorLabels) /\ at'[h] # "idle"
  BY <1>2, <1>10 DEF SelectionLabels, OperatorLabels
<1>13. \A j \in Jobs : \/ queue'[j] = queue[j]
                       \/ /\ queue[j].state # "running" /\ queue'[j].state \in {"none", "delayed"}
                          /\ queue'[j].state = "delayed" => queue'[j].at >= time
  BY <1>3, <1>7
<1> QED
  BY <1>2, <1>7, <1>8, <1>10, <1>11, <1>12, <1>13, SelectionRequest

LEMMA RemAddOpenAgain ==
  ASSUME RemFacts, NEW h \in Handlers, AddOpenAgain(h)
  PROVE  RemFacts'
<1>1. RemTyped /\ RequestsKnow
  BY DEF RemFacts
<1>2. /\ at[h] = "addOpenAgain" /\ OrderSame /\ ClockSame /\ ToldSame
      /\ Continue(h, "addSelectionAgain") /\ errand' = errand
  BY DEF AddOpenAgain
<1>3. errand[h].timing = timing /\ queue["open"].state = "none" /\ queue["selection"].state = "none"
  BY <1>1, <1>2 DEF RequestsKnow, OperatorLabels
<1>4. PICK t \in Int : t = timing.closes
  BY <1>1 DEF RemTyped, Timings
<1>5. Add("open", t)
  BY <1>3, <1>4 DEF AddOpenAgain
<1>6. "open" \in Jobs
  BY RemOpening
<1>7. /\ queue' \in [Jobs -> QueueEntry]
      /\ \A i \in Jobs : i # "open" => queue'[i] = queue[i]
      /\ queue'["open"].state = "delayed" /\ queue'["open"].at = MaxOfTwo(t, time)
      /\ queue'["open"].at >= time
  BY <1>1, <1>3, <1>5, <1>6, AddsJob
<1>8. queue'["open"].at <= timing.closes \/ queue'["open"].at <= time
  BY <1>1, <1>4, <1>7 DEF MaxOfTwo, RemTyped
<1>9. "addSelectionAgain" \in RemLabels
  BY DEF RemLabels
<1>10. /\ at' \in [Handlers -> RemLabels] /\ errand' \in [Handlers -> Errands] /\ faults' = faults
       /\ at'[h] = "addSelectionAgain"
       /\ \A g \in Handlers : g # h => at'[g] = at[g] /\ errand'[g] = errand[g]
  BY <1>1, <1>2, <1>9, RequestMoves
<1>11. "selection" \in Jobs /\ queue'["selection"].state = "none"
  BY <1>3, <1>7, RemOpening
<1>12. at[h] \in SelectionLabels /\ at'[h] \in SelectionLabels
       /\ (at'[h] \in OperatorLabels <=> at[h] \in OperatorLabels) /\ at'[h] # "idle"
  BY <1>2, <1>10 DEF SelectionLabels, OperatorLabels
<1>13. \A j \in Jobs : \/ queue'[j] = queue[j]
                       \/ /\ queue[j].state # "running" /\ queue'[j].state \in {"none", "delayed"}
                          /\ queue'[j].state = "delayed" => queue'[j].at >= time
  BY <1>3, <1>7
<1> QED
  BY <1>2, <1>7, <1>8, <1>10, <1>11, <1>12, <1>13, SelectionRequest

\* The request that adds the reminder of the selection is through.
LEMMA SelectionRequestEnds ==
  ASSUME RemFacts, OrderSame, ToldSame, ClockSame, NEW h \in Handlers,
         at[h] \in {"addSelection", "addSelectionAgain"}, RequestEnds(h),
         \/ Add("selection", timing.closes - SelectionLead)
         \/ queue' = queue /\ ~(timing.closes - SelectionLead > time)
  PROVE  RemFacts'
<1>1. RemTyped /\ RequestsKnow
  BY DEF RemFacts
<1>2. Continue(h, "idle") /\ Run(h, NoErrand)
  BY DEF RequestEnds, End
<1>3. queue["selection"].state = "none" /\ "selection" \in Jobs
  BY <1>1, RemOpening DEF RequestsKnow
<1>4. PICK t \in Int : t = timing.closes - SelectionLead
  BY <1>1, ReminderAssumption DEF RemTyped, Timings
<1>5. /\ queue' \in [Jobs -> QueueEntry]
      /\ \A i \in Jobs : i # "selection" => queue'[i] = queue[i]
      /\ \/ /\ queue'["selection"].state = "delayed" /\ queue'["selection"].at = MaxOfTwo(t, time)
            /\ queue'["selection"].at >= time
         \/ queue' = queue /\ ~(t > time)
  <2>1. CASE Add("selection", t)
    BY <1>1, <1>3, <2>1, AddsJob
  <2>2. CASE queue' = queue /\ ~(t > time)
    BY <1>1, <2>2 DEF RemTyped
  <2> QED
    BY <1>4, <2>1, <2>2
<1>6. time < timing.closes - SelectionLead
      => queue'["selection"].state = "delayed" /\ queue'["selection"].at = timing.closes - SelectionLead
  BY <1>1, <1>4, <1>5 DEF MaxOfTwo, RemTyped
<1>7. "idle" \in RemLabels
  BY DEF RemLabels
<1>8. /\ at' \in [Handlers -> RemLabels] /\ errand' \in [Handlers -> Errands] /\ faults' = faults
      /\ at'[h] = "idle" /\ errand'[h] = NoErrand
      /\ \A g \in Handlers : g # h => at'[g] = at[g] /\ errand'[g] = errand[g]
  BY <1>1, <1>2, <1>7, RemOpening DEF RemTyped, Continue, Goto, Run
<1>9. "open" \in Jobs /\ queue'["open"] = queue["open"]
  BY <1>5, RemOpening
<1>10. at[h] \in SelectionLabels /\ at[h] \notin NoOpenYet
  BY DEF SelectionLabels, NoOpenYet
<1>11. \A j \in Jobs : \/ queue'[j] = queue[j]
                       \/ /\ queue[j].state # "running" /\ queue'[j].state \in {"none", "delayed"}
                          /\ queue'[j].state = "delayed" => queue'[j].at >= time
  BY <1>3, <1>5
<1> QED
  BY <1>5, <1>6, <1>8, <1>9, <1>10, <1>11, SelectionRequest

LEMMA RemEnqueueRemindSelectionEnd ==
  ASSUME RemFacts, NEW h \in Handlers, EnqueueRemindSelectionEnd(h)
  PROVE  RemFacts'
<1>1. at[h] = "addSelection" /\ OrderSame /\ ClockSame /\ ToldSame /\ RequestEnds(h)
  BY DEF EnqueueRemindSelectionEnd
<1>2. errand[h].timing = timing
  BY <1>1 DEF RemFacts, RequestsKnow
<1>3. Add("selection", timing.closes - SelectionLead)
  BY <1>2 DEF EnqueueRemindSelectionEnd
<1> QED
  BY <1>1, <1>3, SelectionRequestEnds

LEMMA RemAddSelectionAgain ==
  ASSUME RemFacts, NEW h \in Handlers, AddSelectionAgain(h)
  PROVE  RemFacts'
<1>1. at[h] = "addSelectionAgain" /\ OrderSame /\ ClockSame /\ ToldSame /\ RequestEnds(h)
  BY DEF AddSelectionAgain
<1>2. errand[h].timing = timing
  BY <1>1 DEF RemFacts, RequestsKnow, OperatorLabels
<1>3. \/ Add("selection", timing.closes - SelectionLead)
      \/ queue' = queue /\ ~(timing.closes - SelectionLead > time)
  BY <1>2 DEF AddSelectionAgain
<1> QED
  BY <1>1, <1>3, SelectionRequestEnds

LEMMA RemovesJobs ==
  ASSUME RemTyped, NEW js, NEW states, Remove(js, states), states \subseteq {"delayed", "kept", "failed"}
  PROVE  /\ queue' \in [Jobs -> QueueEntry]
         /\ \A j \in Jobs : \/ queue'[j] = queue[j] /\ (j \notin js \/ queue[j].state \notin states)
                            \/ /\ j \in js /\ queue[j].state \in states /\ queue[j].state # "running"
                               /\ queue'[j].state = "none"
<1>1. queue' = [j \in Jobs |-> IF j \in js /\ queue[j].state \in states THEN NoJob ELSE queue[j]]
  BY DEF Remove
<1> QED
  BY <1>1, RemOpening DEF RemTyped

LEMMA RemRemoveSelectionJobs ==
  ASSUME RemFacts, NEW h \in Handlers, RemoveSelectionJobs(h)
  PROVE  RemFacts'
<1>1. RemTyped /\ RequestsKnow /\ WorkersHold /\ OperatorAlone
  BY DEF RemFacts
<1>2. /\ at[h] = "dropOpen" /\ OrderSame /\ ClockSame /\ ToldSame
      /\ Continue(h, "addOpenAgain") /\ errand' = errand
      /\ Remove({"open", "selection"}, {"delayed", "kept", "failed"})
  BY DEF RemoveSelectionJobs
<1>3. /\ queue' \in [Jobs -> QueueEntry]
      /\ \A j \in Jobs : \/ /\ queue'[j] = queue[j]
                            /\ j \notin {"open", "selection"} \/ queue[j].state \notin {"delayed", "kept", "failed"}
                         \/ /\ j \in {"open", "selection"} /\ queue[j].state # "running"
                            /\ queue'[j].state = "none"
  BY <1>1, <1>2, RemovesJobs
<1>4. \A j \in Jobs : queue[j].state # "running" /\ queue[j].state \in {"none", "delayed", "running", "kept", "failed"}
  <2>1. \A g \in Handlers : ~Working(g)
    BY <1>1, <1>2 DEF OperatorAlone, OperatorLabels, Working
  <2> QED
    BY <1>1, <2>1 DEF WorkersHold, RemTyped, QueueEntry
<1>5. "addOpenAgain" \in RemLabels
  BY DEF RemLabels
<1>6. /\ at' \in [Handlers -> RemLabels] /\ errand' \in [Handlers -> Errands] /\ faults' = faults
      /\ at'[h] = "addOpenAgain" /\ \A g \in Handlers : g # h => at'[g] = at[g] /\ errand'[g] = errand[g]
  BY <1>1, <1>2, <1>5, RequestMoves
<1>7. "open" \in Jobs /\ "selection" \in Jobs
  BY RemOpening
<1>8. queue'["open"].state = "none" /\ queue'["selection"].state = "none"
  BY <1>3, <1>4, <1>7
<1>9. at[h] \in SelectionLabels /\ at'[h] \in SelectionLabels /\ at'[h] \in NoOpenYet
      /\ (at'[h] \in OperatorLabels <=> at[h] \in OperatorLabels) /\ at'[h] # "idle"
  BY <1>2, <1>6 DEF SelectionLabels, OperatorLabels, NoOpenYet
<1>10. \A j \in Jobs : \/ queue'[j] = queue[j]
                       \/ /\ queue[j].state # "running" /\ queue'[j].state \in {"none", "delayed"}
                          /\ queue'[j].state = "delayed" => queue'[j].at >= time
  BY <1>3
<1>11. \A j \in Jobs : j \notin {"open", "selection"} => queue'[j] = queue[j]
  BY <1>3
<1> QED
  BY <1>2, <1>3, <1>6, <1>8, <1>9, <1>10, <1>11, SelectionRequest

EndLabels == {"idle", "setStart", "addEnd", "begin", "dropEnds", "findArrived", "addEnds"}

\* A request that has to do with the casts' jobs goes on.
LEMMA EndRequest ==
  ASSUME RemFacts, OrderSame, ToldSame, ClockSame, faults' = faults, phase # "new",
         NEW h \in Handlers, at[h] \in EndLabels, at'[h] \in EndLabels,
         at' \in [Handlers -> RemLabels], errand' \in [Handlers -> Errands],
         \A g \in Handlers : g # h => at'[g] = at[g] /\ errand'[g] = errand[g],
         at'[h] \in OperatorLabels => at[h] \in OperatorLabels /\ errand'[h].operator,
         at'[h] \notin OperatorLabels => ~errand'[h].operator,
         at[h] = "idle" => \A g \in Handlers : at[g] \notin OperatorLabels,
         at[h] \in {"addEnd", "begin"} => at'[h] \in {"addEnd", "begin"},
         at'[h] \in ArriveLabels \cup OperatorLabels => errand'[h].timing = timing,
         at'[h] \in ArriveLabels =>
            /\ errand'[h].job \in RemindedCasts /\ seat[errand'[h].job] = "attending"
            /\ arrivedAt[errand'[h].job] \in {Never, time}
            /\ at'[h] # "setStart" => arrivedAt[errand'[h].job] = time,
         at'[h] = "addEnds" => \A c \in errand'[h].rest : arrivedAt[c] # Never,
         at'[h] \in {"dropEnds", "findArrived"} => at[h] \in {"dropEnds", "findArrived"},
         queue' \in [Jobs -> QueueEntry],
         \A j \in Jobs : j \notin RemindedCasts => queue'[j] = queue[j],
         \A j \in Jobs : \/ queue'[j] = queue[j]
                         \/ /\ queue[j].state \in {"none", "delayed"}
                            /\ queue'[j].state \in {"none", "delayed"}
                            /\ queue'[j].state = "delayed" => queue'[j].at >= time,
         CastJobs'
  PROVE  RemFacts'
<1>1. /\ RemTyped /\ WorkersHold /\ OperatorAlone /\ RequestsKnow /\ SeatsFollow
      /\ CastJobs /\ EndMoves /\ SentOnce /\ SelectionJobs /\ ReviewJobs
  BY DEF RemFacts
<1>2. ~Working(h) /\ ~Working(h)'
  BY DEF EndLabels, Working
<1>3. /\ queue'["review"] = queue["review"] /\ queue'["open"] = queue["open"]
      /\ queue'["selection"] = queue["selection"]
  BY RemOpening, ReminderAssumption
<1>4. \A j \in Jobs : \/ queue'[j] = queue[j]
                      \/ /\ queue[j].state # "running" /\ queue'[j].state \in {"none", "delayed"}
                         /\ queue'[j].state = "delayed" => queue'[j].at >= time
                         /\ j \in RemindedCasts => queue[j].state \in {"none", "delayed"}
  OBVIOUS
<1>5. /\ RemTyped' /\ WorkersHold' /\ SeatsFollow' /\ SentOnce' /\ ReviewJobs' /\ NagKnown'
      /\ (RealSelection' <=> RealSelection) /\ (Recruiting' <=> Recruiting)
      /\ \A t, d, a : OnTime(t, d, a)' <=> OnTime(t, d, a)
      /\ \A c \in RemindedCasts : RemindTime(c, timing)' = RemindTime(c, timing)
      /\ needed' = needed /\ timing' = timing /\ phase' = phase
      /\ seat' = seat /\ arrivedAt' = arrivedAt /\ gone' = gone /\ reminded' = reminded
      /\ asked' = asked /\ time' = time /\ nag' = nag /\ late' = late
  BY <1>2, <1>3, <1>4, RequestStep
<1>6. OperatorAlone'
  <2>1. ASSUME NEW g \in Handlers, g # h, at[g] \in OperatorLabels
        PROVE  at'[h] = "idle" /\ at[h] = "idle"
    BY <1>1, <2>1 DEF OperatorAlone
  <2> QED
    BY <1>1, <1>5, <2>1 DEF OperatorAlone
<1>7. RequestsKnow'
  BY <1>1, <1>3, <1>5 DEF RequestsKnow, EndLabels
<1>8. EndMoves'
  BY <1>1, <1>5 DEF EndMoves, EndLabels
<1>9. \A g \in Handlers : /\ at'[g] \in NoSelectionYet <=> at[g] \in NoSelectionYet
                          /\ at'[g] \in NoOpenYet <=> at[g] \in NoOpenYet
                          /\ at'[g] \in OperatorLabels => at[g] \in OperatorLabels
  BY DEF EndLabels, NoSelectionYet, NoOpenYet
<1>10. SelectionAwaits'
  BY <1>1, <1>3, <1>5, <1>9 DEF SelectionJobs, SelectionAwaits
<1>11. OpenAwaits'
  BY <1>1, <1>3, <1>5, <1>9 DEF SelectionJobs, OpenAwaits
<1>12. ChoiceReminded'
  BY <1>1, <1>3, <1>5, <1>9 DEF SelectionJobs, ChoiceReminded
<1> QED
  BY <1>5, <1>6, <1>7, <1>8, <1>10, <1>11, <1>12 DEF RemFacts, SelectionJobs

LEMMA RemArriveAtOrder ==
  ASSUME RemFacts, NEW h \in Handlers, ArriveAtOrder(h), ~torn'
  PROVE  RemFacts'
<1>1. /\ RemTyped /\ WorkersHold /\ OperatorAlone /\ RequestsKnow /\ SeatsFollow /\ CastJobs
  BY DEF RemFacts
<1>2. /\ at[h] = "idle" /\ at' = [at EXCEPT ![h] = "setStart"] /\ faults' = faults
      /\ OrderSame /\ ClockSame /\ ToldSame /\ queue' = queue
      /\ \A g \in Handlers : ~errand[g].operator
  BY DEF ArriveAtOrder, Begin, Deliver, Goto, Crossed
<1>3. PICK c \in RemindedCasts :
        /\ seat[c] = "attending" /\ phase \in {"scheduled", "in_progress"} /\ arrivedAt[c] = Never
        /\ Run(h, [NoErrand EXCEPT !.job = c, !.timing = timing])
  BY DEF ArriveAtOrder, With
<1>4. PICK e : e = [NoErrand EXCEPT !.job = c, !.timing = timing]
  OBVIOUS
<1>5. e \in Errands /\ e.job = c /\ e.timing = timing /\ ~e.operator
  BY <1>1, <1>4, RemOpening DEF Errands, RemTyped, NoErrand
<1>6. "setStart" \in RemLabels
  BY DEF RemLabels
<1>7. errand' = [errand EXCEPT ![h] = e]
  BY <1>3, <1>4 DEF Run
<1>8. /\ at' \in [Handlers -> RemLabels] /\ errand' \in [Handlers -> Errands]
      /\ at'[h] = "setStart" /\ errand'[h] = e
      /\ \A g \in Handlers : g # h => at'[g] = at[g] /\ errand'[g] = errand[g]
  BY <1>1, <1>2, <1>5, <1>6, <1>7, RemMoves
<1>9. \A g \in Handlers : at[g] \notin OperatorLabels
  BY <1>1, <1>2 DEF OperatorAlone
<1>10. CastJobs'
  <2>1. /\ phase' = phase /\ arrivedAt' = arrivedAt /\ gone' = gone /\ reminded' = reminded
        /\ late' = late /\ timing' = timing /\ time' = time
    BY <1>2 DEF OrderSame, ToldSame, ClockSame
  <2>2. Unread' <=> Unread
    BY <1>2, <1>8 DEF Unread
  <2>3. \A t, d, a : OnTime(t, d, a)' <=> OnTime(t, d, a)
    BY <2>1 DEF OnTime
  <2>4. \A i \in RemindedCasts : RemindTime(i, timing)' = RemindTime(i, timing)
    BY <2>1 DEF RemindTime
  <2>5. \A g \in Handlers : at'[g] = "setStart" \/ (at'[g] = at[g] /\ errand'[g] = errand[g])
    BY <1>8
  <2>6. \A g \in Handlers : at[g] \in {"addEnd", "findArrived", "addEnds"} => at'[g] = at[g] /\ errand'[g] = errand[g]
    BY <1>2, <1>8
  <2> QED
    BY <1>1, <1>2, <2>1, <2>2, <2>3, <2>4, <2>5, <2>6 DEF CastJobs
<1>11. "setStart" \in EndLabels /\ "idle" \in EndLabels /\ "setStart" \notin OperatorLabels
  BY DEF EndLabels, OperatorLabels
<1>12. queue' \in [Jobs -> QueueEntry]
  BY <1>1, <1>2 DEF RemTyped
<1> QED
  BY <1>2, <1>3, <1>5, <1>8, <1>9, <1>10, <1>11, <1>12, EndRequest

LEMMA RemEnqueueRemindMeetingEnd ==
  ASSUME RemFacts, NEW h \in Handlers, EnqueueRemindMeetingEnd(h)
  PROVE  RemFacts'
<1>1. /\ RemTyped /\ WorkersHold /\ OperatorAlone /\ RequestsKnow /\ SeatsFollow /\ CastJobs
  BY DEF RemFacts
<1>2. /\ at[h] = "addEnd" /\ Continue(h, "begin") /\ errand' = errand
      /\ OrderSame /\ ClockSame /\ ToldSame
  BY DEF EnqueueRemindMeetingEnd
<1>3. PICK c \in RemindedCasts : c = errand[h].job
  BY <1>1, <1>2 DEF RequestsKnow, ArriveLabels
<1>4. /\ errand[h].timing = timing /\ seat[c] = "attending" /\ arrivedAt[c] = time
      /\ ~errand[h].operator /\ phase # "new"
  BY <1>1, <1>2, <1>3 DEF RequestsKnow, ArriveLabels, OperatorAlone, OperatorLabels, SeatsFollow
<1>5. PICK t \in Int : t = RemindTime(c, timing)
  BY <1>1, ReminderAssumption DEF RemTyped, Timings, RemindTime, Never
<1>6. Add(c, t)
  BY <1>3, <1>4, <1>5 DEF EnqueueRemindMeetingEnd
<1>7. c \in Jobs
  BY RemOpening
<1>8. /\ queue' \in [Jobs -> QueueEntry]
      /\ \A i \in Jobs : i # c => queue'[i] = queue[i]
      /\ queue[c].state # "none" => queue'[c] = queue[c]
      /\ queue[c].state = "none" =>
            /\ queue'[c].state = "delayed" /\ queue'[c].at = MaxOfTwo(t, time)
            /\ queue'[c].at >= time
  BY <1>1, <1>6, <1>7, AddsJob
<1>9. "begin" \in RemLabels
  BY DEF RemLabels
<1>10. /\ at' \in [Handlers -> RemLabels] /\ errand' \in [Handlers -> Errands] /\ faults' = faults
       /\ at'[h] = "begin" /\ \A g \in Handlers : g # h => at'[g] = at[g] /\ errand'[g] = errand[g]
  BY <1>1, <1>2, <1>9, RequestMoves
<1>11. /\ phase' = phase /\ arrivedAt' = arrivedAt /\ gone' = gone /\ reminded' = reminded
       /\ late' = late /\ timing' = timing /\ time' = time
  BY <1>2 DEF OrderSame, ToldSame, ClockSame
<1>12. CastJobs'
  <2>1. Unread' <=> Unread
    BY <1>2, <1>10 DEF Unread
  <2>2. \A d, e, a : OnTime(d, e, a)' <=> OnTime(d, e, a)
    BY <1>11 DEF OnTime
  <2>3. \A i \in RemindedCasts : RemindTime(i, timing)' = RemindTime(i, timing)
    BY <1>11 DEF RemindTime
  <2>4. OnTime(MaxOfTwo(t, time), t, time)
    BY <1>1 DEF OnTime, MaxOfTwo, RemTyped
  <2>5. time # Never
    BY <1>1, ReminderAssumption DEF RemTyped, Never
  <2>6. \A g \in Handlers : at'[g] \in {"findSeat", "tell"} <=> at[g] \in {"findSeat", "tell"}
    BY <1>2, <1>10
  <2>7. \A g \in Handlers : at[g] \in {"findArrived", "addEnds"} => at'[g] = at[g]
    BY <1>2, <1>10
  <2>8. \A g \in Handlers : at[g] = "addEnd" => at'[g] = "addEnd" \/ errand[g].job = c
    BY <1>3, <1>10
  <2>9. ASSUME NEW i \in RemindedCasts, i # c
        PROVE  /\ queue'[i] = queue[i]
               /\ \A g \in Handlers : at[g] = "addEnd" /\ errand[g].job = i => at'[g] = "addEnd"
    BY <1>8, <2>8, <2>9, RemOpening
  <2>10. \/ queue'[c] = queue[c] /\ queue[c].state # "none"
         \/ queue'[c].state = "delayed" /\ OnTime(queue'[c].at, RemindTime(c, timing), arrivedAt[c])
            /\ queue[c].state = "none"
    BY <1>4, <1>5, <1>8, <2>4
  <2>11. ASSUME NEW g \in Handlers, at[g] \in {"findSeat", "tell"}, errand[g].job = c
         PROVE  queue[c].state = "running"
    BY <1>1, <2>11 DEF WorkersHold, Working
  <2> QED
    BY <1>1, <1>2, <1>4, <1>11, <2>1, <2>2, <2>3, <2>5, <2>6, <2>7, <2>9, <2>10, <2>11 DEF CastJobs
<1>13. "begin" \in EndLabels /\ "addEnd" \in EndLabels /\ "begin" \notin OperatorLabels
  BY DEF EndLabels, OperatorLabels
<1>14. \A j \in Jobs : j \notin RemindedCasts => queue'[j] = queue[j]
  BY <1>8
<1>15. \A j \in Jobs : \/ queue'[j] = queue[j]
                       \/ /\ queue[j].state \in {"none", "delayed"}
                          /\ queue'[j].state \in {"none", "delayed"}
                          /\ queue'[j].state = "delayed" => queue'[j].at >= time
  BY <1>8
<1> QED
  BY <1>2, <1>3, <1>4, <1>8, <1>10, <1>12, <1>13, <1>14, <1>15, EndRequest

LEMMA RemRemoveEndJobs ==
  ASSUME RemFacts, NEW h \in Handlers, RemoveEndJobs(h)
  PROVE  RemFacts'
<1>1. /\ RemTyped /\ WorkersHold /\ OperatorAlone /\ RequestsKnow /\ SeatsFollow /\ CastJobs
  BY DEF RemFacts
<1>2. /\ at[h] = "dropEnds" /\ OrderSame /\ ClockSame /\ ToldSame
      /\ Continue(h, "findArrived") /\ errand' = errand
      /\ Remove(RemindedCasts, {"delayed"})
  BY DEF RemoveEndJobs
<1>3. /\ queue' \in [Jobs -> QueueEntry]
      /\ \A j \in Jobs : \/ queue'[j] = queue[j] /\ (j \notin RemindedCasts \/ queue[j].state \notin {"delayed"})
                         \/ /\ j \in RemindedCasts /\ queue[j].state \in {"delayed"}
                            /\ queue'[j].state = "none"
  BY <1>1, <1>2, RemovesJobs
<1>4. "findArrived" \in RemLabels
  BY DEF RemLabels
<1>5. /\ at' \in [Handlers -> RemLabels] /\ errand' \in [Handlers -> Errands] /\ faults' = faults
      /\ at'[h] = "findArrived" /\ \A g \in Handlers : g # h => at'[g] = at[g] /\ errand'[g] = errand[g]
  BY <1>1, <1>2, <1>4, RequestMoves
<1>6. /\ \A g \in Handlers : g # h => at[g] = "idle"
      /\ errand[h].operator /\ errand[h].timing = timing /\ phase # "new"
  BY <1>1, <1>2 DEF OperatorAlone, OperatorLabels, RequestsKnow, SeatsFollow
<1>7. \A j \in Jobs : queue[j].state # "running"
  <2>1. \A g \in Handlers : ~Working(g)
    BY <1>2, <1>6 DEF Working
  <2> QED
    BY <1>1, <2>1 DEF WorkersHold
<1>8. /\ phase' = phase /\ arrivedAt' = arrivedAt /\ gone' = gone /\ reminded' = reminded
      /\ late' = late /\ timing' = timing /\ time' = time
  BY <1>2 DEF OrderSame, ToldSame, ClockSame
<1>9. CastJobs'
  <2>1. \A c \in RemindedCasts : /\ queue'[c].state \notin {"delayed", "running"}
                                 /\ queue'[c].state # "none" => queue'[c] = queue[c]
    BY <1>3, <1>7, RemOpening
  <2>2. \A g \in Handlers : at'[g] \notin {"findSeat", "tell"}
    BY <1>5, <1>6
  <2> QED
    BY <1>1, <1>5, <1>8, <2>1, <2>2 DEF CastJobs
<1>10. {"dropEnds", "findArrived"} \subseteq EndLabels \cap OperatorLabels
  BY DEF EndLabels, OperatorLabels
<1>11. \A j \in Jobs : j \notin RemindedCasts => queue'[j] = queue[j]
  BY <1>3
<1>12. \A j \in Jobs : \/ queue'[j] = queue[j]
                       \/ /\ queue[j].state \in {"none", "delayed"}
                          /\ queue'[j].state \in {"none", "delayed"}
                          /\ queue'[j].state = "delayed" => queue'[j].at >= time
  BY <1>3
<1>13. at'[h] \notin ArriveLabels /\ at'[h] # "addEnds" /\ at[h] # "idle" /\ at[h] \notin {"addEnd", "begin"}
  BY <1>2, <1>5 DEF ArriveLabels
<1> QED
  BY <1>2, <1>3, <1>5, <1>6, <1>9, <1>10, <1>11, <1>12, <1>13, EndRequest

LEMMA RemFindArrived ==
  ASSUME RemFacts, NEW h \in Handlers, FindArrived(h)
  PROVE  RemFacts'
<1>1. /\ RemTyped /\ WorkersHold /\ OperatorAlone /\ RequestsKnow /\ SeatsFollow /\ CastJobs /\ EndMoves
  BY DEF RemFacts
<1>2. /\ at[h] = "findArrived" /\ OrderSame /\ ClockSame /\ ToldSame /\ queue' = queue
  BY DEF FindArrived
<1>3. /\ \A g \in Handlers : g # h => at[g] = "idle"
      /\ errand[h].operator /\ errand[h].timing = timing /\ phase # "new"
  BY <1>1, <1>2 DEF OperatorAlone, OperatorLabels, RequestsKnow, SeatsFollow
<1>4. PICK arrived : arrived = {c \in RemindedCasts : seat[c] # "out" /\ arrivedAt[c] # Never}
  OBVIOUS
<1>5. \A c \in RemindedCasts : c \in arrived <=> arrivedAt[c] # Never
  BY <1>1, <1>4 DEF SeatsFollow
<1>6. /\ phase' = phase /\ arrivedAt' = arrivedAt /\ gone' = gone /\ reminded' = reminded
      /\ late' = late /\ timing' = timing /\ time' = time
  BY <1>2 DEF OrderSame, ToldSame, ClockSame
<1>7. PICK e : e = [errand[h] EXCEPT !.rest = arrived]
  OBVIOUS
<1>8. e \in Errands /\ e.operator /\ e.timing = timing /\ e.rest = arrived
  BY <1>1, <1>3, <1>4, <1>7 DEF RemTyped, Errands
<1>9. IF errand[h].timing.to > time + EndLead /\ arrived # {}
      THEN Continue(h, "addEnds") /\ Run(h, e)
      ELSE RequestEnds(h)
  BY <1>2, <1>4, <1>7 DEF FindArrived
<1>10. queue' \in [Jobs -> QueueEntry]
  BY <1>1, <1>2 DEF RemTyped
<1>11. "findArrived" \in EndLabels /\ "findArrived" \in OperatorLabels
  BY DEF EndLabels, OperatorLabels
<1>12. \A c \in RemindedCasts : RemindTime(c, timing)' = RemindTime(c, timing)
  BY <1>6 DEF RemindTime
<1>13. \A t, d, a : OnTime(t, d, a)' <=> OnTime(t, d, a)
  BY <1>6 DEF OnTime
<1>14. CASE errand[h].timing.to > time + EndLead /\ arrived # {}
  <2>1. Continue(h, "addEnds") /\ errand' = [errand EXCEPT ![h] = e]
    BY <1>9, <1>14 DEF Run
  <2>2. "addEnds" \in RemLabels /\ "addEnds" \in EndLabels /\ "addEnds" \in OperatorLabels
        /\ "addEnds" \notin ArriveLabels
    BY DEF RemLabels, EndLabels, OperatorLabels, ArriveLabels
  <2>3. at' = [at EXCEPT ![h] = "addEnds"] /\ faults' = faults
    BY <2>1 DEF Continue, Goto
  <2>4. /\ at' \in [Handlers -> RemLabels] /\ errand' \in [Handlers -> Errands]
        /\ at'[h] = "addEnds" /\ errand'[h] = e
        /\ \A g \in Handlers : g # h => at'[g] = at[g] /\ errand'[g] = errand[g]
    BY <1>1, <1>8, <2>1, <2>2, <2>3, RemMoves
  <2>5. Unread' <=> Unread
    BY <1>2, <2>4 DEF Unread
  <2>6. CastJobs'
    <3>1. \A g \in Handlers : at'[g] \notin {"findSeat", "tell"}
      BY <1>3, <2>4
    <3>2. ASSUME NEW c \in RemindedCasts, arrivedAt[c] # Never
          PROVE  at'[h] = "addEnds" /\ c \in errand'[h].rest
      BY <1>5, <1>8, <2>4, <3>2
    <3> QED
      BY <1>1, <1>2, <1>6, <1>12, <1>13, <2>5, <3>1, <3>2 DEF CastJobs
  <2>7. \A c \in errand'[h].rest : arrivedAt[c] # Never
    BY <1>4, <1>8, <2>4
  <2> QED
    BY <1>2, <1>3, <1>8, <1>10, <1>11, <2>2, <2>3, <2>4, <2>6, <2>7, EndRequest
<1>15. CASE ~(errand[h].timing.to > time + EndLead /\ arrived # {})
  <2>1. Continue(h, "idle") /\ errand' = [errand EXCEPT ![h] = NoErrand]
    BY <1>9, <1>15 DEF Run, RequestEnds, End
  <2>2. "idle" \in RemLabels /\ "idle" \in EndLabels /\ "idle" \notin OperatorLabels
        /\ "idle" \notin ArriveLabels
    BY DEF RemLabels, EndLabels, OperatorLabels, ArriveLabels
  <2>3. at' = [at EXCEPT ![h] = "idle"] /\ faults' = faults
    BY <2>1 DEF Continue, Goto
  <2>4. /\ at' \in [Handlers -> RemLabels] /\ errand' \in [Handlers -> Errands]
        /\ at'[h] = "idle" /\ errand'[h] = NoErrand
        /\ \A g \in Handlers : g # h => at'[g] = at[g] /\ errand'[g] = errand[g]
    BY <1>1, <2>1, <2>2, <2>3, RemMoves, RemOpening
  <2>5. Unread' <=> Unread
    BY <1>2, <2>4 DEF Unread
  <2>6. CastJobs'
    <3>1. \A g \in Handlers : at'[g] \notin {"findSeat", "tell"}
      BY <1>3, <2>4
    <3>2. (\E c \in RemindedCasts : arrivedAt[c] # Never) => "end" \in late
      <4>1. "end" \in late \/ timing.to > time + EndLead
        BY <1>1, <1>2 DEF EndMoves
      <4> QED
        BY <1>3, <1>5, <1>15, <4>1
    <3> QED
      BY <1>1, <1>2, <1>6, <1>12, <1>13, <2>5, <3>1, <3>2 DEF CastJobs
  <2>7. ~errand'[h].operator
    BY <2>4, RemOpening
  <2> QED
    BY <1>2, <1>3, <1>10, <1>11, <2>2, <2>3, <2>4, <2>6, <2>7, EndRequest
<1> QED
  BY <1>14, <1>15

LEMMA RemAddEndsAgain ==
  ASSUME RemFacts, NEW h \in Handlers, AddEndsAgain(h)
  PROVE  RemFacts'
<1>1. /\ RemTyped /\ WorkersHold /\ OperatorAlone /\ RequestsKnow /\ SeatsFollow /\ CastJobs
  BY DEF RemFacts
<1>2. /\ at[h] = "addEnds" /\ OrderSame /\ ClockSame /\ ToldSame
  BY DEF AddEndsAgain
<1>3. /\ \A g \in Handlers : g # h => at[g] = "idle"
      /\ errand[h].operator /\ errand[h].timing = timing /\ phase # "new" /\ timing # OrderTimes
      /\ \A c \in errand[h].rest : arrivedAt[c] # Never
  BY <1>1, <1>2 DEF OperatorAlone, OperatorLabels, RequestsKnow, SeatsFollow
<1>4. PICK c \in errand[h].rest :
          /\ Add(c, RemindTime(c, errand[h].timing))
          /\ IF errand[h].rest = {c}
             THEN RequestEnds(h)
             ELSE Continue(h, "addEnds") /\ Run(h, [errand[h] EXCEPT !.rest = @ \ {c}])
  BY DEF AddEndsAgain
<1>5. errand[h] \in Errands /\ errand[h].rest \subseteq RemindedCasts
  BY <1>1 DEF RemTyped, Errands
<1>6. c \in RemindedCasts /\ c \in Jobs /\ arrivedAt[c] # Never
  BY <1>3, <1>5, RemOpening
<1>7. PICK t \in Int : t = RemindTime(c, timing)
  BY <1>1, <1>6, ReminderAssumption DEF RemTyped, Timings, RemindTime, Never
<1>8. Add(c, t)
  BY <1>3, <1>4, <1>7
<1>9. /\ queue' \in [Jobs -> QueueEntry]
      /\ \A i \in Jobs : i # c => queue'[i] = queue[i]
      /\ queue[c].state # "none" => queue'[c] = queue[c]
      /\ queue[c].state = "none" =>
            /\ queue'[c].state = "delayed" /\ queue'[c].at = MaxOfTwo(t, time)
            /\ queue'[c].at >= time
  BY <1>1, <1>6, <1>8, AddsJob
<1>10. PICK l \in {"idle", "addEnds"}, e \in Errands :
          /\ at' = [at EXCEPT ![h] = l] /\ errand' = [errand EXCEPT ![h] = e] /\ faults' = faults
          /\ l = "idle" => ~e.operator /\ errand[h].rest = {c}
          /\ l = "addEnds" => e.operator /\ e.timing = timing /\ e.rest = errand[h].rest \ {c}
  <2>1. CASE errand[h].rest = {c}
    <3>1. at' = [at EXCEPT ![h] = "idle"] /\ errand' = [errand EXCEPT ![h] = NoErrand] /\ faults' = faults
      BY <1>4, <2>1 DEF RequestEnds, End, Continue, Goto, Run
    <3> QED
      BY <2>1, <3>1, RemOpening
  <2>2. CASE errand[h].rest # {c}
    <3>1. PICK e : e = [errand[h] EXCEPT !.rest = @ \ {c}]
      OBVIOUS
    <3>2. e \in Errands /\ e.operator /\ e.timing = timing /\ e.rest = errand[h].rest \ {c}
      BY <1>3, <1>5, <3>1 DEF Errands
    <3>3. at' = [at EXCEPT ![h] = "addEnds"] /\ errand' = [errand EXCEPT ![h] = e] /\ faults' = faults
      BY <1>4, <2>2, <3>1 DEF Continue, Goto, Run
    <3> QED
      BY <3>2, <3>3
  <2> QED
    BY <2>1, <2>2
<1>11. l \in RemLabels /\ l \in EndLabels /\ "addEnds" \in EndLabels /\ "addEnds" \in OperatorLabels
       /\ "idle" \notin OperatorLabels /\ l \notin ArriveLabels
  BY DEF RemLabels, EndLabels, OperatorLabels, ArriveLabels
<1>12. /\ at' \in [Handlers -> RemLabels] /\ errand' \in [Handlers -> Errands]
       /\ at'[h] = l /\ errand'[h] = e
       /\ \A g \in Handlers : g # h => at'[g] = at[g] /\ errand'[g] = errand[g]
  BY <1>1, <1>10, <1>11, RemMoves
<1>13. /\ phase' = phase /\ arrivedAt' = arrivedAt /\ gone' = gone /\ reminded' = reminded
       /\ late' = late /\ timing' = timing /\ time' = time
  BY <1>2 DEF OrderSame, ToldSame, ClockSame
<1>14. CastJobs'
  <2>1. Unread' <=> Unread
    BY <1>2, <1>12 DEF Unread
  <2>2. \A x, d, a : OnTime(x, d, a)' <=> OnTime(x, d, a)
    BY <1>13 DEF OnTime
  <2>3. \A i \in RemindedCasts : RemindTime(i, timing)' = RemindTime(i, timing)
    BY <1>13 DEF RemindTime
  <2>4. OnTime(MaxOfTwo(t, time), t, arrivedAt[c])
    BY <1>1, <1>3 DEF OnTime, MaxOfTwo, RemTyped
  <2>5. \A g \in Handlers : at'[g] \notin {"findSeat", "tell"}
    BY <1>3, <1>12
  <2>6. \A i \in RemindedCasts : i # c => queue'[i] = queue[i]
    BY <1>9, RemOpening
  <2>7. \/ queue'[c] = queue[c] /\ queue[c].state # "none"
        \/ queue'[c].state = "delayed" /\ OnTime(queue'[c].at, RemindTime(c, timing), arrivedAt[c])
    BY <1>7, <1>9, <2>4
  <2>8. ASSUME NEW i \in RemindedCasts, i # c, queue[i].state = "none", arrivedAt[i] # Never
        PROVE  "end" \in late \/ (at'[h] = "addEnds" /\ i \in errand'[h].rest)
    <3>1. "end" \in late \/ i \in errand[h].rest
      BY <1>1, <1>2, <1>3, <2>8 DEF CastJobs
    <3> QED
      BY <1>10, <1>12, <2>8, <3>1
  <2> QED
    BY <1>1, <1>2, <1>6, <1>13, <2>1, <2>2, <2>3, <2>5, <2>6, <2>7, <2>8 DEF CastJobs
<1>15. \A j \in Jobs : j \notin RemindedCasts => queue'[j] = queue[j]
  BY <1>6, <1>9
<1>16. \A j \in Jobs : \/ queue'[j] = queue[j]
                       \/ /\ queue[j].state \in {"none", "delayed"}
                          /\ queue'[j].state \in {"none", "delayed"}
                          /\ queue'[j].state = "delayed" => queue'[j].at >= time
  BY <1>9
<1>17. /\ at'[h] \in EndLabels /\ at[h] \in EndLabels /\ at[h] \in OperatorLabels /\ at'[h] \notin ArriveLabels
       /\ at'[h] \in OperatorLabels => errand'[h].operator /\ errand'[h].timing = timing
       /\ at'[h] \notin OperatorLabels => ~errand'[h].operator
       /\ at'[h] = "addEnds" => \A i \in errand'[h].rest : arrivedAt[i] # Never
       /\ at'[h] \notin {"dropEnds", "findArrived"}
  BY <1>2, <1>3, <1>10, <1>11, <1>12
<1> QED
  BY <1>2, <1>3, <1>9, <1>10, <1>12, <1>14, <1>15, <1>16, <1>17, EndRequest

LEMMA RemReadTimes ==
  ASSUME RemFacts, NEW h \in Handlers, ReadTimes(h)
  PROVE  RemFacts'
<1>1. /\ RemTyped /\ WorkersHold /\ OperatorAlone /\ RequestsKnow /\ SeatsFollow
      /\ CastJobs /\ EndMoves /\ SentOnce /\ SelectionJobs /\ ReviewJobs
  BY DEF RemFacts
<1>2. at[h] = "readTimes" /\ OrderSame /\ ClockSame /\ ToldSame /\ queue' = queue
  BY DEF ReadTimes
<1>3. /\ \A g \in Handlers : g # h => at[g] = "idle" /\ ~errand[g].operator
      /\ errand[h].operator /\ phase # "new" /\ timing # OrderTimes
  BY <1>1, <1>2 DEF OperatorAlone, OperatorLabels, SeatsFollow
<1>4. PICK l \in {"dropOpen", "dropEnds", "idle"} :
        /\ Continue(h, l)
        /\ l = "dropOpen" => Recruiting
        /\ l = "dropEnds" => phase = "in_progress"
        /\ l = "idle" => phase # "in_progress" /\ ~Recruiting
  BY DEF ReadTimes, End
<1>5. l \in RemLabels /\ (l \in OperatorLabels <=> l # "idle") /\ l \notin ArriveLabels
  BY DEF RemLabels, OperatorLabels, ArriveLabels
<1>6. at' = [at EXCEPT ![h] = l] /\ faults' = faults /\ at'[h] = l
  BY <1>1, <1>4 DEF Continue, Goto, RemTyped
<1>7. PICK e : e = IF l = "idle" THEN NoErrand ELSE [errand[h] EXCEPT !.timing = timing]
  OBVIOUS
<1>8. errand' = [errand EXCEPT ![h] = e]
  BY <1>6, <1>7 DEF ReadTimes, Run
<1>9. e \in Errands /\ (l = "idle" => ~e.operator) /\ (l # "idle" => e.operator /\ e.timing = timing)
  BY <1>1, <1>3, <1>7, RemOpening DEF RemTyped, Errands
<1>10. /\ at' \in [Handlers -> RemLabels] /\ errand' \in [Handlers -> Errands]
       /\ at'[h] = l /\ errand'[h] = e
       /\ \A g \in Handlers : g # h => at'[g] = at[g] /\ errand'[g] = errand[g]
  BY <1>1, <1>5, <1>6, <1>8, <1>9, RemMoves
<1>11. ~Working(h) /\ ~Working(h)' /\ at[h] \notin {"addEnd", "begin"}
  BY <1>2, <1>10 DEF Working
<1>12. queue' \in [Jobs -> QueueEntry]
  BY <1>1, <1>2 DEF RemTyped
<1>13. /\ RemTyped' /\ WorkersHold' /\ SeatsFollow' /\ SentOnce' /\ ReviewJobs' /\ NagKnown'
       /\ (RealSelection' <=> RealSelection) /\ (Recruiting' <=> Recruiting)
       /\ \A t, d, a : OnTime(t, d, a)' <=> OnTime(t, d, a)
       /\ \A c \in RemindedCasts : RemindTime(c, timing)' = RemindTime(c, timing)
       /\ needed' = needed /\ timing' = timing /\ phase' = phase
       /\ seat' = seat /\ arrivedAt' = arrivedAt /\ gone' = gone /\ reminded' = reminded
       /\ asked' = asked /\ time' = time /\ nag' = nag /\ late' = late
  BY <1>2, <1>3, <1>6, <1>10, <1>11, <1>12, RequestStep
<1>14. OperatorAlone'
  BY <1>1, <1>3, <1>5, <1>9, <1>10, <1>13 DEF OperatorAlone, OperatorLabels
<1>15. RequestsKnow'
  <2>1. \A g \in Handlers : g # h => at'[g] = "idle"
    BY <1>3, <1>10
  <2>2. "idle" \notin ArriveLabels \cup OperatorLabels
    BY DEF ArriveLabels, OperatorLabels
  <2> QED
    BY <1>5, <1>9, <1>10, <1>13, <2>1, <2>2 DEF RequestsKnow
<1>16. CastJobs'
  <2>1. \A g \in Handlers : at'[g] \in {"dropOpen", "dropEnds", "idle"}
    BY <1>3, <1>10
  <2>2. ASSUME NEW c \in RemindedCasts, queue[c].state \in {"delayed", "running"}, phase # "finished", ~Unread'
        PROVE  OnTime(queue[c].at, RemindTime(c, timing), arrivedAt[c])
    <3>1. arrivedAt[c] # Never
      BY <1>1, <2>2 DEF CastJobs
    <3>2. seat[c] = "attending" /\ phase \in {"scheduled", "in_progress"}
      BY <1>1, <2>2, <3>1 DEF SeatsFollow
    <3>3. l = "idle" /\ phase = "scheduled"
      BY <1>4, <1>10, <2>2, <3>2 DEF Unread, Recruiting
    <3>4. \E g \in Handlers : at[g] \in {"addEnd", "begin"}
      BY <1>1, <3>1, <3>3 DEF SeatsFollow
    <3> QED
      BY <1>2, <1>3, <3>4
  <2>3. \A g \in Handlers : at[g] \notin {"addEnd", "findArrived", "addEnds"}
    BY <1>2, <1>3
  <2> QED
    BY <1>1, <1>2, <1>13, <2>1, <2>2, <2>3 DEF CastJobs
<1>17. EndMoves'
  BY <1>1, <1>2, <1>3, <1>4, <1>10, <1>13 DEF EndMoves
<1>18. SelectionAwaits'
  BY <1>4, <1>10, <1>13 DEF SelectionAwaits, NoSelectionYet, Recruiting
<1>19. OpenAwaits'
  BY <1>4, <1>10, <1>13 DEF OpenAwaits, NoOpenYet, Recruiting
<1>20. ChoiceReminded'
  <2>1. at[h] \in OperatorLabels
    BY <1>2 DEF OperatorLabels
  <2> QED
    BY <1>1, <1>13, <2>1 DEF SelectionJobs, ChoiceReminded
<1> QED
  BY <1>13, <1>14, <1>15, <1>16, <1>17, <1>18, <1>19, <1>20 DEF RemFacts, SelectionJobs

LEMMA RemSetUpReminders ==
  ASSUME RemFacts, NEW h \in Handlers, SetUpReminders(h)
  PROVE  RemFacts'
<1>1. /\ RemTyped /\ WorkersHold /\ OperatorAlone /\ RequestsKnow /\ SeatsFollow
      /\ CastJobs /\ EndMoves /\ SentOnce /\ SelectionJobs /\ ReviewJobs
  BY DEF RemFacts
<1>2. /\ phase = "new" /\ at[h] = "idle" /\ at' = [at EXCEPT ![h] = "addOpen"] /\ faults' = faults
      /\ phase' = "requested" /\ ClockSame /\ ToldSame
      /\ needed' = needed /\ timing' = timing /\ seat' = seat /\ arrivedAt' = arrivedAt
      /\ gone' = gone /\ queue' = queue
  BY DEF SetUpReminders, Begin, Deliver, Goto
<1>3. /\ time' = time /\ nag' = nag /\ late' = late /\ reminded' = reminded /\ asked' = asked
  BY <1>2 DEF ClockSame, ToldSame
<1>4. PICK e : e = [NoErrand EXCEPT !.timing = timing]
  OBVIOUS
<1>5. e \in Errands /\ e.timing = timing /\ ~e.operator
  BY <1>1, <1>4, RemOpening DEF Errands, RemTyped, NoErrand
<1>6. "addOpen" \in RemLabels /\ errand' = [errand EXCEPT ![h] = e]
  BY <1>4 DEF RemLabels, SetUpReminders, Run
<1>7. /\ at' \in [Handlers -> RemLabels] /\ errand' \in [Handlers -> Errands]
      /\ at'[h] = "addOpen" /\ errand'[h] = e
      /\ \A g \in Handlers : g # h => at'[g] = at[g] /\ errand'[g] = errand[g]
  BY <1>1, <1>2, <1>5, <1>6, RemMoves
<1>8. /\ \A g \in Handlers : at[g] = "idle" /\ ~errand[g].operator
      /\ \A j \in Jobs : queue[j].state = "none"
  <2>1. \A g \in Handlers : at[g] = "idle"
    BY <1>1, <1>2 DEF SeatsFollow
  <2> QED
    BY <1>1, <1>2, <2>1 DEF SeatsFollow, OperatorAlone, OperatorLabels
<1>9. \A c \in RemindedCasts : /\ arrivedAt[c] = Never /\ seat[c] # "attending" /\ c \notin gone
                               /\ ~(reminded[c].times > 0) /\ c \in Jobs
  BY <1>1, <1>2, RemOpening DEF SeatsFollow, CastJobs
<1>10. \A g \in Handlers : at'[g] = "idle" \/ (g = h /\ at'[g] = "addOpen")
  BY <1>7, <1>8
<1>11. RemTyped'
  BY <1>1, <1>2, <1>3, <1>7 DEF RemTyped, OrderPhases
<1>12. WorkersHold'
  BY <1>1, <1>2, <1>8, <1>10 DEF WorkersHold, Working
<1>13. OperatorAlone'
  BY <1>5, <1>7, <1>8, <1>10 DEF OperatorAlone, OperatorLabels
<1>14. RequestsKnow'
  <2>1. "open" \in Jobs /\ "selection" \in Jobs
    BY RemOpening
  <2>2. "idle" \notin ArriveLabels \cup OperatorLabels /\ "addOpen" \notin ArriveLabels
    BY DEF ArriveLabels, OperatorLabels
  <2> QED
    BY <1>2, <1>5, <1>7, <1>8, <1>10, <2>1, <2>2 DEF RequestsKnow
<1>15. SeatsFollow'
  BY <1>1, <1>2, <1>9 DEF SeatsFollow
<1>16. CastJobs'
  BY <1>2, <1>3, <1>8, <1>9, <1>10 DEF CastJobs
<1>17. EndMoves'
  BY <1>10 DEF EndMoves
<1>18. SentOnce'
  BY <1>1, <1>2, <1>3, <1>9, <1>10 DEF SentOnce, Working
<1>19. SelectionJobs'
  BY <1>1, <1>2, <1>3, <1>7 DEF SelectionJobs, SelectionAwaits, NagKnown, ChoiceReminded, OpenAwaits, NoSelectionYet, NoOpenYet
<1>20. ReviewJobs'
  BY <1>1, <1>2, <1>3 DEF ReviewJobs, With
<1> QED
  BY <1>11, <1>12, <1>13, <1>14, <1>15, <1>16, <1>17, <1>18, <1>19, <1>20 DEF RemFacts

LEMMA RemSetArrival ==
  ASSUME RemFacts, NEW h \in Handlers, SetArrival(h)
  PROVE  RemFacts'
<1>1. /\ RemTyped /\ WorkersHold /\ OperatorAlone /\ RequestsKnow /\ SeatsFollow
      /\ CastJobs /\ EndMoves /\ SentOnce /\ SelectionJobs /\ ReviewJobs
  BY DEF RemFacts
<1>2. /\ at[h] = "setStart" /\ at' = [at EXCEPT ![h] = "addEnd"] /\ faults' = faults
      /\ needed' = needed /\ timing' = timing /\ phase' = phase /\ seat' = seat
      /\ gone' = gone /\ queue' = queue /\ errand' = errand /\ ClockSame /\ ToldSame
  BY DEF SetArrival, Continue, Goto
<1>3. /\ time' = time /\ nag' = nag /\ late' = late /\ reminded' = reminded /\ asked' = asked
  BY <1>2 DEF ClockSame, ToldSame
<1>4. PICK c \in RemindedCasts : c = errand[h].job
  BY <1>1, <1>2 DEF RequestsKnow, ArriveLabels
<1>5. seat[c] = "attending" /\ arrivedAt[c] \in {Never, time} /\ errand[h].timing = timing
  BY <1>1, <1>2, <1>4 DEF RequestsKnow, ArriveLabels
<1>6. arrivedAt' = [arrivedAt EXCEPT ![c] = time]
  BY <1>4 DEF SetArrival
<1>7. /\ arrivedAt' \in [RemindedCasts -> 0..Never] /\ arrivedAt'[c] = time /\ time # Never
      /\ \A i \in RemindedCasts : i # c => arrivedAt'[i] = arrivedAt[i]
      /\ \A i \in RemindedCasts : arrivedAt[i] # Never => arrivedAt'[i] = arrivedAt[i]
  BY <1>1, <1>5, <1>6, ReminderAssumption DEF RemTyped, Never
<1>8. /\ at' \in [Handlers -> RemLabels] /\ at'[h] = "addEnd"
      /\ \A g \in Handlers : g # h => at'[g] = at[g]
  BY <1>1, <1>2 DEF RemTyped, RemLabels
<1>9. \A g \in Handlers : at[g] \notin OperatorLabels /\ at'[g] \notin OperatorLabels /\ ~errand[g].operator
  <2>1. "setStart" \notin OperatorLabels /\ "addEnd" \notin OperatorLabels /\ at[h] # "idle"
    BY <1>2 DEF OperatorLabels
  <2> QED
    BY <1>1, <1>2, <1>8, <2>1, NoOperatorBeside DEF OperatorAlone
<1>10. RemTyped'
  BY <1>1, <1>2, <1>3, <1>7, <1>8 DEF RemTyped
<1>11. WorkersHold'
  <2>1. \A g \in Handlers : \/ at'[g] = at[g] /\ errand'[g] = errand[g]
                            \/ ~Working(g) /\ ~Working(g)'
    BY <1>2, <1>8 DEF Working
  <2> QED
    BY <1>1, <1>2, <1>3, <2>1, WorkersStay
<1>12. OperatorAlone'
  BY <1>2, <1>9 DEF OperatorAlone
<1>13. RequestsKnow'
  <2>1. ASSUME NEW g \in Handlers, at'[g] \in ArriveLabels
        PROVE  /\ errand[g].timing = timing
               /\ errand[g].job \in RemindedCasts /\ seat[errand[g].job] = "attending"
               /\ arrivedAt'[errand[g].job] \in {Never, time}
               /\ at'[g] # "setStart" => arrivedAt'[errand[g].job] = time
    <3>1. CASE g = h
      BY <1>4, <1>5, <1>7, <3>1
    <3>2. CASE g # h
      <4>1. at'[g] = at[g]
        BY <1>8, <3>2
      <4> QED
        BY <1>1, <1>7, <2>1, <4>1 DEF RequestsKnow
    <3> QED
      BY <3>1, <3>2
  <2>2. \A g \in Handlers : at'[g] \in {"addOpen", "addSelection"} => at[g] = at'[g]
    BY <1>8
  <2>3. \A g \in Handlers : at'[g] \notin {"addOpenAgain", "addSelectionAgain", "addEnds"}
    BY <1>9 DEF OperatorLabels
  <2> QED
    BY <1>1, <1>2, <1>3, <1>8, <1>9, <2>1, <2>2, <2>3 DEF RequestsKnow
<1>14. SeatsFollow'
  <2>1. phase # "new"
    BY <1>1, <1>2 DEF SeatsFollow
  <2>2. \A i \in RemindedCasts : arrivedAt'[i] # Never => seat[i] = "attending"
    BY <1>1, <1>5, <1>7 DEF SeatsFollow
  <2> QED
    BY <1>1, <1>2, <1>8, <2>1, <2>2 DEF SeatsFollow
<1>15. arrivedAt[c] = Never => queue[c].state = "none" /\ ~(reminded[c].times > 0)
  BY <1>1 DEF CastJobs
<1>16. \A i \in RemindedCasts : \/ arrivedAt'[i] = arrivedAt[i] /\ RemindTime(i, timing)' = RemindTime(i, timing)
                                \/ i = c /\ queue[i].state = "none" /\ ~(reminded[i].times > 0)
  <2>1. \A i \in RemindedCasts : arrivedAt'[i] = arrivedAt[i] => RemindTime(i, timing)' = RemindTime(i, timing)
    BY <1>2 DEF RemindTime
  <2> QED
    BY <1>7, <1>15, <2>1
<1>17. CastJobs'
  <2>1. Unread' <=> Unread
    BY <1>2, <1>8 DEF Unread
  <2>2. \A t, d, a : OnTime(t, d, a)' <=> OnTime(t, d, a)
    BY <1>2, <1>3 DEF OnTime
  <2>3. \A g \in Handlers : at'[g] \in {"findSeat", "tell"} <=> at[g] \in {"findSeat", "tell"}
    BY <1>2, <1>8
  <2>4. \A g \in Handlers : at[g] \in {"addEnd", "findArrived", "addEnds"} => at'[g] = at[g]
    BY <1>2, <1>8
  <2>5. ASSUME NEW g \in Handlers, at[g] \in {"findSeat", "tell"}, NEW i \in RemindedCasts, errand[g].job = i
        PROVE  queue[i].state = "running"
    BY <1>1, <2>5 DEF WorkersHold, Working
  <2>6. at'[h] = "addEnd" /\ errand'[h].job = c
    BY <1>2, <1>4, <1>8
  <2> QED
    BY <1>1, <1>2, <1>3, <1>7, <1>16, <2>1, <2>2, <2>3, <2>4, <2>5, <2>6 DEF CastJobs
<1>18. EndMoves'
  BY <1>9 DEF EndMoves, OperatorLabels
<1>19. SentOnce'
  <2>1. \A g \in Handlers : (Working(g)' <=> Working(g)) /\ (Working(g) => at'[g] = at[g])
    BY <1>2, <1>8 DEF Working
  <2> QED
    BY <1>1, <1>2, <1>3, <1>16, <2>1 DEF SentOnce, MaxOfTwo
<1>20. SelectionJobs'
  <2>1. (RealSelection' <=> RealSelection) /\ (Recruiting' <=> Recruiting)
    BY <1>2 DEF RealSelection, Recruiting, With
  <2>2. \A g \in Handlers : /\ at'[g] \in NoSelectionYet <=> at[g] \in NoSelectionYet
                            /\ at'[g] \in NoOpenYet <=> at[g] \in NoOpenYet
    BY <1>2, <1>8 DEF NoSelectionYet, NoOpenYet
  <2>3. SelectionAwaits' /\ NagKnown' /\ OpenAwaits'
    BY <1>1, <1>2, <1>3, <2>1, <2>2 DEF SelectionJobs, SelectionAwaits, NagKnown, OpenAwaits
  <2>4. ChoiceReminded'
    BY <1>1, <1>2, <1>3, <1>9, <2>1 DEF SelectionJobs, ChoiceReminded
  <2> QED
    BY <2>3, <2>4 DEF SelectionJobs
<1>21. ReviewJobs'
  BY <1>1, <1>2, <1>3 DEF ReviewJobs, With
<1> QED
  BY <1>10, <1>11, <1>12, <1>13, <1>14, <1>17, <1>18, <1>19, <1>20, <1>21 DEF RemFacts

LEMMA RemBeginOrder ==
  ASSUME RemFacts, NEW h \in Handlers, BeginOrder(h)
  PROVE  RemFacts'
<1>1. /\ RemTyped /\ WorkersHold /\ OperatorAlone /\ RequestsKnow /\ SeatsFollow
      /\ CastJobs /\ EndMoves /\ SentOnce /\ SelectionJobs /\ ReviewJobs
  BY DEF RemFacts
<1>2. /\ at[h] = "begin" /\ at' = [at EXCEPT ![h] = "idle"] /\ faults' = faults
      /\ errand' = [errand EXCEPT ![h] = NoErrand]
      /\ needed' = needed /\ timing' = timing /\ arrivedAt' = arrivedAt /\ seat' = seat
      /\ gone' = gone /\ queue' = queue /\ ClockSame /\ ToldSame
      /\ phase' = IF phase = "scheduled" THEN "in_progress" ELSE phase
  BY DEF BeginOrder, RequestEnds, End, Continue, Goto, Run
<1>3. /\ time' = time /\ nag' = nag /\ late' = late /\ reminded' = reminded /\ asked' = asked
  BY <1>2 DEF ClockSame, ToldSame
<1>4. phase \in {"scheduled", "in_progress", "finished"}
  <2>1. errand[h].job \in RemindedCasts /\ seat[errand[h].job] = "attending"
    BY <1>1, <1>2 DEF RequestsKnow, ArriveLabels
  <2> QED
    BY <1>1, <2>1 DEF SeatsFollow
<1>5. /\ phase' \in {"in_progress", "finished"}
      /\ phase' = "finished" <=> phase = "finished"
  BY <1>2, <1>4
<1>6. "idle" \in RemLabels
  BY DEF RemLabels
<1>7. /\ at' \in [Handlers -> RemLabels] /\ errand' \in [Handlers -> Errands]
      /\ at'[h] = "idle" /\ errand'[h] = NoErrand
      /\ \A g \in Handlers : g # h => at'[g] = at[g] /\ errand'[g] = errand[g]
  BY <1>1, <1>2, <1>6, RemMoves, RemOpening
<1>8. \A g \in Handlers : at[g] \notin OperatorLabels /\ at'[g] \notin OperatorLabels /\ ~errand'[g].operator
  <2>1. "begin" \notin OperatorLabels /\ "idle" \notin OperatorLabels /\ at[h] # "idle"
    BY <1>2 DEF OperatorLabels
  <2> QED
    BY <1>1, <1>2, <1>7, <2>1, NoOperatorBeside, RemOpening DEF OperatorAlone
<1>9. RemTyped'
  BY <1>1, <1>2, <1>3, <1>5, <1>7 DEF RemTyped, OrderPhases
<1>10. WorkersHold'
  <2>1. \A g \in Handlers : \/ at'[g] = at[g] /\ errand'[g] = errand[g]
                            \/ ~Working(g) /\ ~Working(g)'
    BY <1>2, <1>7 DEF Working
  <2> QED
    BY <1>1, <1>2, <1>3, <2>1, WorkersStay
<1>11. OperatorAlone'
  BY <1>8 DEF OperatorAlone
<1>12. RequestsKnow'
  <2>1. \A g \in Handlers : at'[g] = "idle" \/ (at'[g] = at[g] /\ errand'[g] = errand[g])
    BY <1>7
  <2>2. "idle" \notin ArriveLabels \cup OperatorLabels
    BY DEF ArriveLabels, OperatorLabels
  <2> QED
    BY <1>1, <1>2, <1>3, <2>1, <2>2 DEF RequestsKnow
<1>13. SeatsFollow'
  BY <1>1, <1>2, <1>4, <1>5 DEF SeatsFollow
<1>14. CastJobs'
  <2>1. Unread' <=> Unread
    BY <1>2, <1>7 DEF Unread
  <2>2. \A t, d, a : OnTime(t, d, a)' <=> OnTime(t, d, a)
    BY <1>2, <1>3 DEF OnTime
  <2>3. \A i \in RemindedCasts : RemindTime(i, timing)' = RemindTime(i, timing)
    BY <1>2 DEF RemindTime
  <2>4. \A g \in Handlers : at'[g] \in {"findSeat", "tell"} => at'[g] = at[g] /\ errand'[g] = errand[g]
    BY <1>7
  <2>5. \A g \in Handlers : at[g] \in {"addEnd", "findArrived", "addEnds"} => at'[g] = at[g] /\ errand'[g] = errand[g]
    BY <1>2, <1>7
  <2> QED
    BY <1>1, <1>2, <1>3, <1>5, <2>1, <2>2, <2>3, <2>4, <2>5 DEF CastJobs
<1>15. EndMoves'
  BY <1>8 DEF EndMoves, OperatorLabels
<1>16. SentOnce'
  <2>1. \A g \in Handlers : Working(g)' => Working(g) /\ at'[g] = at[g] /\ errand'[g] = errand[g]
    BY <1>7 DEF Working
  <2> QED
    BY <1>1, <1>2, <1>3, <2>1 DEF SentOnce, MaxOfTwo
<1>17. SelectionJobs'
  BY <1>1, <1>2, <1>3, <1>4, <1>5 DEF SelectionJobs, SelectionAwaits, NagKnown, ChoiceReminded, OpenAwaits, Recruiting
<1>18. ReviewJobs'
  BY <1>1, <1>2, <1>3, <1>5 DEF ReviewJobs, With
<1> QED
  BY <1>9, <1>10, <1>11, <1>12, <1>13, <1>14, <1>15, <1>16, <1>17, <1>18 DEF RemFacts

LEMMA RemLeaveOrder ==
  ASSUME RemFacts, LeaveOrder
  PROVE  RemFacts'
<1>1. /\ RemTyped /\ WorkersHold /\ OperatorAlone /\ RequestsKnow /\ SeatsFollow
      /\ CastJobs /\ EndMoves /\ SentOnce /\ SelectionJobs /\ ReviewJobs
  BY DEF RemFacts
<1>2. /\ phase = "in_progress" /\ at' = at /\ faults' = faults /\ errand' = errand
      /\ needed' = needed /\ timing' = timing /\ arrivedAt' = arrivedAt /\ seat' = seat
      /\ ClockSame /\ ToldSame
  BY DEF LeaveOrder, handlerVars
<1>3. /\ time' = time /\ nag' = nag /\ late' = late /\ reminded' = reminded /\ asked' = asked
  BY <1>2 DEF ClockSame, ToldSame
<1>4. PICK c \in OnDuty :
        /\ gone' = gone \cup {c}
        /\ phase' = IF With("attending") = gone \cup {c} THEN "finished" ELSE phase
        /\ IF With("attending") = gone \cup {c} THEN Add("review", time) ELSE UNCHANGED queue
  BY DEF LeaveOrder
<1>5. c \in RemindedCasts /\ seat[c] = "attending"
  BY DEF OnDuty, With
<1>6. "review" \in Jobs /\ "review" \notin RemindedCasts /\ time \in Int
      /\ queue["review"].state = "none" /\ asked = {}
  BY <1>1, <1>2, RemOpening, ReminderAssumption DEF RemTyped, ReviewJobs
<1>7. /\ queue' \in [Jobs -> QueueEntry]
      /\ \A i \in Jobs : i # "review" => queue'[i] = queue[i]
      /\ \/ phase' = "finished" /\ With("attending") = gone'
            /\ queue'["review"].state = "delayed" /\ queue'["review"].at = time
         \/ phase' = phase /\ queue' = queue
  <2>1. CASE With("attending") = gone \cup {c}
    <3>1. Add("review", time)
      BY <1>4, <2>1
    <3>2. /\ queue' \in [Jobs -> QueueEntry]
          /\ \A i \in Jobs : i # "review" => queue'[i] = queue[i]
          /\ queue'["review"].state = "delayed" /\ queue'["review"].at = MaxOfTwo(time, time)
      BY <1>1, <1>6, <3>1, AddsJob
    <3>3. MaxOfTwo(time, time) = time
      BY DEF MaxOfTwo
    <3> QED
      BY <1>4, <2>1, <3>2, <3>3
  <2>2. CASE With("attending") # gone \cup {c}
    BY <1>1, <1>4, <2>2 DEF RemTyped
  <2> QED
    BY <2>1, <2>2
<1>8. \A i \in RemindedCasts : queue'[i] = queue[i] /\ i \in Jobs
  BY <1>6, <1>7, RemOpening
<1>9. queue'["open"] = queue["open"] /\ queue'["selection"] = queue["selection"]
  BY <1>7, RemOpening
<1>10. RemTyped'
  BY <1>1, <1>2, <1>3, <1>4, <1>5, <1>7 DEF RemTyped, OrderPhases
<1>11. WorkersHold'
  <2>1. \A j \in Jobs : \/ queue'[j] = queue[j]
                        \/ /\ queue[j].state # "running" /\ queue'[j].state # "running"
                           /\ queue'[j].state = "delayed" => queue'[j].at >= time
    BY <1>6, <1>7
  <2>2. \A g \in Handlers : at'[g] = at[g] /\ errand'[g] = errand[g]
    BY <1>2
  <2> QED
    BY <1>1, <1>3, <2>1, <2>2, WorkersStay
<1>12. OperatorAlone'
  BY <1>1, <1>2 DEF OperatorAlone
<1>13. RequestsKnow'
  BY <1>1, <1>2, <1>3, <1>9 DEF RequestsKnow
<1>14. SeatsFollow'
  <2>1. phase' \in {"in_progress", "finished"}
    BY <1>2, <1>7
  <2>2. \A i \in RemindedCasts : i \in gone' => seat[i] = "attending"
    BY <1>1, <1>4, <1>5 DEF SeatsFollow
  <2>3. phase' = "finished" => \A i \in RemindedCasts : seat[i] = "attending" => i \in gone'
    BY <1>2, <1>7 DEF With
  <2> QED
    BY <1>1, <1>2, <2>1, <2>2, <2>3 DEF SeatsFollow
<1>15. CastJobs'
  <2>1. Unread' <=> Unread
    BY <1>2 DEF Unread
  <2>2. \A t, d, a : OnTime(t, d, a)' <=> OnTime(t, d, a)
    BY <1>2, <1>3 DEF OnTime
  <2>3. \A i \in RemindedCasts : RemindTime(i, timing)' = RemindTime(i, timing)
    BY <1>2 DEF RemindTime
  <2>4. gone \subseteq gone' /\ phase # "finished"
    BY <1>2, <1>4
  <2> QED
    BY <1>1, <1>2, <1>3, <1>8, <2>1, <2>2, <2>3, <2>4 DEF CastJobs
<1>16. EndMoves'
  <2>1. phase' = "in_progress" => phase = "in_progress"
    BY <1>2
  <2> QED
    BY <1>1, <1>2, <1>3, <2>1 DEF EndMoves
<1>17. SentOnce'
  BY <1>1, <1>2, <1>3, <1>8 DEF SentOnce, MaxOfTwo, Working
<1>18. SelectionJobs'
  <2>1. phase' \in {"in_progress", "finished"}
    BY <1>2, <1>7
  <2> QED
    BY <1>1, <1>2, <1>3, <2>1 DEF SelectionJobs, SelectionAwaits, NagKnown, ChoiceReminded, OpenAwaits, Recruiting
<1>19. ReviewJobs'
  <2>1. phase' = "finished" => queue'["review"].state = "delayed" /\ queue'["review"].at <= time
    BY <1>2, <1>6, <1>7
  <2>2. phase' # "finished" => queue'["review"].state = "none"
    BY <1>6, <1>7
  <2> QED
    BY <1>3, <1>6, <2>1, <2>2 DEF ReviewJobs
<1> QED
  BY <1>10, <1>11, <1>12, <1>13, <1>14, <1>15, <1>16, <1>17, <1>18, <1>19 DEF RemFacts

LEMMA RemEnterOrder ==
  ASSUME RemFacts, EnterOrder, ClockSame, ToldSame, UNCHANGED <<handlerVars, queue, errand>>
  PROVE  RemFacts'
<1>1. /\ RemTyped /\ WorkersHold /\ OperatorAlone /\ RequestsKnow /\ SeatsFollow
      /\ CastJobs /\ EndMoves /\ SentOnce /\ SelectionJobs /\ ReviewJobs
  BY DEF RemFacts
<1>2. /\ Recruiting /\ at' = at /\ faults' = faults /\ errand' = errand /\ queue' = queue
      /\ needed' = needed /\ timing' = timing /\ arrivedAt' = arrivedAt /\ gone' = gone
      /\ \A g \in Handlers : at[g] = "idle"
  BY DEF EnterOrder, handlerVars, AtRest, Idle
<1>3. /\ time' = time /\ nag' = nag /\ late' = late /\ reminded' = reminded /\ asked' = asked
  BY DEF ClockSame, ToldSame
<1>4. PICK c \in With("none") :
        /\ seat' = [seat EXCEPT ![c] = "unconfirmed"]
        /\ phase' \in {"cast_selectable", phase}
  BY DEF EnterOrder
<1>5. c \in RemindedCasts /\ seat[c] = "none"
  BY DEF With
<1>6. /\ seat' \in [RemindedCasts -> {"none", "unconfirmed", "attending", "out"}]
      /\ seat'[c] = "unconfirmed" /\ \A i \in RemindedCasts : i # c => seat'[i] = seat[i]
  BY <1>1, <1>4, <1>5 DEF RemTyped
<1>7. phase \in {"requested", "cast_selectable"} /\ phase' \in {"requested", "cast_selectable"}
      /\ (phase = "cast_selectable" => phase' = "cast_selectable")
  BY <1>2, <1>4 DEF Recruiting
<1>8. /\ asked = {} /\ queue["review"].state = "none"
      /\ \A i \in RemindedCasts : /\ seat[i] # "attending" /\ arrivedAt[i] = Never
                                  /\ queue[i].state = "none" /\ ~(reminded[i].times > 0)
  BY <1>2, NobodyYet
<1>9. RemTyped'
  BY <1>1, <1>2, <1>3, <1>6, <1>7 DEF RemTyped, OrderPhases
<1>10. WorkersHold'
  BY <1>1, <1>2, <1>3 DEF WorkersHold, Working
<1>11. OperatorAlone'
  BY <1>1, <1>2 DEF OperatorAlone
<1>12. RequestsKnow'
  BY <1>1, <1>2 DEF RequestsKnow, ArriveLabels, OperatorLabels
<1>13. SeatsFollow'
  BY <1>1, <1>2, <1>6, <1>7, <1>8 DEF SeatsFollow
<1>14. CastJobs'
  BY <1>1, <1>2, <1>3, <1>8 DEF CastJobs
<1>15. EndMoves'
  BY <1>1, <1>2 DEF EndMoves
<1>16. SentOnce'
  BY <1>1, <1>2, <1>3, <1>8 DEF SentOnce, Working
<1>17. SelectionJobs'
  <2>1. Recruiting' /\ Recruiting
    BY <1>7 DEF Recruiting
  <2>2. SelectionAwaits' /\ OpenAwaits'
    BY <1>1, <1>2, <1>3, <2>1 DEF SelectionJobs, SelectionAwaits, OpenAwaits
  <2>3. nag => phase = "cast_selectable"
    BY <1>1, <1>7 DEF SelectionJobs, NagKnown
  <2>4. NagKnown'
    BY <1>1, <1>2, <1>3, <1>7, <2>3 DEF SelectionJobs, NagKnown
  <2>5. RealSelection => RealSelection'
    <3>1. With("attending") = {} /\ With("attending")' = {}
      BY <1>6, <1>8 DEF With
    <3>2. With("unconfirmed") \subseteq With("unconfirmed")' /\ With("unconfirmed")' \subseteq RemindedCasts
      BY <1>6 DEF With
    <3>3. IsFiniteSet(With("unconfirmed")')
      BY <3>2, ReminderAssumption, FS_Subset
    <3>4. /\ Cardinality(With("unconfirmed")) <= Cardinality(With("unconfirmed")')
          /\ IsFiniteSet(With("unconfirmed"))
      BY <3>2, <3>3, FS_Subset
    <3>5. Cardinality(With("unconfirmed")) \in Nat /\ Cardinality(With("unconfirmed")') \in Nat
      BY <3>3, <3>4, FS_CardinalityType
    <3>6. Cardinality({}) = 0 /\ needed \in Nat
      BY <1>1, FS_EmptySet DEF RemTyped
    <3> QED
      BY <1>2, <3>1, <3>4, <3>5, <3>6 DEF RealSelection
  <2>6. ChoiceReminded'
    BY <1>1, <1>2, <1>3, <2>3, <2>5 DEF SelectionJobs, ChoiceReminded
  <2> QED
    BY <2>2, <2>4, <2>6 DEF SelectionJobs
<1>18. ReviewJobs'
  BY <1>2, <1>3, <1>7, <1>8 DEF ReviewJobs
<1> QED
  BY <1>9, <1>10, <1>11, <1>12, <1>13, <1>14, <1>15, <1>16, <1>17, <1>18 DEF RemFacts

LEMMA RemMoveTimes ==
  ASSUME RemFacts, NEW h \in Handlers, MoveTimes(h), ~torn'
  PROVE  RemFacts'
<1>1. /\ RemTyped /\ WorkersHold /\ OperatorAlone /\ RequestsKnow /\ SeatsFollow
      /\ CastJobs /\ EndMoves /\ SentOnce /\ SelectionJobs /\ ReviewJobs
  BY DEF RemFacts
<1>2. /\ timing = OrderTimes /\ phase # "new"
      /\ at' = [at EXCEPT ![h] = "readTimes"] /\ faults' = faults
      /\ time' = time /\ needed' = needed /\ phase' = phase /\ seat' = seat
      /\ arrivedAt' = arrivedAt /\ gone' = gone /\ queue' = queue
      /\ reminded' = reminded /\ asked' = asked
  BY DEF MoveTimes, Begin, Deliver, Goto, ToldSame
<1>3. \A g \in Handlers : at[g] = "idle" /\ ~errand[g].operator
  <2>1. AtRest
    BY DEF MoveTimes, Crossed
  <2> QED
    BY <2>1 DEF MoveTimes, Crossed, AtRest, Idle
<1>4. PICK m \in Moves :
        /\ timing' = [f \in DOMAIN timing |-> timing[f] + m[f]]
        /\ nag' = (nag /\ m.closes = 0)
  BY DEF MoveTimes
<1>5. /\ m \in [{"closes", "from", "to"} -> Int]
      /\ OrderTimes \in [{"closes", "from", "to"} -> Int]
      /\ \E f \in {"closes", "from", "to"} : m[f] # 0
  BY ReminderAssumption
<1>6. DOMAIN timing = {"closes", "from", "to"}
  BY <1>2, <1>5
<1>7. \A f \in {"closes", "from", "to"} : timing'[f] = timing[f] + m[f] /\ timing[f] \in Int /\ m[f] \in Int
  BY <1>2, <1>4, <1>5, <1>6
<1>8. timing' \in Timings /\ timing' # OrderTimes
  <2>1. timing' \in Timings
    <3>1. timing' = [f \in {"closes", "from", "to"} |-> timing'[f]]
      BY <1>4, <1>6
    <3> QED
      BY <1>7, <3>1 DEF Timings
  <2>2. PICK f \in {"closes", "from", "to"} : m[f] # 0
    BY <1>5
  <2>3. timing'[f] # timing[f]
    <3>1. timing'[f] = timing[f] + m[f] /\ timing[f] \in Int /\ m[f] \in Int
      BY <1>7
    <3>2. \A x, y \in Int : y # 0 => x + y # x
      OBVIOUS
    <3> QED
      BY <2>2, <3>1, <3>2
  <2> QED
    BY <1>2, <2>1, <2>3
<1>9. PICK e : e = [NoErrand EXCEPT !.operator = TRUE]
  OBVIOUS
<1>10. e \in Errands /\ e.operator
  BY <1>9, RemOpening DEF Errands, NoErrand
<1>11. "readTimes" \in RemLabels /\ errand' = [errand EXCEPT ![h] = e]
  BY <1>9 DEF RemLabels, MoveTimes, Run
<1>12. /\ at' \in [Handlers -> RemLabels] /\ errand' \in [Handlers -> Errands]
       /\ at'[h] = "readTimes" /\ errand'[h] = e
       /\ \A g \in Handlers : g # h => at'[g] = at[g] /\ errand'[g] = errand[g]
  BY <1>1, <1>2, <1>10, <1>11, RemMoves
<1>13. \A g \in Handlers : at'[g] = "idle" \/ (g = h /\ at'[g] = "readTimes")
  BY <1>3, <1>12
<1>14. /\ late \subseteq late'
       /\ Recruiting /\ timing'.closes <= time + SelectionLead => "selection" \in late'
       /\ phase = "in_progress" /\ timing'.to <= time + EndLead => "end" \in late'
  BY DEF MoveTimes
<1>15. timing'.closes \in Int /\ timing'.to \in Int /\ time \in Int /\ SelectionLead \in Int /\ EndLead \in Int
  BY <1>1, <1>8, ReminderAssumption DEF RemTyped, Timings
<1>16. RemTyped'
  BY <1>1, <1>2, <1>8, <1>12 DEF RemTyped
<1>17. WorkersHold'
  BY <1>1, <1>2, <1>3, <1>13 DEF WorkersHold, Working
<1>18. OperatorAlone'
  <2>1. "idle" \notin OperatorLabels /\ "readTimes" \in OperatorLabels
    BY DEF OperatorLabels
  <2> QED
    BY <1>3, <1>8, <1>10, <1>12, <1>13, <2>1 DEF OperatorAlone
<1>19. RequestsKnow'
  BY <1>13 DEF RequestsKnow, ArriveLabels, OperatorLabels
<1>20. SeatsFollow'
  BY <1>1, <1>2, <1>3 DEF SeatsFollow
<1>21. CastJobs'
  <2>1. Unread'
    BY <1>12 DEF Unread
  <2> QED
    BY <1>1, <1>2, <1>3, <1>13, <1>14, <2>1 DEF CastJobs
<1>22. EndMoves'
  <2>1. phase = "in_progress" => "end" \in late' \/ timing'.to > time + EndLead
    BY <1>14, <1>15
  <2> QED
    BY <1>2, <1>13, <2>1 DEF EndMoves
<1>23. SentOnce'
  BY <1>1, <1>2, <1>8, <1>13 DEF SentOnce, Working
<1>24. SelectionJobs'
  <2>1. SelectionAwaits' /\ OpenAwaits'
    BY <1>12 DEF SelectionAwaits, OpenAwaits, NoSelectionYet, NoOpenYet
  <2>2. nag' => nag /\ timing'.closes = timing.closes
    <3>1. nag' => nag /\ m.closes = 0
      BY <1>4
    <3>2. timing'.closes = timing.closes + m.closes /\ timing.closes \in Int
      BY <1>7
    <3> QED
      BY <3>1, <3>2
  <2>3. nag' => phase \notin {"new", "requested"} /\ time >= timing'.closes - SelectionLead
    BY <1>1, <2>2 DEF SelectionJobs, NagKnown
  <2>4. NagKnown'
    BY <1>2, <2>3 DEF NagKnown
  <2>5. nag' /\ phase = "cast_selectable" => "selection" \in late'
    <3>1. nag' => timing'.closes <= time + SelectionLead
      BY <1>15, <2>3
    <3> QED
      BY <1>14, <3>1 DEF Recruiting
  <2>6. ChoiceReminded'
    BY <1>2, <2>5 DEF ChoiceReminded
  <2> QED
    BY <2>1, <2>4, <2>6 DEF SelectionJobs
<1>25. ReviewJobs'
  BY <1>1, <1>2 DEF ReviewJobs, With
<1> QED
  BY <1>16, <1>17, <1>18, <1>19, <1>20, <1>21, <1>22, <1>23, <1>24, <1>25 DEF RemFacts

LEMMA RemTick ==
  ASSUME RemFacts, Tick
  PROVE  RemFacts'
<1>1. /\ RemTyped /\ WorkersHold /\ OperatorAlone /\ RequestsKnow /\ SeatsFollow
      /\ CastJobs /\ EndMoves /\ SentOnce /\ SelectionJobs /\ ReviewJobs
  BY DEF RemFacts
<1>2. /\ time < MaxTime /\ time' = time + 1 /\ Due = {}
      /\ nag' = IF time' = timing.closes - SelectionLead
                THEN phase = "cast_selectable" /\ RealSelection ELSE nag
      /\ at' = at /\ faults' = faults /\ errand' = errand /\ queue' = queue /\ late' = late
      /\ needed' = needed /\ timing' = timing /\ phase' = phase /\ seat' = seat
      /\ arrivedAt' = arrivedAt /\ gone' = gone /\ reminded' = reminded /\ asked' = asked
  BY DEF Tick, OrderSame, ToldSame, handlerVars
<1>3. \A g \in Handlers : at[g] = "idle" /\ ~Working(g)
  BY DEF Tick, AtRest, Idle, Working
<1>4. time \in Int /\ timing.closes \in Int /\ SelectionLead \in Int /\ \A j \in Jobs : queue[j].at \in Int
  BY <1>1, ReminderAssumption DEF RemTyped, Timings, QueueEntry
<1>5. \A j \in Jobs : queue[j].state # "running" /\ (queue[j].state = "delayed" => queue[j].at > time)
  <2>1. \A j \in Jobs : queue[j].state # "running"
    BY <1>1, <1>3 DEF WorkersHold
  <2>2. \A j \in Jobs : queue[j].state = "delayed" => ~(queue[j].at <= time)
    BY <1>2 DEF Due
  <2> QED
    BY <1>4, <2>1, <2>2
<1>6. RemTyped'
  <2>1. time' \in 0..MaxTime
    BY <1>1, <1>2, ReminderAssumption DEF RemTyped
  <2> QED
    BY <1>1, <1>2, <2>1 DEF RemTyped
<1>7. WorkersHold'
  <2>1. \A j \in Jobs : queue[j].state = "delayed" => queue[j].at >= time'
    BY <1>2, <1>4, <1>5
  <2>2. \A g \in Handlers : ~Working(g)'
    BY <1>2, <1>3 DEF Working
  <2> QED
    BY <1>2, <1>5, <2>1, <2>2 DEF WorkersHold
<1>8. OperatorAlone'
  BY <1>1, <1>2 DEF OperatorAlone
<1>9. RequestsKnow'
  BY <1>2, <1>3 DEF RequestsKnow, ArriveLabels, OperatorLabels
<1>10. SeatsFollow'
  BY <1>1, <1>2 DEF SeatsFollow
<1>11. CastJobs'
  <2>1. ASSUME NEW t \in Int, NEW d, NEW a, OnTime(t, d, a) PROVE OnTime(t, d, a)'
    BY <1>2, <1>4, <2>1 DEF OnTime, MaxOfTwo
  <2>2. \A i \in RemindedCasts : RemindTime(i, timing)' = RemindTime(i, timing) /\ i \in Jobs
    BY <1>2, RemOpening DEF RemindTime
  <2>3. ~Unread /\ ~Unread'
    BY <1>2, <1>3 DEF Unread
  <2> QED
    BY <1>1, <1>2, <1>3, <1>4, <2>1, <2>2, <2>3 DEF CastJobs
<1>12. EndMoves'
  BY <1>2, <1>3 DEF EndMoves
<1>13. SentOnce'
  BY <1>1, <1>2 DEF SentOnce, MaxOfTwo, Working
<1>14. SelectionJobs'
  <2>1. (RealSelection' <=> RealSelection) /\ (Recruiting' <=> Recruiting)
    BY <1>2 DEF RealSelection, Recruiting, With
  <2>2. time' < timing.closes - SelectionLead => time < timing.closes - SelectionLead
    BY <1>2, <1>4
  <2>3. SelectionAwaits'
    BY <1>1, <1>2, <2>1, <2>2 DEF SelectionJobs, SelectionAwaits
  <2>4. NagKnown'
    <3>1. time >= timing.closes - SelectionLead => time' >= timing.closes - SelectionLead
      BY <1>2, <1>4
    <3>2. time' = timing.closes - SelectionLead => time' >= timing.closes - SelectionLead
      BY <1>2, <1>4
    <3>3. CASE time' = timing.closes - SelectionLead
      BY <1>2, <3>2, <3>3 DEF NagKnown
    <3>4. CASE time' # timing.closes - SelectionLead
      BY <1>1, <1>2, <3>1, <3>4 DEF SelectionJobs, NagKnown
    <3> QED
      BY <3>3, <3>4
  <2>5. ChoiceReminded'
    <3> SUFFICES ASSUME nag', phase = "cast_selectable", "selection" \notin late
                 PROVE  /\ \A g \in Handlers : at[g] \notin OperatorLabels
                        /\ \/ reminded["selection"].times > 0
                           \/ queue["selection"].state = "failed"
                           \/ /\ time' = timing.closes - SelectionLead /\ RealSelection
                              /\ queue["selection"].state = "delayed" /\ queue["selection"].at = time'
      BY <1>2, <2>1 DEF ChoiceReminded
    <3>1. \A g \in Handlers : at[g] \notin OperatorLabels
      BY <1>3 DEF OperatorLabels
    <3>2. CASE time' = timing.closes - SelectionLead
      <4>1. time < timing.closes - SelectionLead /\ Recruiting
        BY <1>2, <1>4, <3>2 DEF Recruiting
      <4>2. \A g \in Handlers : at[g] \notin NoSelectionYet
        BY <1>3 DEF NoSelectionYet
      <4>3. queue["selection"].state = "delayed" /\ queue["selection"].at = timing.closes - SelectionLead
        BY <1>1, <4>1, <4>2 DEF SelectionJobs, SelectionAwaits
      <4> QED
        BY <1>2, <3>1, <3>2, <4>3
    <3>3. CASE time' # timing.closes - SelectionLead
      <4>1. nag
        BY <1>2, <3>3
      <4>2. "selection" \in Jobs
        BY RemOpening
      <4>3. ~(queue["selection"].state = "delayed" /\ queue["selection"].at = time)
            /\ queue["selection"].state # "running"
        BY <1>4, <1>5, <4>2
      <4> QED
        BY <1>1, <3>1, <4>1, <4>3 DEF SelectionJobs, ChoiceReminded
    <3> QED
      BY <3>2, <3>3
  <2>6. OpenAwaits'
    <3>1. "open" \in Jobs /\ (queue["open"].at <= time => queue["open"].at <= time')
      BY <1>2, <1>4, RemOpening
    <3> QED
      BY <1>1, <1>2, <2>1, <3>1 DEF SelectionJobs, OpenAwaits
  <2> QED
    BY <2>3, <2>4, <2>5, <2>6 DEF SelectionJobs
<1>15. ReviewJobs'
  <2>1. "review" \in Jobs /\ (queue["review"].at <= time => queue["review"].at <= time')
    BY <1>2, <1>4, RemOpening
  <2>2. With("attending")' = With("attending")
    BY <1>2 DEF With
  <2> QED
    BY <1>1, <1>2, <2>1, <2>2 DEF ReviewJobs
<1> QED
  BY <1>6, <1>7, <1>8, <1>9, <1>10, <1>11, <1>12, <1>13, <1>14, <1>15 DEF RemFacts

\* Every step of the order, of its requests and of its workers keeps the facts.
LEMMA RemNextOK ==
  ASSUME RemIInv, [RemindersNext]_<<handlerVars, jobVars>>
  PROVE  RemIInv'
<1>1. CASE UNCHANGED <<handlerVars, jobVars>>
  <2>1. /\ at' = at /\ faults' = faults /\ time' = time /\ needed' = needed /\ timing' = timing
        /\ phase' = phase /\ seat' = seat /\ arrivedAt' = arrivedAt /\ gone' = gone
        /\ queue' = queue /\ reminded' = reminded /\ asked' = asked /\ errand' = errand
        /\ nag' = nag /\ late' = late /\ torn' = torn
    BY <1>1 DEF handlerVars, jobVars
  <2> SUFFICES ASSUME RemFacts PROVE RemFacts'
    BY <2>1 DEF RemIInv
  <2>2. RemTyped' /\ WorkersHold' /\ OperatorAlone'
    BY <2>1 DEF RemFacts, RemTyped, WorkersHold, OperatorAlone, Working
  <2>3. RequestsKnow' /\ SeatsFollow' /\ EndMoves'
    BY <2>1 DEF RemFacts, RequestsKnow, SeatsFollow, EndMoves
  <2>4. CastJobs' /\ SentOnce'
    BY <2>1 DEF RemFacts, CastJobs, SentOnce, Working, Unread, OnTime, RemindTime, MaxOfTwo
  <2>5. SelectionJobs'
    BY <2>1 DEF RemFacts, SelectionJobs, SelectionAwaits, NagKnown, ChoiceReminded, OpenAwaits,
                Recruiting, RealSelection, With
  <2>6. ReviewJobs'
    BY <2>1 DEF RemFacts, ReviewJobs, With
  <2> QED
    BY <2>2, <2>3, <2>4, <2>5, <2>6 DEF RemFacts
<1>2. CASE RemindersNext
  <2> SUFFICES ASSUME ~torn' PROVE RemFacts'
    BY DEF RemIInv
  <2>1. RemFacts
    BY <1>2 DEF RemindersNext, RemIInv
  <2>2. CASE OrderMoves
    <3>1. ClockSame /\ ToldSame /\ UNCHANGED <<handlerVars, queue, errand>> /\ (EnterOrder \/ ChooseCasts)
      BY <2>2 DEF OrderMoves
    <3> QED
      BY <2>1, <3>1, RemEnterOrder, RemChooseCasts
  <2>3. CASE LeaveOrder
    BY <2>1, <2>3, RemLeaveOrder
  <2>4. CASE Tick
    BY <2>1, <2>4, RemTick
  <2>5. ASSUME NEW h \in Handlers,
               \/ SetUpReminders(h) \/ EnqueueOpen(h) \/ EnqueueRemindSelectionEnd(h)
               \/ ArriveAtOrder(h) \/ SetArrival(h) \/ EnqueueRemindMeetingEnd(h) \/ BeginOrder(h)
        PROVE  RemFacts'
    BY <2>1, <2>5, RemSetUpReminders, RemEnqueueOpen, RemEnqueueRemindSelectionEnd, RemArriveAtOrder,
       RemSetArrival, RemEnqueueRemindMeetingEnd, RemBeginOrder
  <2>6. ASSUME NEW h \in Handlers,
               \/ TakeJob(h) \/ OpenSelection(h) \/ FindSelectable(h) \/ FindRealSelection(h)
               \/ FindOrder(h) \/ FindSeat(h) \/ SendReminder(h) \/ FinishReminder(h)
               \/ AskForReview(h) \/ ReminderDie(h)
        PROVE  RemFacts'
    BY <2>1, <2>6, RemTakeJob, RemOpenSelection, RemFindSelectable, RemFindRealSelection, RemFindOrder,
       RemFindSeat, RemSendReminder, RemFinishReminder, RemAskForReview, RemReminderDie
  <2>7. ASSUME NEW h \in Handlers,
               \/ MoveTimes(h) \/ ReadTimes(h) \/ RemoveSelectionJobs(h) \/ AddOpenAgain(h)
               \/ AddSelectionAgain(h) \/ RemoveEndJobs(h) \/ FindArrived(h) \/ AddEndsAgain(h)
        PROVE  RemFacts'
    BY <2>1, <2>7, RemMoveTimes, RemReadTimes, RemRemoveSelectionJobs, RemAddOpenAgain,
       RemAddSelectionAgain, RemRemoveEndJobs, RemFindArrived, RemAddEndsAgain
  <2> QED
    BY <1>2, <2>2, <2>3, <2>4, <2>5, <2>6, <2>7 DEF RemindersNext
<1> QED
  BY <1>1, <1>2
-----------------------------------------------------------------------------
(* What members are told *)

NoticeLabels ==
    {"idle", "write", "enqueue", "writeAll", "commit", "register", "forget",
     "resolve", "web", "push", "line"}
Refusals == Couple \X {"block", "silence"}
AllDevices == Phones \cup UNION {c.devices : c \in NoticeCases}
LetterRows ==
    {r \in [to : Couple \cup {"admin"}, from : Couple \cup {"system"}, about : Couple \cup {"nobody"},
            alert : BOOLEAN, state : {"writing", "there", "gone"}, event : Nat,
            kind : LetterKinds \cup {"none"}] :
        r.alert => r.to \in Couple}
Deliveries == [web : Nat, line : Nat, pushed : SUBSET AllDevices]
NoticeRows ==
    [kind : LetterKinds \cup {"none"}, event : Nat, left : Seq(LetterRows), job : Int,
     to : SUBSET Couple, quiet : SUBSET Couple, list : SUBSET AllDevices,
     tried : SUBSET AllDevices, firm : SUBSET Refusals]

NoticeTyped ==
    /\ at \in [Handlers -> NoticeLabels] /\ Bounded /\ Sequential
    /\ people \in NoticeCases /\ devices \subseteq AllDevices /\ wanted \subseteq AllDevices
    /\ letters \in Seq(LetterRows) /\ news \in {"none", "requested", "closed"}
    /\ alerts \subseteq 0..Len(letters)
    /\ refusals \subseteq Refusals /\ averse \subseteq Couple
    /\ delivered \in [0..Len(letters) -> Deliveries] /\ wrong \in BOOLEAN
    /\ notice \in [Handlers -> NoticeRows]

\* A job that is carried is of a letter that has been written, or of the order, and who
\* writes letters has one to write.
Carrying == {"enqueue", "resolve", "web", "push", "line"}
Sending == {"web", "push", "line"}
JobsWritten ==
    \A h \in Handlers :
        /\ at[h] \in Carrying => notice[h].job \in 0..Len(letters)
        /\ at[h] = "write" => notice[h].left # <<>>

\* A job does not send to who has refused since it began.
MeansWell(h) ==
    LET n == notice[h]
    IN  /\ n.to \cap Refusers(n.firm, n.job, FALSE) = {}
        /\ (n.to \ n.quiet) \cap Refusers(n.firm, n.job, TRUE) = {}
        /\ n.list # {} => Invitee \in n.to
RefusalsKept ==
    /\ ~wrong
    /\ \A u \in Couple, way \in {"block", "silence"} : <<u, way>> \in refusals => u \in averse
    /\ \A h \in Handlers : notice[h].firm \subseteq refusals
    /\ \A h \in Handlers : at[h] \in Sending => MeansWell(h)

\* A job sends of a message that is there.
SentAreThere ==
    /\ AlertsAreOfMessages
    /\ \A h \in Handlers : at[h] \in Sending /\ notice[h].job > 0 =>
          letters[notice[h].job].state = "there"

\* What is to be passed on of the letters ls has been told before, in ls or by event e.
ToldIn(ls, p) == \E q \in 1..(p - 1) : ls[q].to = ls[p].about
ToldBefore(e, u) ==
    \E j \in DOMAIN letters :
        letters[j].to = u /\ letters[j].event = e /\ letters[j].state = "there"
ToldFirst ==
    /\ PassedOnIsTold
    /\ \A h \in Handlers : \A p \in DOMAIN notice[h].left :
          at[h] \in {"write", "writeAll"} =>
              LET n == notice[h]
              IN  n.left[p].about # "nobody" =>
                    ToldIn(n.left, p) \/ (at[h] = "write" /\ ToldBefore(n.event, n.left[p].about))

\* What a cast is told is passed on, or will be.
PassesOn(ls, p) == \E q \in DOMAIN ls : q > p /\ ls[q].about = ls[p].to
IsPassedOn(i) ==
    \/ \E j \in DOMAIN letters :
          letters[j].event = letters[i].event /\ letters[j].about = letters[i].to
    \/ \E h \in Handlers :
          /\ at[h] = "write"
          /\ notice[h].event = letters[i].event /\ notice[h].kind = letters[i].kind
          /\ \E p \in DOMAIN notice[h].left : notice[h].left[p].about = letters[i].to
PassingOn ==
    /\ faults = 0 => \A i \in DOMAIN letters :
          letters[i].kind \in PassedOn /\ letters[i].to \in Couple /\ IsCast(letters[i].to)
             => IsPassedOn(i)
    /\ \A h \in Handlers : \A p \in DOMAIN notice[h].left :
          at[h] \in {"write", "writeAll"} =>
              LET n == notice[h]
              IN  /\ n.kind \in PassedOn /\ n.left[p].to \in Couple /\ IsCast(n.left[p].to)
                        => PassesOn(n.left, p)
                  /\ at[h] = "write" /\ n.left[p].alert => n.kind \notin PassedOn /\ Len(n.left) = 1

\* The devices, as long as handlers do not overlap: those that live are the ones a has, and
\* whenever a job has met dead ones one of them is gone.
MetDead == {i \in DOMAIN delivered : delivered[i].pushed \cap people.dead # {}}
DevicesOf(h) ==
    LET n == notice[h]
    IN  /\ at[h] \in {"register", "forget"} => n.list = devices
        /\ at[h] \in {"resolve", "web"} => n.tried = {}
        /\ at[h] = "web" => n.list = IF Invitee \in n.to THEN devices ELSE {}
        /\ at[h] = "push" =>
              /\ n.tried \subseteq n.list
              /\ Invitee \in n.to => Alive(n.list) = Alive(wanted)
              /\ \/ n.list = {}
                 \/ n.tried \cap people.dead = {} /\ devices = n.list
                 \/ \E d \in n.tried \cap people.dead : devices = n.list \ {d} /\ n.job \in MetDead
DevicesTrue ==
    /\ \A h \in Handlers : at[h] \in {"register", "forget"} => notice[h].tried \subseteq Phones
    /\ ~overlapped =>
        /\ Alive(devices) = Alive(wanted)
        /\ Cardinality(devices \cap people.dead) + Cardinality(MetDead) <= Cardinality(people.dead)
        /\ \A h \in Handlers : DevicesOf(h)

\* An alert's way as long as nothing disturbs it, to who has never refused one.
UndisturbedSoFar == ~overlapped /\ faults = 0
Audience(i) == IF i = 0 THEN {u \in Couple : IsCast(u)} ELSE {letters[i].to}
Awaited(i) ==
    IF i = 0 THEN news = "requested" /\ averse = {}
    ELSE letters[i].alert /\ letters[i].to \notin averse
Carried(i, ls) == \E h \in Handlers : at[h] \in ls /\ notice[h].job = i
SentByWeb(i) == i = 0 \/ delivered[i].web = 1
Arrived(i) ==
    SentByWeb(i) /\ delivered[i].line = 1 /\ (Invitee \in Audience(i) => Steady \subseteq delivered[i].pushed)
OnTheWay(i, h) ==
    LET n == notice[h]
    IN  /\ at[h] \in {"enqueue", "resolve", "web"} /\ n.job = i => delivered[i] = NothingSent
        /\ at[h] \in Sending /\ n.job = i =>
              /\ n.to = Audience(i) /\ n.quiet \cap Audience(i) = {}
              /\ Cardinality(Audience(i)) = 1
              /\ at[h] # "web" => SentByWeb(i) /\ delivered[i].line = 0
              /\ at[h] = "push" => n.tried \subseteq delivered[i].pushed
              /\ at[h] = "line" /\ Invitee \in Audience(i) => Steady \subseteq delivered[i].pushed
Underway(i) ==
    /\ i \in alerts => delivered[i] = NothingSent /\ ~Carried(i, Carrying)
    /\ i \notin alerts /\ ~Carried(i, Carrying) => Arrived(i)
    /\ \A h \in Handlers : OnTheWay(i, h)
AlertsUnderway ==
    /\ news # "none" => \E u \in Couple : IsGuest(u) /\ IsCast(OtherOne(u))
    /\ news = "none" => delivered[0] = NothingSent /\ 0 \notin alerts /\ ~Carried(0, Carrying)
    /\ UndisturbedSoFar =>
        /\ \A i \in DOMAIN letters : letters[i].state # "there" =>
              letters[i].state = "writing" /\ \E h \in Handlers :
                  at[h] = "commit" /\ notice[h].event = letters[i].event
        /\ \A i \in 0..Len(letters) : Awaited(i) => Underway(i)

\* The inductive invariant of what members are told.
NoticeIInv ==
    /\ NoticeTyped /\ JobsWritten /\ RefusalsKept /\ SentAreThere /\ ToldFirst /\ PassingOn
    /\ DevicesTrue /\ AlertsUnderway

\* Letters that are told before they are passed on.
AllTold(ls) == \A p \in DOMAIN ls : ls[p].about # "nobody" => ToldIn(ls, p)
AllPassOn(ls) ==
    \A p \in DOMAIN ls : ls[p].to \in Couple /\ IsCast(ls[p].to) => PassesOn(ls, p)
NoAlert(ls) == \A p \in DOMAIN ls : ~ls[p].alert
GoodLetters(ls) == ls \in Seq(LetterRows) /\ AllTold(ls)

LEMMA NoticeRowFields ==
  ASSUME NEW n \in NoticeRows
  PROVE  /\ n.kind \in LetterKinds \cup {"none"} /\ n.event \in Nat /\ n.left \in Seq(LetterRows)
         /\ n.job \in Int /\ n.to \subseteq Couple /\ n.quiet \subseteq Couple
         /\ n.list \subseteq AllDevices /\ n.tried \subseteq AllDevices /\ n.firm \subseteq Refusals
BY DEF NoticeRows

LEMMA LetterFields ==
  ASSUME NEW r \in LetterRows
  PROVE  /\ r.to \in Couple \cup {"admin"} /\ r.from \in Couple \cup {"system"}
         /\ r.about \in Couple \cup {"nobody"} /\ r.alert \in BOOLEAN
         /\ r.state \in {"writing", "there", "gone"} /\ r.event \in Nat
         /\ r.kind \in LetterKinds \cup {"none"} /\ (r.alert => r.to \in Couple)
BY DEF LetterRows

LEMMA LetterType ==
  ASSUME NEW to \in Couple \cup {"admin"}, NEW from \in Couple \cup {"system"},
         NEW alert \in BOOLEAN, alert => to \in Couple
  PROVE  /\ Letter(to, from, alert) \in LetterRows
         /\ Letter(to, from, alert).to = to /\ Letter(to, from, alert).about = "nobody"
         /\ Letter(to, from, alert).alert = alert
BY DEF Letter, LetterRows

\* One letter, ...
LEMMA OneLetter ==
  ASSUME NEW r \in LetterRows, r.about = "nobody"
  PROVE  /\ GoodLetters(<<r>>)
         /\ r.to \notin Couple \/ ~IsCast(r.to) => AllPassOn(<<r>>)
         /\ ~r.alert => NoAlert(<<r>>)
<1>1. <<r>> \in Seq(LetterRows) /\ DOMAIN <<r>> = {1} /\ <<r>>[1] = r
  OBVIOUS
<1> QED
  BY <1>1 DEF GoodLetters, AllTold, AllPassOn, NoAlert

\* ... two letters, ...
LEMMA TwoLetters ==
  ASSUME NEW r \in LetterRows, NEW s \in LetterRows, r.about = "nobody", s.about = r.to,
         s.to = "admin", ~r.alert, ~s.alert
  PROVE  GoodLetters(<<r>> \o <<s>>) /\ AllPassOn(<<r>> \o <<s>>) /\ NoAlert(<<r>> \o <<s>>)
<1>1. PICK ls : ls = <<r>> \o <<s>>
  OBVIOUS
<1>2. ls \in Seq(LetterRows) /\ Len(ls) = 2 /\ DOMAIN ls = {1, 2} /\ ls[1] = r /\ ls[2] = s
  BY <1>1
<1>3. ToldIn(ls, 2)
  BY <1>2 DEF ToldIn
<1>4. PassesOn(ls, 1)
  BY <1>2 DEF PassesOn
<1>5. "admin" \notin Couple
  BY DEF Couple, Invitee, Inviter
<1>6. GoodLetters(ls)
  BY <1>2, <1>3 DEF GoodLetters, AllTold
<1>7. AllPassOn(ls)
  BY <1>2, <1>4, <1>5 DEF AllPassOn
<1>8. NoAlert(ls)
  BY <1>2 DEF NoAlert
<1> QED
  BY <1>1, <1>6, <1>7, <1>8

\* ... and one after the other.
LEMMA MoreLetters ==
  ASSUME NEW s, NEW t, GoodLetters(s), GoodLetters(t)
  PROVE  /\ GoodLetters(s \o t)
         /\ AllPassOn(s) /\ AllPassOn(t) => AllPassOn(s \o t)
         /\ NoAlert(s) /\ NoAlert(t) => NoAlert(s \o t)
<1>1. s \in Seq(LetterRows) /\ t \in Seq(LetterRows)
  BY DEF GoodLetters
<1>2. PICK ls : ls = s \o t
  OBVIOUS
<1>3. PICK m \in Nat, n \in Nat : m = Len(s) /\ n = Len(t)
  BY <1>1
<1>4. /\ ls \in Seq(LetterRows) /\ DOMAIN ls = 1..(m + n)
      /\ DOMAIN s = 1..m /\ DOMAIN t = 1..n
      /\ \A p \in 1..m : ls[p] = s[p]
      /\ \A p \in 1..n : ls[m + p] = t[p]
  BY <1>1, <1>2, <1>3
<1>5. ASSUME NEW p \in 1..(m + n)
      PROVE  p \in 1..m \/ \E q \in 1..n : p = m + q
  <2>1. p \in 1..m \/ (p - m \in 1..n /\ p = m + (p - m))
    BY <1>3
  <2> QED
    BY <2>1
<1>6. AllTold(ls)
  <2> SUFFICES ASSUME NEW p \in 1..(m + n), ls[p].about # "nobody" PROVE ToldIn(ls, p)
    BY <1>4 DEF AllTold
  <2>1. CASE p \in 1..m
    <3>1. PICK q \in 1..(p - 1) : s[q].to = s[p].about
      BY <2>1, <1>4 DEF GoodLetters, AllTold, ToldIn
    <3>2. q \in 1..m
      BY <2>1, <1>3
    <3> QED
      BY <2>1, <3>1, <3>2, <1>4 DEF ToldIn
  <2>2. CASE \E q \in 1..n : p = m + q
    <3>1. PICK q \in 1..n : p = m + q
      BY <2>2
    <3>2. PICK o \in 1..(q - 1) : t[o].to = t[q].about
      BY <3>1, <1>4 DEF GoodLetters, AllTold, ToldIn
    <3>3. o \in 1..n /\ m + o \in 1..(p - 1)
      BY <3>1, <3>2, <1>3
    <3>4. ls[m + o].to = ls[p].about
      BY <3>1, <3>2, <3>3, <1>4
    <3> QED
      BY <3>3, <3>4 DEF ToldIn
  <2> QED
    BY <2>1, <2>2, <1>5
<1>7. ASSUME AllPassOn(s), AllPassOn(t) PROVE AllPassOn(ls)
  <2> SUFFICES ASSUME NEW p \in 1..(m + n), ls[p].to \in Couple, IsCast(ls[p].to)
               PROVE  PassesOn(ls, p)
    BY <1>4 DEF AllPassOn
  <2>1. CASE p \in 1..m
    <3>1. PICK q \in 1..m : q > p /\ s[q].about = s[p].to
      BY <2>1, <1>4, <1>7 DEF AllPassOn, PassesOn
    <3>2. q \in DOMAIN ls /\ ls[q].about = ls[p].to
      BY <2>1, <3>1, <1>3, <1>4
    <3> QED
      BY <3>1, <3>2 DEF PassesOn
  <2>2. CASE \E q \in 1..n : p = m + q
    <3>1. PICK o \in 1..n : p = m + o
      BY <2>2
    <3>2. PICK q \in 1..n : q > o /\ t[q].about = t[o].to
      BY <3>1, <1>4, <1>7 DEF AllPassOn, PassesOn
    <3>3. m + q \in DOMAIN ls /\ m + q > p /\ ls[m + q].about = ls[p].to
      BY <3>1, <3>2, <1>3, <1>4
    <3> QED
      BY <3>3 DEF PassesOn
  <2> QED
    BY <2>1, <2>2, <1>5
<1>8. ASSUME NoAlert(s), NoAlert(t) PROVE NoAlert(ls)
  <2> SUFFICES ASSUME NEW p \in 1..(m + n) PROVE ~ls[p].alert
    BY <1>4 DEF NoAlert
  <2> QED
    BY <1>4, <1>5, <1>8 DEF NoAlert
<1>9. GoodLetters(ls)
  BY <1>4, <1>6 DEF GoodLetters
<1> QED
  BY <1>2, <1>7, <1>8, <1>9

\* What is told to one.
LEMMA InformLetters ==
  ASSUME NEW u \in Couple
  PROVE  /\ GoodLetters(Inform(u)) /\ NoAlert(Inform(u)) /\ (~IsCast(u) => AllPassOn(Inform(u)))
         /\ GoodLetters(Alert(u))
         /\ GoodLetters(Remind) /\ NoAlert(Remind)
         /\ GoodLetters(TellAndPassOn(u)) /\ AllPassOn(TellAndPassOn(u)) /\ NoAlert(TellAndPassOn(u))
<1>1. PICK r : r = Letter(u, "system", FALSE)
  OBVIOUS
<1>2. r \in LetterRows /\ r.to = u /\ r.about = "nobody" /\ ~r.alert
  BY <1>1, LetterType
<1>3. Inform(u) = <<r>>
  BY <1>1 DEF Inform
<1>4. GoodLetters(Inform(u)) /\ NoAlert(Inform(u)) /\ (~IsCast(u) => AllPassOn(Inform(u)))
  BY <1>2, <1>3, OneLetter
<1>5. GoodLetters(Alert(u))
  <2>1. PICK a : a = Letter(u, "system", TRUE)
    OBVIOUS
  <2>2. a \in LetterRows /\ a.about = "nobody"
    BY <2>1, LetterType
  <2>3. Alert(u) = <<a>>
    BY <2>1 DEF Alert
  <2> QED
    BY <2>2, <2>3, OneLetter
<1>6. ASSUME NEW v \in Couple \cup {"nobody"}
      PROVE  \E s \in LetterRows : /\ PassOn(v) = <<s>> /\ s.about = v /\ s.to = "admin" /\ ~s.alert
  <2>1. PICK s : s = [Letter("admin", "system", FALSE) EXCEPT !.about = v]
    OBVIOUS
  <2>2. s \in LetterRows /\ s.about = v /\ s.to = "admin" /\ s.alert = FALSE
    BY <2>1 DEF Letter, LetterRows
  <2>3. PassOn(v) = <<s>>
    BY <2>1 DEF PassOn
  <2> QED
    BY <2>2, <2>3
<1>7. GoodLetters(Remind) /\ NoAlert(Remind)
  <2>1. PICK s \in LetterRows : PassOn("nobody") = <<s>> /\ s.about = "nobody" /\ ~s.alert
    BY <1>6
  <2> QED
    BY <2>1, OneLetter DEF Remind
<1>8. GoodLetters(TellAndPassOn(u)) /\ AllPassOn(TellAndPassOn(u)) /\ NoAlert(TellAndPassOn(u))
  <2>1. PICK s \in LetterRows : PassOn(u) = <<s>> /\ s.about = u /\ s.to = "admin" /\ ~s.alert
    BY <1>6
  <2>2. TellAndPassOn(u) = <<r>> \o <<s>>
    BY <2>1, <1>3 DEF TellAndPassOn
  <2> QED
    BY <2>1, <2>2, <1>2, TwoLetters
<1> QED
  BY <1>4, <1>5, <1>7, <1>8

\* What is told when something happens.
LEMMA LettersAre ==
  ASSUME NEW k, NEW u \in Couple, Happens(k, u)
  PROVE  /\ GoodLetters(Letters(k, u))
         /\ k \in PassedOn => AllPassOn(Letters(k, u))
         /\ k \notin Settling =>
               NoAlert(Letters(k, u)) \/ (k = "chat" /\ Len(Letters(k, u)) = 1)
<1>0. u \in Couple /\ OtherOne(u) \in Couple /\ Inviter \in Couple
  BY DEF OtherOne, Couple, Invitee, Inviter
<1>n. GoodLetters(<<>>) /\ NoAlert(<<>>)
  <2>1. <<>> \in Seq(LetterRows)
    OBVIOUS
  <2> QED
    BY <2>1 DEF GoodLetters, AllTold, NoAlert
<1>1. CASE k = "registered"
  <2>1. Letters(k, u) = RegistrationMessage(u)
    BY <1>1 DEF Letters
  <2>2. PICK more : /\ RegistrationMessage(u) = Inform(u) \o more
                    /\ more = IF u = Inviter \/ ~people.invited \/ TypeOf(u) # "customer" THEN <<>>
                         ELSE CASE TypeOf(Inviter) = "customer" ->
                                 Inform(u) \o (IF TargetRewardingRule = "none" THEN <<>> ELSE Inform(Inviter))
                              [] TypeOf(Inviter) = "inviter" -> Inform(u) \o Inform(Inviter)
                              [] OTHER                       -> Inform(u) \o TellAndPassOn(Inviter)
    BY DEF RegistrationMessage
  <2>3. \/ more = <<>>
        \/ more = Inform(u) \o <<>>
        \/ more = Inform(u) \o Inform(Inviter)
        \/ more = Inform(u) \o TellAndPassOn(Inviter)
    BY <2>2 DEF TargetRewardingRule
  <2>4. GoodLetters(more) /\ NoAlert(more)
    BY <2>3, <1>0, <1>n, InformLetters, MoreLetters
  <2>5. GoodLetters(Inform(u) \o more) /\ NoAlert(Inform(u) \o more)
    BY <2>4, <1>0, InformLetters, MoreLetters
  <2>6. k \notin PassedOn
    BY <1>1 DEF PassedOn
  <2> QED
    BY <2>1, <2>2, <2>5, <2>6
<1>2. CASE k = "invitedOrder"
  <2>1. Letters(k, u) = InviteMeetingMessage(u)
    BY <1>2 DEF Letters
  <2>2. \/ ~IsCast(Inviter) /\ InviteMeetingMessage(u) = Inform(Inviter)
        \/ InviteMeetingMessage(u) = TellAndPassOn(Inviter)
        \/ InviteMeetingMessage(u) = TellAndPassOn(Inviter) \o TellAndPassOn(u)
    BY DEF InviteMeetingMessage
  <2>3. GoodLetters(InviteMeetingMessage(u)) /\ AllPassOn(InviteMeetingMessage(u))
    BY <2>2, <1>0, InformLetters, MoreLetters
  <2>4. k \in Settling
    BY <1>2 DEF Settling
  <2> QED
    BY <2>1, <2>3, <2>4
<1>3. CASE k = "shares"
  <2>1. Letters(k, u) = InviterReward(u)
    BY <1>3 DEF Letters
  <2>2. \/ InviterReward(u) = Alert(Inviter) \o Inform(u)
        \/ InviterReward(u) = Inform(u)
    BY DEF InviterReward, InviterTurnoverMessage, InformParticipantOfInvitationShareBonus,
           InformParticipantOfMissingInvitationShareBonus
  <2>3. GoodLetters(InviterReward(u))
    BY <2>2, <1>0, InformLetters, MoreLetters
  <2>4. k \in Settling /\ k \notin PassedOn
    BY <1>3 DEF Settling, PassedOn
  <2> QED
    BY <2>1, <2>3, <2>4
<1>4. CASE k \in {"badReview", "goodReview"}
  <2>1. \E stars \in {1, 5} : Letters(k, u) = ReceiveReviewMessage(u, stars)
    BY <1>4 DEF Letters
  <2>2. PICK stars : Letters(k, u) = ReceiveReviewMessage(u, stars)
    BY <2>1
  <2>3. \/ ReceiveReviewMessage(u, stars) = (Inform(u) \o Inform(OtherOne(u))) \o Remind
        \/ ReceiveReviewMessage(u, stars) = (<<>> \o Inform(OtherOne(u))) \o Remind
        \/ ReceiveReviewMessage(u, stars) = Remind
    BY DEF ReceiveReviewMessage
  <2>4. /\ GoodLetters(Inform(u) \o Inform(OtherOne(u))) /\ NoAlert(Inform(u) \o Inform(OtherOne(u)))
        /\ GoodLetters(<<>> \o Inform(OtherOne(u))) /\ NoAlert(<<>> \o Inform(OtherOne(u)))
    BY <1>0, <1>n, InformLetters, MoreLetters
  <2>5. GoodLetters(Remind) /\ NoAlert(Remind)
    BY <1>0, InformLetters
  <2>6. GoodLetters(ReceiveReviewMessage(u, stars)) /\ NoAlert(ReceiveReviewMessage(u, stars))
    BY <2>3, <2>4, <2>5, MoreLetters
  <2>7. k \notin PassedOn
    BY <1>4 DEF PassedOn
  <2> QED
    BY <2>2, <2>6, <2>7
<1>5. CASE k = "patron"
  <2>1. Letters(k, u) = (Alert(u) \o Alert(OtherOne(u))) \o Remind
    BY <1>5 DEF Letters, PatronMessage
  <2>2. GoodLetters(Alert(u) \o Alert(OtherOne(u)))
    BY <1>0, InformLetters, MoreLetters
  <2>3. GoodLetters(Remind)
    BY <1>0, InformLetters
  <2>4. GoodLetters((Alert(u) \o Alert(OtherOne(u))) \o Remind)
    BY <2>2, <2>3, MoreLetters
  <2>5. k \in Settling /\ k \notin PassedOn
    BY <1>5 DEF Settling, PassedOn
  <2> QED
    BY <2>1, <2>4, <2>5
<1>6. CASE k = "chat"
  <2>1. PICK r : r = Letter(OtherOne(u), u, TRUE)
    OBVIOUS
  <2>2. Letters(k, u) = <<r>>
    BY <1>6, <2>1 DEF Letters
  <2>3. r \in LetterRows /\ r.about = "nobody"
    BY <2>1, <1>0, LetterType
  <2>4. GoodLetters(<<r>>) /\ Len(<<r>>) = 1
    BY <2>3, OneLetter
  <2>5. k \notin PassedOn
    BY <1>6 DEF PassedOn
  <2> QED
    BY <2>2, <2>4, <2>5, <1>6
<1>7. CASE k \notin {"registered", "invitedOrder", "shares", "badReview", "goodReview", "patron", "chat"}
  <2>1. Letters(k, u) = TellAndPassOn(u)
    BY <1>7 DEF Letters, MeetingCompleteAttendanceForCast, ReviewServiceFeeResetMessage,
                FirstMeetingSendMessage, FirstMeetingEndSendMessage
  <2> QED
    BY <2>1, InformLetters
<1> QED
  BY <1>1, <1>2, <1>3, <1>4, <1>5, <1>6, <1>7

\* What the others have under way stays, but for what they know of refusals.
KeepsNotice(g) ==
    LET m == notice[g]
        n == notice'[g]
    IN  /\ n.kind = m.kind /\ n.event = m.event /\ n.left = m.left /\ n.job = m.job
        /\ n.to = m.to /\ n.quiet = m.quiet /\ n.list = m.list /\ n.tried = m.tried
        /\ n.firm \subseteq m.firm

\* A step of h.
Moved(h) ==
    /\ at' \in [Handlers -> NoticeLabels] /\ Bounded' /\ Sequential'
    /\ faults <= faults' /\ faults \in Nat /\ faults' \in Nat
    /\ ~overlapped' => ~overlapped /\ \A g \in Handlers \ {h} : at[g] = "idle" /\ at'[g] = "idle"
    /\ notice' \in [Handlers -> NoticeRows]
    /\ \A g \in Handlers \ {h} : at'[g] = at[g] /\ KeepsNotice(g)

LEMMA HandlingMoved ==
  ASSUME NoticeTyped, NEW h \in Handlers, NEW l \in NoticeLabels, NEW n \in NoticeRows,
         HandlerStep(h, l) \/ (Deliver(h, l) /\ UNCHANGED begun), Handling(h, n)
  PROVE  Moved(h) /\ at'[h] = l /\ notice'[h] = n
<1>1. at \in [Handlers -> NoticeLabels] /\ Bounded /\ Sequential /\ overlapped \in BOOLEAN
  BY DEF NoticeTyped, Bounded
<1>2. /\ at' \in [Handlers -> NoticeLabels] /\ Bounded' /\ Sequential' /\ MovesTo(h, l)
      /\ faults <= faults'
      /\ ~overlapped' =>
            ~overlapped /\ \A g \in Handlers \ {h} : at[g] = "idle" /\ at'[g] = "idle"
  <2>1. CASE HandlerStep(h, l)
    BY <2>1, <1>1, HandlerSteps
  <2>2. CASE Deliver(h, l) /\ UNCHANGED begun
    <3>1. /\ at' \in [Handlers -> NoticeLabels] /\ Sequential' /\ overlapped' \in BOOLEAN
          /\ MovesTo(h, l) /\ at[h] = "idle" /\ faults' = faults
          /\ ~overlapped' => ~overlapped /\ AtRest
      BY <2>2, <1>1, DeliverMoves
    <3>2. AtRest => \A g \in Handlers : at[g] = "idle"
      BY DEF AtRest, Idle
    <3>3. Bounded' /\ faults <= faults'
      <4>1. faults \in 0..MaxFaults /\ begun \in 0..MaxRequests
        BY <1>1 DEF Bounded
      <4>2. faults <= faults'
        BY <4>1, <3>1, HandlerBoundAssumption
      <4> QED
        BY <4>1, <4>2, <3>1, <2>2 DEF Bounded
    <3> QED
      BY <3>1, <3>2, <3>3 DEF MovesTo
  <2> QED
    BY <2>1, <2>2
<1>3. faults \in Nat /\ faults' \in Nat
  BY <1>1, <1>2, HandlerBoundAssumption DEF Bounded
<1>4. notice \in [Handlers -> NoticeRows] /\ notice' = [notice EXCEPT ![h] = n]
  BY DEF NoticeTyped, Handling
<1>5. notice' \in [Handlers -> NoticeRows] /\ notice'[h] = n
  BY <1>4
<1>6. \A g \in Handlers \ {h} : notice'[g] = notice[g]
  BY <1>4
<1>7. \A g \in Handlers \ {h} : at'[g] = at[g] /\ KeepsNotice(g)
  BY <1>2, <1>6 DEF MovesTo, KeepsNotice
<1>8. at'[h] = l
  BY <1>2 DEF MovesTo
<1> QED
  BY <1>2, <1>3, <1>5, <1>7, <1>8 DEF Moved

\* The handler goes on and has the same under way.
LEMMA ContinueMoved ==
  ASSUME NoticeTyped, NEW h \in Handlers, NEW l \in NoticeLabels, at[h] # "idle",
         Continue(h, l), UNCHANGED notice
  PROVE  Moved(h) /\ at'[h] = l /\ notice'[h] = notice[h]
<1>1. notice \in [Handlers -> NoticeRows]
  BY DEF NoticeTyped
<1>2. notice[h] \in NoticeRows /\ Handling(h, notice[h])
  BY <1>1 DEF Handling
<1>3. HandlerStep(h, l)
  BY DEF HandlerStep
<1> QED
  BY <1>2, <1>3, HandlingMoved

LEMMA NothingUnderway ==
  /\ NoNotice \in NoticeRows /\ NoNotice.firm = {} /\ NoNotice.job = -1
BY DEF NoNotice, NoticeRows

LEMMA DoneMoved ==
  ASSUME NoticeTyped, NEW h \in Handlers, at[h] # "idle", NoticeDone(h)
  PROVE  Moved(h) /\ at'[h] = "idle" /\ notice'[h] = NoNotice /\ faults' = faults
         /\ overlapped' = overlapped /\ begun' = begun
<1>1. HandlerStep(h, "idle") /\ Handling(h, NoNotice)
  BY DEF NoticeDone, End, HandlerStep
<1>2. "idle" \in NoticeLabels
  BY DEF NoticeLabels
<1> QED
  BY <1>1, <1>2, NothingUnderway, HandlingMoved DEF NoticeDone, End, Continue

\* The letters stay as they are, but for their state.
RowsKept ==
    \A i \in DOMAIN letters :
        /\ i \in DOMAIN letters'
        /\ letters'[i].to = letters[i].to /\ letters'[i].from = letters[i].from
        /\ letters'[i].about = letters[i].about /\ letters'[i].alert = letters[i].alert
        /\ letters'[i].event = letters[i].event /\ letters'[i].kind = letters[i].kind
        /\ letters[i].state = "there" => letters'[i].state = "there"

LEMMA JobsStep ==
  ASSUME NoticeTyped, JobsWritten, NEW h \in Handlers, Moved(h), Len(letters) <= Len(letters'),
         Len(letters') \in Nat,
         at'[h] \in Carrying => notice'[h].job \in 0..Len(letters'),
         at'[h] = "write" => notice'[h].left # <<>>
  PROVE  JobsWritten'
<1> SUFFICES ASSUME NEW g \in Handlers
             PROVE  /\ at'[g] \in Carrying => notice'[g].job \in 0..Len(letters')
                    /\ at'[g] = "write" => notice'[g].left # <<>>
  BY DEF JobsWritten
<1>1. CASE g = h
  BY <1>1
<1>2. CASE g # h
  <2>1. at[g] = at'[g] /\ notice'[g].job = notice[g].job /\ notice'[g].left = notice[g].left
    BY <1>2 DEF Moved, KeepsNotice
  <2>2. Len(letters) \in Nat /\ (at[g] \in Carrying => notice[g].job \in 0..Len(letters))
    BY DEF JobsWritten, NoticeTyped
  <2>3. at[g] = "write" => notice[g].left # <<>>
    BY DEF JobsWritten
  <2>4. at[g] \in Carrying => notice[g].job \in 0..Len(letters')
    BY <2>2
  <2> QED
    BY <2>1, <2>3, <2>4
<1> QED
  BY <1>1, <1>2

LEMMA RefusalsStep ==
  ASSUME NoticeTyped, JobsWritten, RefusalsKept, NEW h \in Handlers, Moved(h), RowsKept, ~wrong',
         \A u \in Couple, way \in {"block", "silence"} : <<u, way>> \in refusals' => u \in averse',
         \A g \in Handlers : notice'[g].firm \subseteq refusals',
         at'[h] \in Sending => MeansWell(h)'
  PROVE  RefusalsKept'
<1>1. ASSUME NEW g \in Handlers, at'[g] \in Sending PROVE MeansWell(g)'
  <2>1. CASE g = h
    BY <1>1, <2>1
  <2>2. CASE g # h
    <3>1. at[g] = at'[g] /\ KeepsNotice(g)
      BY <2>2 DEF Moved
    <3>2. MeansWell(g) /\ notice[g].job \in 0..Len(letters)
      BY <1>1, <3>1 DEF RefusalsKept, JobsWritten, Sending, Carrying
    <3>3. PICK m, n : m = notice[g] /\ n = notice'[g]
      OBVIOUS
    <3>4. n.job = m.job /\ n.to = m.to /\ n.quiet = m.quiet /\ n.list = m.list /\ n.firm \subseteq m.firm
      BY <3>1, <3>3 DEF KeepsNotice
    <3>5. m.job # 0 => letters'[m.job].from = letters[m.job].from
      <4>1. letters \in Seq(LetterRows)
        BY DEF NoticeTyped
      <4>2. m.job # 0 => m.job \in DOMAIN letters
        BY <3>2, <3>3, <4>1
      <4> QED
        BY <4>2 DEF RowsKept
    <3>6. \A line \in BOOLEAN : Refusers(n.firm, n.job, line)' \subseteq Refusers(m.firm, m.job, line)
      BY <3>4, <3>5 DEF Refusers
    <3>7. /\ Refusers(n.firm, n.job, FALSE)' \subseteq Refusers(m.firm, m.job, FALSE)
          /\ Refusers(n.firm, n.job, TRUE)' \subseteq Refusers(m.firm, m.job, TRUE)
      BY <3>6
    <3>8. /\ m.to \cap Refusers(m.firm, m.job, FALSE) = {}
          /\ (m.to \ m.quiet) \cap Refusers(m.firm, m.job, TRUE) = {}
          /\ m.list # {} => Invitee \in m.to
      BY <3>2, <3>3 DEF MeansWell
    <3>9. /\ n.to \cap Refusers(n.firm, n.job, FALSE)' = {}
          /\ (n.to \ n.quiet) \cap Refusers(n.firm, n.job, TRUE)' = {}
          /\ n.list # {} => Invitee \in n.to
      BY <3>4, <3>7, <3>8
    <3> QED
      BY <3>3, <3>9 DEF MeansWell, Refusers
  <2> QED
    BY <2>1, <2>2
<1> QED
  BY <1>1 DEF RefusalsKept

LEMMA SentStep ==
  ASSUME NoticeTyped, JobsWritten, SentAreThere, NEW h \in Handlers, Moved(h), RowsKept,
         AlertsAreOfMessages',
         at'[h] \in Sending /\ notice'[h].job > 0 => letters'[notice'[h].job].state = "there"
  PROVE  SentAreThere'
<1> SUFFICES ASSUME NEW g \in Handlers, at'[g] \in Sending, notice'[g].job > 0
             PROVE  letters'[notice'[g].job].state = "there"
  BY DEF SentAreThere
<1>1. CASE g = h
  BY <1>1
<1>2. CASE g # h
  <2>1. at[g] \in Sending /\ notice'[g].job = notice[g].job
    BY <1>2 DEF Moved, KeepsNotice
  <2>2. letters[notice[g].job].state = "there"
    BY <2>1 DEF SentAreThere
  <2>3. notice[g].job \in 0..Len(letters) /\ letters \in Seq(LetterRows)
    BY <2>1 DEF JobsWritten, Sending, Carrying, NoticeTyped
  <2>4. notice[g].job \in DOMAIN letters
    BY <2>1, <2>3
  <2> QED
    BY <2>1, <2>2, <2>4 DEF RowsKept
<1> QED
  BY <1>1, <1>2

\* What h has left to pass on has been told.
LeftTold(h) ==
    at[h] \in {"write", "writeAll"} =>
        \A p \in DOMAIN notice[h].left :
            notice[h].left[p].about # "nobody" =>
                \/ ToldIn(notice[h].left, p)
                \/ at[h] = "write" /\ ToldBefore(notice[h].event, notice[h].left[p].about)

LEMMA ToldStep ==
  ASSUME ToldFirst, NEW h \in Handlers, Moved(h), RowsKept, PassedOnIsTold',
         LeftTold(h)'
  PROVE  ToldFirst'
<1> SUFFICES ASSUME NEW g \in Handlers, NEW p \in DOMAIN notice'[g].left,
                    at'[g] \in {"write", "writeAll"},
                    notice'[g].left[p].about # "nobody"
             PROVE  \/ ToldIn(notice'[g].left, p)
                    \/ at'[g] = "write" /\ ToldBefore(notice[g].event, notice[g].left[p].about)'
  BY DEF ToldFirst
<1>1. CASE g = h
  BY <1>1 DEF LeftTold
<1>2. CASE g # h
  <2>1. at[g] = at'[g] /\ notice'[g].left = notice[g].left /\ notice'[g].event = notice[g].event
    BY <1>2 DEF Moved, KeepsNotice
  <2>2. \/ ToldIn(notice[g].left, p)
        \/ at[g] = "write" /\ ToldBefore(notice[g].event, notice[g].left[p].about)
    BY <2>1 DEF ToldFirst
  <2>3. CASE ToldIn(notice[g].left, p)
    BY <2>1, <2>3
  <2>4. CASE at[g] = "write" /\ ToldBefore(notice[g].event, notice[g].left[p].about)
    <3>1. PICK j \in DOMAIN letters :
             /\ letters[j].to = notice[g].left[p].about
             /\ letters[j].event = notice[g].event /\ letters[j].state = "there"
      BY <2>4 DEF ToldBefore
    <3>2. /\ j \in DOMAIN letters' /\ letters'[j].to = letters[j].to
          /\ letters'[j].event = letters[j].event /\ letters'[j].state = "there"
      BY <3>1 DEF RowsKept
    <3> QED
      BY <2>1, <2>4, <3>1, <3>2 DEF ToldBefore
  <2> QED
    BY <2>2, <2>3, <2>4
<1> QED
  BY <1>1, <1>2

\* What is passed on stays passed on, unless it was left to h.
LEMMA PassedStep ==
  ASSUME PassingOn, NEW h \in Handlers, Moved(h), RowsKept, UNCHANGED people, faults' = 0,
         NEW i \in DOMAIN letters, letters[i].kind \in PassedOn, letters[i].to \in Couple,
         IsCast(letters[i].to),
         at[h] = "write" =>
            \A p \in DOMAIN notice[h].left :
                (notice[h].event = letters[i].event /\ notice[h].kind = letters[i].kind
                 /\ notice[h].left[p].about = letters[i].to) => IsPassedOn(i)'
  PROVE  IsPassedOn(i)'
<1>1. IsPassedOn(i)
  BY DEF PassingOn, Moved
<1>r. /\ letters'[i].event = letters[i].event /\ letters'[i].to = letters[i].to
      /\ letters'[i].kind = letters[i].kind
  BY DEF RowsKept
<1>2. CASE \E j \in DOMAIN letters :
              letters[j].event = letters[i].event /\ letters[j].about = letters[i].to
  <2>1. PICK j \in DOMAIN letters :
              letters[j].event = letters[i].event /\ letters[j].about = letters[i].to
    BY <1>2
  <2>2. /\ j \in DOMAIN letters' /\ letters'[j].event = letters[j].event
        /\ letters'[j].about = letters[j].about
    BY <2>1 DEF RowsKept
  <2> QED
    BY <2>1, <2>2, <1>r DEF IsPassedOn
<1>3. CASE \E g \in Handlers :
              /\ at[g] = "write"
              /\ notice[g].event = letters[i].event /\ notice[g].kind = letters[i].kind
              /\ \E p \in DOMAIN notice[g].left : notice[g].left[p].about = letters[i].to
  <2>1. PICK g \in Handlers :
              /\ at[g] = "write"
              /\ notice[g].event = letters[i].event /\ notice[g].kind = letters[i].kind
              /\ \E p \in DOMAIN notice[g].left : notice[g].left[p].about = letters[i].to
    BY <1>3
  <2>2. CASE g = h
    BY <2>1, <2>2
  <2>3. CASE g # h
    <3>1. /\ at'[g] = at[g] /\ notice'[g].left = notice[g].left
          /\ notice'[g].event = notice[g].event /\ notice'[g].kind = notice[g].kind
      BY <2>3 DEF Moved, KeepsNotice
    <3> QED
      BY <2>1, <3>1, <1>r DEF IsPassedOn
  <2> QED
    BY <2>2, <2>3
<1> QED
  BY <1>1, <1>2, <1>3 DEF IsPassedOn

\* What h has left to write is passed on.
LeftPassesOn(h) ==
    \A p \in DOMAIN notice[h].left :
        at[h] \in {"write", "writeAll"} =>
            LET n == notice[h]
            IN  /\ n.kind \in PassedOn /\ n.left[p].to \in Couple /\ IsCast(n.left[p].to)
                      => PassesOn(n.left, p)
                /\ at[h] = "write" /\ n.left[p].alert => n.kind \notin PassedOn /\ Len(n.left) = 1

LEMMA PassingStep ==
  ASSUME PassingOn, NEW h \in Handlers, Moved(h), UNCHANGED people, LeftPassesOn(h)',
         faults' = 0 => \A i \in DOMAIN letters' :
             letters'[i].kind \in PassedOn /\ letters'[i].to \in Couple /\ IsCast(letters'[i].to)
                 => IsPassedOn(i)'
  PROVE  PassingOn'
<1>1. ASSUME NEW g \in Handlers PROVE LeftPassesOn(g)'
  <2>1. CASE g = h
    BY <2>1
  <2>2. CASE g # h
    <3>1. at[g] = at'[g] /\ notice'[g].left = notice[g].left /\ notice'[g].kind = notice[g].kind
      BY <2>2 DEF Moved, KeepsNotice
    <3>2. LeftPassesOn(g)
      BY DEF PassingOn, LeftPassesOn
    <3> QED
      BY <3>1, <3>2 DEF LeftPassesOn, IsCast, TypeOf
  <2> QED
    BY <2>1, <2>2
<1>2. \A i \in DOMAIN letters' : IsCast(letters[i].to)' = IsCast(letters'[i].to)
  BY DEF IsCast, TypeOf
<1> QED
  BY <1>1, <1>2 DEF PassingOn, LeftPassesOn

\* A step that writes nothing and takes nothing from what is left to write.
LEMMA PassingSame ==
  ASSUME PassingOn, NEW h \in Handlers, Moved(h), UNCHANGED people, RowsKept,
         DOMAIN letters' = DOMAIN letters, at[h] # "write" \/ faults' # 0, LeftPassesOn(h)'
  PROVE  PassingOn'
<1>1. ASSUME faults' = 0, NEW i \in DOMAIN letters', letters'[i].kind \in PassedOn,
             letters'[i].to \in Couple, IsCast(letters'[i].to)
      PROVE  IsPassedOn(i)'
  <2>1. i \in DOMAIN letters /\ letters'[i].kind = letters[i].kind /\ letters'[i].to = letters[i].to
    BY DEF RowsKept
  <2> QED
    BY <1>1, <2>1, PassedStep
<1> QED
  BY <1>1, PassingStep

LEMMA TypedStep ==
  ASSUME NoticeTyped, NEW h \in Handlers, Moved(h), UNCHANGED people,
         devices' \subseteq AllDevices, wanted' \subseteq AllDevices,
         letters' \in Seq(LetterRows), news' \in {"none", "requested", "closed"},
         alerts' \subseteq 0..Len(letters'), refusals' \subseteq Refusals, averse' \subseteq Couple,
         delivered' \in [0..Len(letters') -> Deliveries], wrong' \in BOOLEAN
  PROVE  NoticeTyped'
<1>1. at' \in [Handlers -> NoticeLabels] /\ Bounded' /\ Sequential' /\ notice' \in [Handlers -> NoticeRows]
  BY DEF Moved
<1>2. people' \in NoticeCases
  BY DEF NoticeTyped
<1> QED
  BY <1>1, <1>2 DEF NoticeTyped

\* Handlers that do not overlap.
LEMMA DevicesStep ==
  ASSUME NoticeTyped, DevicesTrue, NEW h \in Handlers, Moved(h),
         at'[h] \in {"register", "forget"} => notice'[h].tried \subseteq Phones,
         ~overlapped' =>
            /\ Alive(devices)' = Alive(wanted)'
            /\ Cardinality(devices' \cap people'.dead) + Cardinality(MetDead') <= Cardinality(people'.dead)
            /\ DevicesOf(h)'
  PROVE  DevicesTrue'
<1>1. ASSUME NEW g \in Handlers, at'[g] \in {"register", "forget"} PROVE notice'[g].tried \subseteq Phones
  <2>1. CASE g = h
    BY <1>1, <2>1
  <2>2. CASE g # h
    <3>1. at[g] = at'[g] /\ notice'[g].tried = notice[g].tried
      BY <2>2 DEF Moved, KeepsNotice
    <3> QED
      BY <1>1, <3>1 DEF DevicesTrue
  <2> QED
    BY <2>1, <2>2
<1>2. ASSUME ~overlapped', NEW g \in Handlers PROVE DevicesOf(g)'
  <2>1. CASE g = h
    BY <1>2, <2>1
  <2>2. CASE g # h
    <3>1. at'[g] = "idle"
      BY <1>2, <2>2 DEF Moved
    <3> QED
      BY <3>1 DEF DevicesOf
  <2> QED
    BY <2>1, <2>2
<1> QED
  BY <1>1, <1>2 DEF DevicesTrue

\* A step that leaves the devices alone, and what is sent to them.
LEMMA DevicesSame ==
  ASSUME NoticeTyped, DevicesTrue, NEW h \in Handlers, Moved(h),
         UNCHANGED <<people, devices, wanted>>, MetDead' = MetDead,
         at'[h] \notin {"register", "forget", "resolve", "web", "push"}
  PROVE  DevicesTrue'
<1>1. ~overlapped' => ~overlapped
  BY DEF Moved
<1>2. DevicesOf(h)'
  BY DEF DevicesOf
<1>3. ~overlapped' =>
            /\ Alive(devices)' = Alive(wanted)'
            /\ Cardinality(devices' \cap people'.dead) + Cardinality(MetDead') <= Cardinality(people'.dead)
  BY <1>1 DEF DevicesTrue, Alive
<1> QED
  BY <1>2, <1>3, DevicesStep

LEMMA MetSame ==
  ASSUME UNCHANGED <<delivered, people>>
  PROVE  MetDead' = MetDead
BY DEF MetDead

\* The alerts as h alone has them.
Carries(h, i) == at[h] \in Carrying /\ notice[h].job = i
UnderwayBy(h, i) ==
    /\ i \in alerts => delivered[i] = NothingSent /\ ~Carries(h, i)
    /\ i \notin alerts /\ ~Carries(h, i) => Arrived(i)
    /\ OnTheWay(i, h)
NotThere(h, i) ==
    letters[i].state = "writing" /\ at[h] = "commit" /\ notice[h].event = letters[i].event

LEMMA OneUnderway ==
  ASSUME NEW h \in Handlers, \A g \in Handlers \ {h} : at[g] = "idle", NEW i
  PROVE  Underway(i) <=> UnderwayBy(h, i)
<1>1. \A g \in Handlers : g = h \/ at[g] = "idle"
  OBVIOUS
<1>2. "idle" \notin Carrying /\ "idle" \notin Sending
  BY DEF Carrying, Sending
<1>3. Carried(i, Carrying) <=> Carries(h, i)
  BY <1>1, <1>2 DEF Carried, Carries
<1>4. \A g \in Handlers : g = h \/ OnTheWay(i, g)
  BY <1>1, <1>2 DEF OnTheWay
<1> QED
  BY <1>3, <1>4 DEF Underway, UnderwayBy

LEMMA OneUnderwayNext ==
  ASSUME NEW h \in Handlers, \A g \in Handlers \ {h} : at'[g] = "idle", NEW i
  PROVE  UnderwayBy(h, i)' => Underway(i)'
<1>1. \A g \in Handlers : g = h \/ at'[g] = "idle"
  OBVIOUS
<1>2. "idle" \notin Carrying /\ "idle" \notin Sending
  BY DEF Carrying, Sending
<1>3. Carried(i, Carrying)' <=> Carries(h, i)'
  BY <1>1, <1>2 DEF Carried, Carries
<1>4. \A g \in Handlers : g = h \/ OnTheWay(i, g)'
  BY <1>1, <1>2 DEF OnTheWay
<1> QED
  BY <1>3, <1>4 DEF Underway, UnderwayBy

LEMMA AlertsStep ==
  ASSUME NoticeTyped, AlertsUnderway, NEW h \in Handlers, Moved(h), UNCHANGED people,
         news' # "none" => \E u \in Couple : IsGuest(u) /\ IsCast(OtherOne(u)),
         news' = "none" => news = "none" /\ delivered'[0] = NothingSent /\ 0 \notin alerts'
                           /\ ~Carries(h, 0)',
         ~overlapped' /\ faults' = 0 =>
            /\ \A i \in DOMAIN letters' : letters'[i].state # "there" => NotThere(h, i)'
            /\ \A i \in 0..Len(letters') : Awaited(i)' => UnderwayBy(h, i)'
  PROVE  AlertsUnderway'
<1>1. news' # "none" => (\E u \in Couple : IsGuest(u) /\ IsCast(OtherOne(u)))'
  BY DEF IsGuest, IsCast, TypeOf
<1>2. ASSUME news' = "none" PROVE ~Carried(0, Carrying)'
  <2>1. ~Carried(0, Carrying)
    BY <1>2 DEF AlertsUnderway
  <2>2. ASSUME NEW g \in Handlers, at'[g] \in Carrying, notice'[g].job = 0 PROVE FALSE
    <3>1. g # h
      BY <1>2, <2>2 DEF Carries
    <3>2. at[g] = at'[g] /\ notice[g].job = 0
      BY <3>1, <2>2 DEF Moved, KeepsNotice
    <3> QED
      BY <2>1, <2>2, <3>2 DEF Carried
  <2> QED
    BY <2>2 DEF Carried
<1>3. ASSUME ~overlapped', faults' = 0
      PROVE  /\ \A i \in DOMAIN letters' : letters'[i].state # "there" =>
                  letters'[i].state = "writing" /\ \E g \in Handlers :
                      at'[g] = "commit" /\ notice'[g].event = letters'[i].event
             /\ \A i \in 0..Len(letters') : Awaited(i)' => Underway(i)'
  <2>1. \A g \in Handlers \ {h} : at'[g] = "idle"
    BY <1>3 DEF Moved
  <2>2. \A i \in 0..Len(letters') : Awaited(i)' => Underway(i)'
    BY <1>3, <2>1, OneUnderwayNext
  <2>3. \A i \in DOMAIN letters' : letters'[i].state # "there" => NotThere(h, i)'
    BY <1>3
  <2> QED
    BY <2>2, <2>3 DEF NotThere
<1> QED
  BY <1>1, <1>2, <1>3 DEF AlertsUnderway, UndisturbedSoFar

\* What h finds as long as nothing has disturbed it.
LEMMA AloneWith ==
  ASSUME AlertsUnderway, NEW h \in Handlers, Moved(h), ~overlapped', faults' = 0
  PROVE  /\ ~overlapped /\ faults = 0 /\ \A g \in Handlers \ {h} : at[g] = "idle" /\ at'[g] = "idle"
         /\ \A i \in DOMAIN letters : letters[i].state # "there" => NotThere(h, i)
         /\ \A i \in 0..Len(letters) : Awaited(i) => UnderwayBy(h, i)
<1>1. ~overlapped /\ faults = 0 /\ \A g \in Handlers \ {h} : at[g] = "idle" /\ at'[g] = "idle"
  BY DEF Moved
<1>2. UndisturbedSoFar
  BY <1>1 DEF UndisturbedSoFar
<1>3. \A i \in 0..Len(letters) : Awaited(i) => UnderwayBy(h, i)
  BY <1>1, <1>2, OneUnderway DEF AlertsUnderway
<1>4. ASSUME NEW i \in DOMAIN letters, letters[i].state # "there" PROVE NotThere(h, i)
  <2>1. PICK g \in Handlers : at[g] = "commit" /\ notice[g].event = letters[i].event
    BY <1>2, <1>4 DEF AlertsUnderway
  <2>2. g = h
    BY <1>1, <2>1
  <2> QED
    BY <1>2, <1>4, <2>1, <2>2 DEF AlertsUnderway, NotThere
<1> QED
  BY <1>1, <1>3, <1>4

\* A job that h does not carry stays where it is.
LEMMA OtherAlerts ==
  ASSUME NoticeTyped, RowsKept, NEW h \in Handlers, NEW i \in 0..Len(letters), UNCHANGED people,
         UnderwayBy(h, i), delivered'[i] = delivered[i], i \in alerts' <=> i \in alerts,
         ~Carries(h, i), ~Carries(h, i)', Steady' \subseteq Steady
  PROVE  UnderwayBy(h, i)'
<1>1. letters \in Seq(LetterRows)
  BY DEF NoticeTyped
<1>2. i # 0 => i \in DOMAIN letters
  BY <1>1
<1>3. i # 0 => letters'[i].to = letters[i].to
  BY <1>2 DEF RowsKept
<1>4. Audience(i)' = Audience(i)
  BY <1>3 DEF Audience, IsCast, TypeOf
<1>5. Arrived(i) => Arrived(i)'
  BY <1>4 DEF Arrived, SentByWeb
<1>6. OnTheWay(i, h)'
  BY DEF OnTheWay, Carries, Carrying, Sending
<1> QED
  BY <1>5, <1>6 DEF UnderwayBy

LEMMA StillAwaited ==
  ASSUME NoticeTyped, RowsKept, NEW i \in 0..Len(letters), news' = news \/ i # 0,
         averse \subseteq averse', Awaited(i)'
  PROVE  Awaited(i)
<1>1. letters \in Seq(LetterRows)
  BY DEF NoticeTyped
<1>2. i # 0 => i \in DOMAIN letters
  BY <1>1
<1>3. i # 0 => letters'[i].to = letters[i].to /\ letters'[i].alert = letters[i].alert
  BY <1>2 DEF RowsKept
<1> QED
  BY <1>3 DEF Awaited

\* A step of a handler that has no job and gets none.
LEMMA AlertsSameStep ==
  ASSUME NoticeTyped, AlertsUnderway, NEW h \in Handlers, Moved(h), RowsKept,
         Len(letters') = Len(letters),
         UNCHANGED <<people, news, alerts, delivered>>, averse \subseteq averse', Steady' \subseteq Steady,
         at[h] \notin Carrying, at'[h] \notin Carrying,
         ~overlapped' /\ faults' = 0 =>
            \A i \in DOMAIN letters' : letters'[i].state # "there" => NotThere(h, i)'
  PROVE  AlertsUnderway'
<1>1. letters \in Seq(LetterRows) /\ Len(letters) \in Nat
  BY DEF NoticeTyped
<1>2. ~Carries(h, 0)' /\ \A i : ~Carries(h, i) /\ ~Carries(h, i)'
  BY DEF Carries
<1>3. ASSUME ~overlapped', faults' = 0, NEW i \in 0..Len(letters), Awaited(i)'
      PROVE  UnderwayBy(h, i)'
  <2>1. Awaited(i)
    BY <1>3, StillAwaited
  <2>2. UnderwayBy(h, i)
    BY <1>3, <2>1, AloneWith
  <2> QED
    BY <1>2, <2>2, OtherAlerts
<1>4. ASSUME ~overlapped', faults' = 0
      PROVE  \A i \in 0..Len(letters') : Awaited(i)' => UnderwayBy(h, i)'
  BY <1>3, <1>4
<1>5. news' # "none" => \E u \in Couple : IsGuest(u) /\ IsCast(OtherOne(u))
  BY DEF AlertsUnderway
<1>6. news' = "none" => news = "none" /\ delivered'[0] = NothingSent /\ 0 \notin alerts'
                           /\ ~Carries(h, 0)'
  BY <1>2 DEF AlertsUnderway
<1> QED
  BY <1>4, <1>5, <1>6, AlertsStep

-----------------------------------------------------------------------------
(* Steps that write and send nothing *)

LEMMA NoticeTypes ==
  ASSUME NoticeTyped
  PROVE  /\ letters \in Seq(LetterRows) /\ Len(letters) \in Nat /\ DOMAIN letters = 1..Len(letters)
         /\ \A i \in DOMAIN letters : letters[i] \in LetterRows /\ i # 0
         /\ \A i \in 0..Len(letters) : i # 0 => i \in DOMAIN letters
         /\ \A i \in 0..Len(letters) : delivered[i] \in Deliveries
         /\ DOMAIN delivered = 0..Len(letters)
         /\ \A h \in Handlers : notice[h] \in NoticeRows
         /\ notice \in [Handlers -> NoticeRows]
         /\ people \in NoticeCases
<1>1. letters \in Seq(LetterRows) /\ delivered \in [0..Len(letters) -> Deliveries]
      /\ notice \in [Handlers -> NoticeRows] /\ people \in NoticeCases
  BY DEF NoticeTyped
<1>2. Len(letters) \in Nat /\ DOMAIN letters = 1..Len(letters)
      /\ \A i \in DOMAIN letters : letters[i] \in LetterRows /\ i # 0
  BY <1>1
<1> QED
  BY <1>1, <1>2

LEMMA SameRows ==
  ASSUME NoticeTyped, UNCHANGED letters
  PROVE  RowsKept
BY DEF RowsKept

LEMMA SamePassed ==
  ASSUME ToldFirst, UNCHANGED letters
  PROVE  PassedOnIsTold'
BY DEF ToldFirst, PassedOnIsTold

LEMMA SameSent ==
  ASSUME SentAreThere, UNCHANGED <<letters, delivered>>
  PROVE  AlertsAreOfMessages'
BY DEF SentAreThere, AlertsAreOfMessages

LEMMA QuietStep ==
  ASSUME NoticeIInv, NEW h \in Handlers, Moved(h),
         UNCHANGED <<people, letters, alerts, delivered, wrong, news>>,
         devices' \subseteq AllDevices, wanted' \subseteq AllDevices,
         refusals' \subseteq Refusals, averse \subseteq averse', averse' \subseteq Couple,
         \A u \in Couple, way \in {"block", "silence"} : <<u, way>> \in refusals' => u \in averse',
         \A g \in Handlers : notice'[g].firm \subseteq refusals',
         at[h] \notin Carrying, at'[h] \notin Carrying, at[h] # "write", at[h] # "commit",
         at'[h] = "write" => notice'[h].left # <<>>, LeftTold(h)', LeftPassesOn(h)',
         DevicesTrue', Steady' \subseteq Steady
  PROVE  NoticeIInv'
<1>1. NoticeTyped /\ JobsWritten /\ RefusalsKept /\ SentAreThere /\ ToldFirst /\ PassingOn
      /\ DevicesTrue /\ AlertsUnderway
  BY DEF NoticeIInv
<1>2. RowsKept
  BY <1>1, SameRows
<1>3. Len(letters') = Len(letters) /\ Len(letters') \in Nat
  BY <1>1 DEF NoticeTyped
<1>4. NoticeTyped'
  <2>1. /\ letters' \in Seq(LetterRows) /\ news' \in {"none", "requested", "closed"}
        /\ alerts' \subseteq 0..Len(letters')
    BY <1>1 DEF NoticeTyped
  <2>2. delivered' \in [0..Len(letters') -> Deliveries] /\ wrong' \in BOOLEAN
    BY <1>1 DEF NoticeTyped
  <2> QED
    BY <1>1, <2>1, <2>2, TypedStep
<1>5. JobsWritten'
  BY <1>1, <1>3, JobsStep
<1>6. "write" \notin Sending /\ at'[h] \notin Sending
  BY DEF Carrying, Sending
<1>7. RefusalsKept'
  <2>1. ~wrong'
    BY <1>1 DEF RefusalsKept
  <2> QED
    BY <1>1, <1>2, <1>6, <2>1, RefusalsStep
<1>8. SentAreThere'
  BY <1>1, <1>2, <1>6, SameSent, SentStep
<1>9. ToldFirst'
  BY <1>1, <1>2, SamePassed, ToldStep
<1>10. PassingOn'
  BY <1>1, <1>2, PassingSame
<1>11. AlertsUnderway'
  <2>1. ASSUME ~overlapped', faults' = 0, NEW i \in DOMAIN letters', letters'[i].state # "there"
        PROVE  NotThere(h, i)'
    <3>1. NotThere(h, i)
      BY <1>1, <2>1, AloneWith
    <3> QED
      BY <3>1 DEF NotThere
  <2> QED
    BY <1>1, <1>2, <1>3, <2>1, AlertsSameStep
<1> QED
  BY <1>1, <1>4, <1>5, <1>7, <1>8, <1>9, <1>10, <1>11 DEF NoticeIInv

LEMMA FirmSame ==
  ASSUME NoticeTyped, RefusalsKept, NEW h \in Handlers, NEW n \in NoticeRows, Handling(h, n), n.firm \subseteq refusals,
         UNCHANGED refusals
  PROVE  \A g \in Handlers : notice'[g].firm \subseteq refusals'
<1>1. notice \in [Handlers -> NoticeRows]
  BY DEF NoticeTyped
<1>2. \A g \in Handlers : notice'[g] = IF g = h THEN n ELSE notice[g]
  BY <1>1 DEF Handling
<1> QED
  BY <1>2 DEF RefusalsKept

LEMMA HappenOK ==
  ASSUME NoticeIInv, NEW h \in Handlers, Happen(h)
  PROVE  NoticeIInv'
<1>1. PICK k \in LetterKinds, u \in Couple :
          /\ Happens(k, u) /\ Letters(k, u) # <<>>
          /\ Begin(h, IF k \in Settling THEN "writeAll" ELSE "write")
          /\ Handling(h, [NoNotice EXCEPT !.kind = k, !.event = begun', !.left = Letters(k, u)])
  BY DEF Happen
<1>2. UNCHANGED <<people, devices, wanted, refusals, averse, letters, news, alerts, delivered, wrong>>
  BY DEF Happen, MembersSame, LettersSame, AlertsSame
<1>3. NoticeTyped /\ RefusalsKept /\ DevicesTrue
  BY DEF NoticeIInv
<1>4. PICK l, n : /\ l = IF k \in Settling THEN "writeAll" ELSE "write"
                  /\ n = [NoNotice EXCEPT !.kind = k, !.event = begun', !.left = Letters(k, u)]
  OBVIOUS
<1>5. PICK ls : ls = Letters(k, u)
  OBVIOUS
<1>6. /\ GoodLetters(ls) /\ (k \in PassedOn => AllPassOn(ls))
      /\ k \notin Settling => NoAlert(ls) \/ (k = "chat" /\ Len(ls) = 1)
  BY <1>1, <1>5, LettersAre
<1>7. begun' \in Nat
  BY <1>1, <1>3, HandlerBoundAssumption DEF Begin, NoticeTyped, Bounded
<1>8. n \in NoticeRows /\ n.firm = {} /\ n.left = ls /\ n.kind = k
  <2>1. ls \in Seq(LetterRows)
    BY <1>6 DEF GoodLetters
  <2>2. PICK e \in Nat : e = begun'
    BY <1>7
  <2>3. n = [kind |-> k, event |-> e, left |-> ls, job |-> -1, to |-> {}, quiet |-> {},
             list |-> {}, tried |-> {}, firm |-> {}]
    BY <1>4, <1>5, <2>2 DEF NoNotice
  <2> QED
    BY <2>1, <2>3 DEF NoticeRows
<1>9. l \in NoticeLabels /\ l \notin Carrying /\ l \notin {"register", "forget", "resolve", "web", "push"}
  BY <1>4 DEF NoticeLabels, Carrying
<1>10. HandlerStep(h, l) /\ Handling(h, n) /\ at[h] = "idle"
  BY <1>1, <1>4 DEF HandlerStep, Begin, Deliver
<1>11. Moved(h) /\ at'[h] = l /\ notice'[h] = n
  BY <1>3, <1>8, <1>9, <1>10, HandlingMoved
<1>12. LeftTold(h)'
  BY <1>6, <1>8, <1>11 DEF LeftTold, GoodLetters, AllTold
<1>13. LeftPassesOn(h)'
  <2> SUFFICES ASSUME NEW p \in DOMAIN ls
               PROVE  /\ k \in PassedOn /\ ls[p].to \in Couple /\ IsCast(ls[p].to) => PassesOn(ls, p)
                      /\ l = "write" /\ ls[p].alert => k \notin PassedOn /\ Len(ls) = 1
    BY <1>2, <1>8, <1>11 DEF LeftPassesOn, IsCast, TypeOf
  <2>1. l = "write" => k \notin Settling
    BY <1>4
  <2>2. "chat" \notin PassedOn
    BY DEF PassedOn
  <2> QED
    BY <1>6, <2>1, <2>2 DEF AllPassOn, NoAlert
<1>14. DevicesTrue'
  BY <1>2, <1>3, <1>9, <1>11, MetSame, DevicesSame
<1>15. /\ devices' \subseteq AllDevices /\ wanted' \subseteq AllDevices /\ refusals' \subseteq Refusals
       /\ averse' \subseteq Couple
       /\ \A v \in Couple, way \in {"block", "silence"} : <<v, way>> \in refusals' => v \in averse'
  BY <1>2, <1>3 DEF NoticeTyped, RefusalsKept
<1>16. \A g \in Handlers : notice'[g].firm \subseteq refusals'
  BY <1>2, <1>3, <1>8, <1>10, FirmSame
<1>17. notice'[h].left # <<>>
  BY <1>1, <1>5, <1>8, <1>11
<1>18. Steady' \subseteq Steady
  BY <1>2 DEF Steady, Alive
<1>19. at[h] \notin Carrying /\ at[h] # "write" /\ at[h] # "commit" /\ at'[h] \notin Carrying
  BY <1>9, <1>10, <1>11 DEF Carrying
<1> QED
  BY <1>2, <1>11, <1>12, <1>13, <1>14, <1>15, <1>16, <1>17, <1>18, <1>19, QuietStep

LEMMA RefuseOK ==
  ASSUME NoticeIInv, NEW h \in Handlers, Refuse(h)
  PROVE  NoticeIInv'
<1>1. NoticeTyped /\ RefusalsKept /\ DevicesTrue
  BY DEF NoticeIInv
<1>2. UNCHANGED <<letters, news, alerts, delivered, wrong, people, devices, wanted>> /\ Begin(h, "idle")
  BY DEF Refuse, LettersSame, AlertsSame
<1>3. PICK u \in Couple, way \in {"block", "silence"} :
          IF <<u, way>> \in refusals
          THEN /\ refusals' = refusals \ {<<u, way>>}
               /\ notice' = [g \in Handlers |-> [notice[g] EXCEPT !.firm = @ \ {<<u, way>>}]]
               /\ UNCHANGED averse
          ELSE /\ refusals' = refusals \cup {<<u, way>>}
               /\ averse' = averse \cup {u}
               /\ UNCHANGED notice
  BY DEF Refuse
<1>4. PICK x : x = <<u, way>>
  OBVIOUS
<1>5. x \in Refusals
  BY <1>4 DEF Refusals
<1>6. /\ averse \subseteq averse' /\ averse' \subseteq Couple /\ refusals' \subseteq Refusals
  <2>1. averse \subseteq Couple /\ refusals \subseteq Refusals
    BY <1>1 DEF NoticeTyped
  <2>2. \/ refusals' = refusals \ {x} /\ averse' = averse
        \/ refusals' = refusals \cup {x} /\ averse' = averse \cup {u}
    BY <1>3, <1>4
  <2> QED
    BY <1>5, <2>1, <2>2
<1>7. \A v \in Couple, w \in {"block", "silence"} : <<v, w>> \in refusals' => v \in averse'
  <2> SUFFICES ASSUME NEW v \in Couple, NEW w \in {"block", "silence"}, <<v, w>> \in refusals'
               PROVE  v \in averse'
    OBVIOUS
  <2>1. <<v, w>> \in refusals => v \in averse
    BY <1>1 DEF RefusalsKept
  <2>2. CASE x \in refusals
    <3>1. refusals' = refusals \ {x} /\ averse' = averse
      BY <1>3, <1>4, <2>2
    <3> QED
      BY <2>1, <3>1
  <2>3. CASE x \notin refusals
    <3>1. refusals' = refusals \cup {x} /\ averse' = averse \cup {u}
      BY <1>3, <1>4, <2>3
    <3>2. <<v, w>> = x => v = u
      BY <1>4
    <3> QED
      BY <2>1, <3>1, <3>2
  <2> QED
    BY <2>2, <2>3
<1>8. notice' \in [Handlers -> NoticeRows] /\ \A g \in Handlers : KeepsNotice(g)
      /\ notice'[g].firm \subseteq refusals'
  <2>1. notice \in [Handlers -> NoticeRows] /\ \A g \in Handlers : notice[g].firm \subseteq refusals
    BY <1>1 DEF NoticeTyped, RefusalsKept
  <2>2. CASE x \in refusals
    <3>1. /\ refusals' = refusals \ {x}
          /\ notice' = [g \in Handlers |-> [notice[g] EXCEPT !.firm = notice[g].firm \ {x}]]
      BY <1>3, <1>4, <2>2
    <3>2. ASSUME NEW g \in Handlers
          PROVE  notice'[g] \in NoticeRows /\ KeepsNotice(g) /\ notice'[g].firm \subseteq refusals'
      <4>1. PICK m, n : m = notice[g] /\ n = notice'[g]
        OBVIOUS
      <4>2. m \in NoticeRows /\ m.firm \subseteq refusals /\ n = [m EXCEPT !.firm = m.firm \ {x}]
        BY <2>1, <3>1, <4>1
      <4>3. n \in NoticeRows /\ n.firm = m.firm \ {x}
        BY <4>2 DEF NoticeRows
      <4>4. /\ n.kind = m.kind /\ n.event = m.event /\ n.left = m.left /\ n.job = m.job
            /\ n.to = m.to /\ n.quiet = m.quiet /\ n.list = m.list /\ n.tried = m.tried
        BY <4>2 DEF NoticeRows
      <4> QED
        BY <3>1, <4>1, <4>2, <4>3, <4>4 DEF KeepsNotice
    <3>3. DOMAIN notice' = Handlers /\ notice' = [g \in Handlers |-> notice'[g]]
      BY <3>1
    <3> QED
      BY <3>2, <3>3
  <2>3. CASE x \notin refusals
    <3>1. refusals' = refusals \cup {x} /\ UNCHANGED notice
      BY <1>3, <1>4, <2>3
    <3> QED
      BY <2>1, <3>1 DEF KeepsNotice
  <2> QED
    BY <2>2, <2>3
<1>9. at \in [Handlers -> NoticeLabels] /\ Bounded /\ Sequential
  BY <1>1 DEF NoticeTyped
<1>10. "idle" \in NoticeLabels /\ HandlerStep(h, "idle") /\ at[h] = "idle"
  BY <1>2 DEF NoticeLabels, HandlerStep, Begin, Deliver
<1>11. /\ at' \in [Handlers -> NoticeLabels] /\ Bounded' /\ Sequential' /\ MovesTo(h, "idle")
       /\ faults <= faults'
       /\ ~overlapped' =>
             ~overlapped /\ \A g \in Handlers \ {h} : at[g] = "idle" /\ at'[g] = "idle"
  BY <1>9, <1>10, HandlerSteps
<1>12. Moved(h) /\ at'[h] = "idle"
  <2>1. faults \in Nat /\ faults' \in Nat
    BY <1>9, <1>11, HandlerBoundAssumption DEF Bounded
  <2> QED
    BY <2>1, <1>8, <1>11 DEF Moved, MovesTo
<1>13. LeftTold(h)' /\ LeftPassesOn(h)'
  BY <1>12 DEF LeftTold, LeftPassesOn
<1>14. DevicesTrue'
  BY <1>1, <1>2, <1>12, MetSame, DevicesSame
<1>15. Steady' \subseteq Steady
  BY <1>2 DEF Steady, Alive
<1>16. at[h] \notin Carrying /\ at[h] # "write" /\ at[h] # "commit" /\ at'[h] \notin Carrying
       /\ at'[h] # "write"
  BY <1>10, <1>12 DEF Carrying
<1>17. devices' \subseteq AllDevices /\ wanted' \subseteq AllDevices
  BY <1>1, <1>2 DEF NoticeTyped
<1> QED
  BY <1>2, <1>6, <1>7, <1>8, <1>12, <1>13, <1>14, <1>15, <1>16, <1>17, QuietStep

\* The list that is read is the list that is written, as long as nothing else happens.
LEMMA ChangeDevicesOK ==
  ASSUME NoticeIInv, NEW h \in Handlers, ChangeDevices(h)
  PROVE  NoticeIInv'
<1>1. PICK way \in {"register", "forget"}, d \in Phones :
          /\ way = "forget" => d \in devices
          /\ Begin(h, way)
          /\ Handling(h, [NoNotice EXCEPT !.list = devices, !.tried = {d}])
  BY DEF ChangeDevices
<1>2. UNCHANGED <<people, devices, wanted, refusals, averse, letters, news, alerts, delivered, wrong>>
  BY DEF ChangeDevices, MembersSame, LettersSame, AlertsSame
<1>3. NoticeTyped /\ RefusalsKept /\ DevicesTrue
  BY DEF NoticeIInv
<1>4. PICK n : n = [NoNotice EXCEPT !.list = devices, !.tried = {d}]
  OBVIOUS
<1>5. n \in NoticeRows /\ n.firm = {} /\ n.list = devices /\ n.tried = {d}
  <2>1. n = [kind |-> "none", event |-> 0, left |-> <<>>, job |-> -1, to |-> {}, quiet |-> {},
             list |-> devices, tried |-> {d}, firm |-> {}]
    BY <1>4 DEF NoNotice
  <2>2. devices \subseteq AllDevices /\ {d} \subseteq AllDevices
    BY <1>3 DEF NoticeTyped, AllDevices
  <2>3. <<>> \in Seq(LetterRows)
    OBVIOUS
  <2> QED
    BY <2>1, <2>2, <2>3 DEF NoticeRows
<1>6. way \in NoticeLabels /\ way \notin Carrying /\ way \notin {"write", "writeAll"}
      /\ way \notin {"resolve", "web", "push"}
  BY DEF NoticeLabels, Carrying
<1>7. HandlerStep(h, way) /\ Handling(h, n) /\ at[h] = "idle"
  BY <1>1, <1>4 DEF HandlerStep, Begin, Deliver
<1>8. Moved(h) /\ at'[h] = way /\ notice'[h] = n
  BY <1>3, <1>5, <1>6, <1>7, HandlingMoved
<1>9. LeftTold(h)' /\ LeftPassesOn(h)'
  BY <1>6, <1>8 DEF LeftTold, LeftPassesOn
<1>10. DevicesTrue'
  <2>1. ~overlapped' => ~overlapped
    BY <1>8 DEF Moved
  <2>2. MetDead' = MetDead
    BY <1>2, MetSame
  <2>3. DevicesOf(h)'
    BY <1>2, <1>5, <1>6, <1>8 DEF DevicesOf
  <2>4. ~overlapped' =>
            /\ Alive(devices)' = Alive(wanted)'
            /\ Cardinality(devices' \cap people'.dead) + Cardinality(MetDead') <= Cardinality(people'.dead)
    BY <1>2, <1>3, <2>1, <2>2 DEF DevicesTrue, Alive
  <2>5. notice'[h].tried \subseteq Phones
    BY <1>5, <1>8
  <2> QED
    BY <1>3, <1>8, <2>3, <2>4, <2>5, DevicesStep
<1>11. /\ devices' \subseteq AllDevices /\ wanted' \subseteq AllDevices /\ refusals' \subseteq Refusals
       /\ averse' \subseteq Couple
       /\ \A v \in Couple, w \in {"block", "silence"} : <<v, w>> \in refusals' => v \in averse'
  BY <1>2, <1>3 DEF NoticeTyped, RefusalsKept
<1>12. \A g \in Handlers : notice'[g].firm \subseteq refusals'
  BY <1>2, <1>3, <1>5, <1>7, FirmSame
<1>13. Steady' \subseteq Steady
  BY <1>2 DEF Steady, Alive
<1>14. at[h] \notin Carrying /\ at[h] # "write" /\ at[h] # "commit" /\ at'[h] \notin Carrying
       /\ at'[h] # "write"
  BY <1>6, <1>7, <1>8 DEF Carrying
<1> QED
  BY <1>2, <1>8, <1>9, <1>10, <1>11, <1>12, <1>13, <1>14, QuietStep

\* Devices are written back.
LEMMA KeepDevices ==
  ASSUME NoticeIInv, NEW h \in Handlers, at[h] \in {"register", "forget"}, NoticeDone(h),
         UNCHANGED <<people, refusals, averse, letters, news, alerts, delivered, wrong>>,
         devices' \subseteq AllDevices, wanted' \subseteq AllDevices,
         devices' \cap people.dead = notice[h].list \cap people.dead,
         \A d \in people.devices : d \in wanted' <=> d \in wanted,
         ~overlapped => Alive(devices)' = Alive(wanted)'
  PROVE  NoticeIInv'
<1>1. NoticeTyped /\ RefusalsKept /\ DevicesTrue
  BY DEF NoticeIInv
<1>2. /\ Moved(h) /\ at'[h] = "idle" /\ notice'[h] = NoNotice /\ overlapped' = overlapped
  BY <1>1, DoneMoved
<1>3. LeftTold(h)' /\ LeftPassesOn(h)' /\ DevicesOf(h)'
  BY <1>2 DEF LeftTold, LeftPassesOn, DevicesOf
<1>4. DevicesTrue'
  <2>1. ASSUME ~overlapped'
        PROVE  Cardinality(devices' \cap people'.dead) + Cardinality(MetDead') <= Cardinality(people'.dead)
    <3>1. ~overlapped
      BY <1>2, <2>1
    <3>2. notice[h].list = devices
      BY <1>1, <3>1 DEF DevicesTrue, DevicesOf
    <3>3. MetDead' = MetDead
      BY MetSame
    <3>4. devices' \cap people'.dead = devices \cap people.dead
      BY <3>2
    <3> QED
      BY <1>1, <3>1, <3>3, <3>4 DEF DevicesTrue
  <2> QED
    BY <1>1, <1>2, <1>3, <2>1, DevicesStep
<1>5. /\ refusals' \subseteq Refusals /\ averse' \subseteq Couple
      /\ \A v \in Couple, w \in {"block", "silence"} : <<v, w>> \in refusals' => v \in averse'
  BY <1>1 DEF NoticeTyped, RefusalsKept
<1>6. \A g \in Handlers : notice'[g].firm \subseteq refusals'
  <2>1. Handling(h, NoNotice)
    BY DEF NoticeDone
  <2>2. NoNotice.firm \subseteq refusals
    BY NothingUnderway
  <2> QED
    BY <1>1, <2>1, <2>2, NothingUnderway, FirmSame
<1>7. Steady' \subseteq Steady
  BY DEF Steady, Alive
<1>8. at[h] \notin Carrying /\ at[h] # "write" /\ at[h] # "commit" /\ at'[h] \notin Carrying
       /\ at'[h] # "write"
  BY <1>2 DEF Carrying
<1> QED
  BY <1>2, <1>3, <1>4, <1>5, <1>6, <1>7, <1>8, QuietStep

LEMMA PhonesApart ==
  ASSUME NoticeTyped, NEW d \in Phones
  PROVE  d \notin people.devices /\ d \notin people.dead
BY NoticeAssumption DEF NoticeTyped

LEMMA RegisterDeviceOK ==
  ASSUME NoticeIInv, NEW h \in Handlers, RegisterDevice(h)
  PROVE  NoticeIInv'
<1>1. NoticeTyped /\ DevicesTrue
  BY DEF NoticeIInv
<1>2. /\ at[h] = "register" /\ NoticeDone(h)
      /\ devices' = notice[h].list \cup notice[h].tried /\ wanted' = wanted \cup notice[h].tried
      /\ UNCHANGED <<people, refusals, averse, letters, news, alerts, delivered, wrong>>
  BY DEF RegisterDevice, LettersSame, AlertsSame
<1>3. notice[h].list \subseteq AllDevices /\ wanted \subseteq AllDevices
  BY <1>1, NoticeRowFields DEF NoticeTyped
<1>4. notice[h].tried \subseteq Phones
  BY <1>1, <1>2 DEF DevicesTrue
<1>5. \A d \in notice[h].tried : d \in AllDevices /\ d \notin people.devices /\ d \notin people.dead
  BY <1>1, <1>4, PhonesApart DEF AllDevices
<1>6. ASSUME ~overlapped PROVE Alive(devices)' = Alive(wanted)'
  <2>1. notice[h].list = devices /\ Alive(devices) = Alive(wanted)
    BY <1>1, <1>2, <1>6 DEF DevicesTrue, DevicesOf
  <2> QED
    BY <1>2, <2>1 DEF Alive
<1>7. devices' \subseteq AllDevices /\ wanted' \subseteq AllDevices
  BY <1>2, <1>3, <1>5
<1>8. devices' \cap people.dead = notice[h].list \cap people.dead
  BY <1>2, <1>5
<1>9. \A d \in people.devices : d \in wanted' <=> d \in wanted
  BY <1>2, <1>5
<1>10. at[h] \in {"register", "forget"}
  BY <1>2
<1> QED
  BY <1>2, <1>6, <1>7, <1>8, <1>9, <1>10, KeepDevices

LEMMA ForgetDeviceOK ==
  ASSUME NoticeIInv, NEW h \in Handlers, ForgetDevice(h)
  PROVE  NoticeIInv'
<1>1. NoticeTyped /\ DevicesTrue
  BY DEF NoticeIInv
<1>2. /\ at[h] = "forget" /\ NoticeDone(h)
      /\ devices' = notice[h].list \ notice[h].tried /\ wanted' = wanted \ notice[h].tried
      /\ UNCHANGED <<people, refusals, averse, letters, news, alerts, delivered, wrong>>
  BY DEF ForgetDevice, LettersSame, AlertsSame
<1>3. notice[h].list \subseteq AllDevices /\ wanted \subseteq AllDevices
  BY <1>1, NoticeRowFields DEF NoticeTyped
<1>4. notice[h].tried \subseteq Phones
  BY <1>1, <1>2 DEF DevicesTrue
<1>5. \A d \in notice[h].tried : d \notin people.devices /\ d \notin people.dead
  BY <1>1, <1>4, PhonesApart
<1>6. ASSUME ~overlapped PROVE Alive(devices)' = Alive(wanted)'
  <2>1. notice[h].list = devices /\ Alive(devices) = Alive(wanted)
    BY <1>1, <1>2, <1>6 DEF DevicesTrue, DevicesOf
  <2> QED
    BY <1>2, <2>1 DEF Alive
<1>7. devices' \subseteq AllDevices /\ wanted' \subseteq AllDevices
  BY <1>2, <1>3
<1>8. devices' \cap people.dead = notice[h].list \cap people.dead
  BY <1>2, <1>5
<1>9. \A d \in people.devices : d \in wanted' <=> d \in wanted
  BY <1>2, <1>5
<1>10. at[h] \in {"register", "forget"}
  BY <1>2
<1> QED
  BY <1>2, <1>6, <1>7, <1>8, <1>9, <1>10, KeepDevices

-----------------------------------------------------------------------------
(* Steps of an alert *)

\* A step that writes no letters.
LEMMA CarryStep ==
  ASSUME NoticeIInv, NEW h \in Handlers, Moved(h),
         UNCHANGED <<people, letters, wanted, refusals, averse>>,
         devices' \subseteq AllDevices, news' \in {"none", "requested", "closed"},
         alerts' \subseteq 0..Len(letters), delivered' \in [0..Len(letters) -> Deliveries], wrong' = FALSE,
         AlertsAreOfMessages', \A g \in Handlers : notice'[g].firm \subseteq refusals',
         at[h] \notin {"write", "commit"}, at'[h] \notin {"write", "writeAll"},
         at'[h] \in Carrying => notice'[h].job \in 0..Len(letters),
         at'[h] \in Sending => MeansWell(h)',
         at'[h] \in Sending /\ notice'[h].job > 0 => letters[notice'[h].job].state = "there",
         DevicesTrue',
         news' # "none" => \E u \in Couple : IsGuest(u) /\ IsCast(OtherOne(u)),
         news' = "none" => news = "none" /\ delivered'[0] = NothingSent /\ 0 \notin alerts'
                           /\ ~Carries(h, 0)',
         ~overlapped' /\ faults' = 0 => \A i \in 0..Len(letters) : Awaited(i)' => UnderwayBy(h, i)'
  PROVE  NoticeIInv'
<1>1. NoticeTyped /\ JobsWritten /\ RefusalsKept /\ SentAreThere /\ ToldFirst /\ PassingOn
      /\ DevicesTrue /\ AlertsUnderway
  BY DEF NoticeIInv
<1>2. RowsKept
  BY <1>1, SameRows
<1>3. Len(letters') = Len(letters) /\ Len(letters') \in Nat /\ DOMAIN letters' = DOMAIN letters
  BY <1>1 DEF NoticeTyped
<1>4. NoticeTyped'
  <2>1. /\ letters' \in Seq(LetterRows) /\ alerts' \subseteq 0..Len(letters')
        /\ refusals' \subseteq Refusals /\ averse' \subseteq Couple /\ wanted' \subseteq AllDevices
        /\ wrong' \in BOOLEAN /\ delivered' \in [0..Len(letters') -> Deliveries]
    BY <1>1, <1>3 DEF NoticeTyped
  <2> QED
    BY <1>1, <2>1, TypedStep
<1>5. JobsWritten'
  BY <1>1, <1>3, JobsStep
<1>6. RefusalsKept'
  <2>1. ~wrong'
    OBVIOUS
  <2>2. \A u \in Couple, way \in {"block", "silence"} : <<u, way>> \in refusals' => u \in averse'
    BY <1>1 DEF RefusalsKept
  <2> QED
    BY <1>1, <1>2, <2>1, <2>2, RefusalsStep
<1>7. SentAreThere'
  BY <1>1, <1>2, SentStep
<1>8. LeftTold(h)' /\ LeftPassesOn(h)'
  BY DEF LeftTold, LeftPassesOn
<1>9. ToldFirst'
  BY <1>1, <1>2, <1>8, SamePassed, ToldStep
<1>10. PassingOn'
  BY <1>1, <1>2, <1>3, <1>8, PassingSame
<1>11. AlertsUnderway'
  <2>1. ASSUME ~overlapped', faults' = 0, NEW i \in DOMAIN letters', letters'[i].state # "there"
        PROVE  NotThere(h, i)'
    <3>1. NotThere(h, i)
      BY <1>1, <2>1, AloneWith
    <3> QED
      BY <3>1 DEF NotThere
  <2>2. ~overlapped' /\ faults' = 0 =>
            /\ \A i \in DOMAIN letters' : letters'[i].state # "there" => NotThere(h, i)'
            /\ \A i \in 0..Len(letters') : Awaited(i)' => UnderwayBy(h, i)'
    BY <1>3, <2>1
  <2> QED
    BY <1>1, <2>2, AlertsStep
<1> QED
  BY <1>1, <1>4, <1>5, <1>6, <1>7, <1>9, <1>10, <1>11, DevicesTrue' DEF NoticeIInv

\* Of the other jobs nothing changes.
LEMMA OthersUnderway ==
  ASSUME NoticeIInv, NEW h \in Handlers, Moved(h), ~overlapped', faults' = 0,
         UNCHANGED <<people, letters, wanted, averse>>, NEW i \in 0..Len(letters), Awaited(i)',
         news' = news \/ i # 0, delivered'[i] = delivered[i], i \in alerts' <=> i \in alerts,
         ~Carries(h, i), ~Carries(h, i)'
  PROVE  UnderwayBy(h, i)'
<1>1. NoticeTyped /\ AlertsUnderway
  BY DEF NoticeIInv
<1>2. RowsKept
  BY <1>1, SameRows
<1>3. Awaited(i)
  BY <1>1, <1>2, StillAwaited
<1>4. UnderwayBy(h, i)
  BY <1>1, <1>3, AloneWith
<1>5. Steady' \subseteq Steady
  BY DEF Steady, Alive
<1> QED
  BY <1>1, <1>2, <1>4, <1>5, OtherAlerts

\* A job that has just been taken.
LEMMA FreshJob ==
  ASSUME NEW job \in Int, NEW firm \in SUBSET Refusals
  PROVE  [kind |-> "none", event |-> 0, left |-> <<>>, job |-> job, to |-> {}, quiet |-> {},
          list |-> {}, tried |-> {}, firm |-> firm] \in NoticeRows
<1>1. <<>> \in Seq(LetterRows)
  OBVIOUS
<1> QED
  BY <1>1 DEF NoticeRows

LEMMA ChangeOrderOK ==
  ASSUME NoticeIInv, NEW h \in Handlers, ChangeOrder(h)
  PROVE  NoticeIInv'
<1>1. /\ \E u \in Couple : IsGuest(u) /\ IsCast(OtherOne(u))
      /\ news # "closed" /\ news' = IF news = "none" THEN "requested" ELSE "closed"
      /\ Begin(h, "enqueue") /\ Handling(h, [NoNotice EXCEPT !.job = 0])
      /\ UNCHANGED <<people, devices, wanted, refusals, averse, letters, alerts, delivered, wrong>>
  BY DEF ChangeOrder, MembersSame, AlertsSame
<1>2. NoticeTyped /\ RefusalsKept /\ SentAreThere /\ DevicesTrue /\ AlertsUnderway
  BY DEF NoticeIInv
<1>3. PICK n : n = [NoNotice EXCEPT !.job = 0]
  OBVIOUS
<1>4. n \in NoticeRows /\ n.job = 0 /\ n.firm = {}
  <2>1. n = [kind |-> "none", event |-> 0, left |-> <<>>, job |-> 0, to |-> {}, quiet |-> {},
              list |-> {}, tried |-> {}, firm |-> {}]
    BY <1>3 DEF NoNotice
  <2>2. 0 \in Int /\ {} \in SUBSET Refusals
    OBVIOUS
  <2>3. n \in NoticeRows
    BY <2>1, <2>2, FreshJob
  <2> QED
    BY <2>1, <2>3
<1>5. "enqueue" \in NoticeLabels /\ HandlerStep(h, "enqueue") /\ Handling(h, n) /\ at[h] = "idle"
  BY <1>1, <1>3 DEF NoticeLabels, HandlerStep, Begin, Deliver
<1>6. Moved(h) /\ at'[h] = "enqueue" /\ notice'[h] = n
  BY <1>2, <1>4, <1>5, HandlingMoved
<1>7. DevicesTrue'
  BY <1>1, <1>2, <1>6, MetSame, DevicesSame
<1>8. /\ news' \in {"none", "requested", "closed"} /\ devices' \subseteq AllDevices
      /\ alerts' \subseteq 0..Len(letters) /\ delivered' \in [0..Len(letters) -> Deliveries]
      /\ wrong' = FALSE /\ Len(letters) \in Nat
  BY <1>1, <1>2 DEF NoticeTyped, RefusalsKept
<1>9. AlertsAreOfMessages'
  BY <1>1, <1>2, SameSent
<1>10. \A g \in Handlers : notice'[g].firm \subseteq refusals'
  BY <1>1, <1>2, <1>4, <1>5, FirmSame
<1>11. at'[h] \notin Sending /\ at[h] \notin {"write", "commit"} /\ at'[h] \notin {"write", "writeAll"}
  BY <1>5, <1>6 DEF Sending
<1>12. notice'[h].job \in 0..Len(letters)
  BY <1>4, <1>6, <1>8
<1>13. news' # "none"
  BY <1>1
<1>14. ASSUME ~overlapped', faults' = 0, NEW i \in 0..Len(letters), Awaited(i)'
       PROVE  UnderwayBy(h, i)'
  <2>1. CASE i = 0
    <3>1. news = "none"
      BY <1>1, <1>14, <2>1 DEF Awaited
    <3>2. delivered[0] = NothingSent /\ 0 \notin alerts
      BY <1>2, <3>1 DEF AlertsUnderway
    <3>3. Carries(h, 0)'
      BY <1>4, <1>6 DEF Carries, Carrying
    <3>4. OnTheWay(0, h)'
      BY <1>1, <1>6, <1>11, <3>2 DEF OnTheWay, Sending
    <3> QED
      BY <1>1, <2>1, <3>2, <3>3, <3>4 DEF UnderwayBy
  <2>2. CASE i # 0
    <3>1. ~Carries(h, i) /\ ~Carries(h, i)'
      BY <1>4, <1>5, <1>6, <2>2 DEF Carries, Carrying
    <3> QED
      BY <1>1, <1>6, <1>14, <2>2, <3>1, OthersUnderway
  <2> QED
    BY <2>1, <2>2
<1> QED
  BY <1>1, <1>6, <1>7, <1>8, <1>9, <1>10, <1>11, <1>12, <1>13, <1>14, CarryStep

LEMMA EnqueueAlertOK ==
  ASSUME NoticeIInv, NEW h \in Handlers, EnqueueAlert(h)
  PROVE  NoticeIInv'
<1>1. /\ at[h] = "enqueue" /\ alerts' = alerts \cup {notice[h].job} /\ NoticeDone(h)
      /\ UNCHANGED <<people, devices, wanted, refusals, averse, letters, news, delivered, wrong>>
  BY DEF EnqueueAlert, MembersSame, LettersSame
<1>2. NoticeTyped /\ JobsWritten /\ RefusalsKept /\ SentAreThere /\ DevicesTrue /\ AlertsUnderway
  BY DEF NoticeIInv
<1>3. Moved(h) /\ at'[h] = "idle" /\ notice'[h] = NoNotice
  BY <1>1, <1>2, DoneMoved
<1>4. notice[h].job \in 0..Len(letters) /\ Carries(h, notice[h].job)
  BY <1>1, <1>2 DEF JobsWritten, Carries, Carrying
<1>5. DevicesTrue'
  BY <1>1, <1>2, <1>3, MetSame, DevicesSame
<1>6. /\ news' \in {"none", "requested", "closed"} /\ devices' \subseteq AllDevices
      /\ delivered' \in [0..Len(letters) -> Deliveries] /\ wrong' = FALSE
  BY <1>1, <1>2 DEF NoticeTyped, RefusalsKept
<1>7. alerts' \subseteq 0..Len(letters)
  BY <1>1, <1>2, <1>4 DEF NoticeTyped
<1>8. AlertsAreOfMessages'
  BY <1>1, <1>2, SameSent
<1>9. \A g \in Handlers : notice'[g].firm \subseteq refusals'
  BY <1>1, <1>2, NothingUnderway, FirmSame DEF NoticeDone
<1>10. /\ at'[h] \notin Sending /\ at'[h] \notin Carrying /\ at[h] \notin {"write", "commit"}
       /\ at'[h] \notin {"write", "writeAll"}
  BY <1>1, <1>3 DEF Sending, Carrying
<1>11. news' # "none" => \E u \in Couple : IsGuest(u) /\ IsCast(OtherOne(u))
  BY <1>1, <1>2 DEF AlertsUnderway
<1>12. news' = "none" => news = "none" /\ delivered'[0] = NothingSent /\ 0 \notin alerts'
                         /\ ~Carries(h, 0)'
  <2>1. ASSUME news = "none" PROVE notice[h].job # 0
    <3>1. ~Carried(0, Carrying)
      BY <1>2, <2>1 DEF AlertsUnderway
    <3> QED
      BY <1>4, <3>1 DEF Carried, Carries
  <2> QED
    BY <1>1, <1>2, <1>10, <2>1 DEF AlertsUnderway, Carries
<1>13. ASSUME ~overlapped', faults' = 0, NEW i \in 0..Len(letters), Awaited(i)'
       PROVE  UnderwayBy(h, i)'
  <2>0. ~Carries(h, i)' /\ OnTheWay(i, h)'
    BY <1>3, <1>10 DEF Carries, OnTheWay
  <2>1. CASE i = notice[h].job
    <3>1. Awaited(i)
      BY <1>1, <1>13 DEF Awaited
    <3>2. OnTheWay(i, h)
      BY <1>2, <1>3, <1>13, <3>1, AloneWith DEF UnderwayBy
    <3>3. delivered[i] = NothingSent /\ i \in alerts'
      BY <1>1, <2>1, <3>2 DEF OnTheWay
    <3> QED
      BY <1>1, <2>0, <3>3 DEF UnderwayBy
  <2>2. CASE i # notice[h].job
    <3>1. ~Carries(h, i) /\ (i \in alerts' <=> i \in alerts)
      BY <1>1, <2>2 DEF Carries
    <3> QED
      BY <1>1, <1>3, <1>13, <2>0, <3>1, OthersUnderway
  <2> QED
    BY <2>1, <2>2
<1> QED
  BY <1>1, <1>3, <1>5, <1>6, <1>7, <1>8, <1>9, <1>10, <1>11, <1>12, <1>13, CarryStep

LEMMA TakeAlertOK ==
  ASSUME NoticeIInv, NEW h \in Handlers, TakeAlert(h)
  PROVE  NoticeIInv'
<1>1. /\ Deliver(h, "resolve") /\ UNCHANGED begun
      /\ UNCHANGED <<people, devices, wanted, refusals, averse, letters, news, delivered, wrong>>
  BY DEF TakeAlert, MembersSame, LettersSame
<1>2. PICK job \in alerts :
          /\ alerts' = alerts \ {job}
          /\ Handling(h, [NoNotice EXCEPT !.job = job, !.firm = refusals])
  BY DEF TakeAlert
<1>3. NoticeTyped /\ JobsWritten /\ RefusalsKept /\ SentAreThere /\ DevicesTrue /\ AlertsUnderway
  BY DEF NoticeIInv
<1>4. job \in 0..Len(letters) /\ Len(letters) \in Nat /\ refusals \subseteq Refusals /\ job \in Int
  BY <1>3 DEF NoticeTyped
<1>5. PICK n : n = [NoNotice EXCEPT !.job = job, !.firm = refusals]
  OBVIOUS
<1>6. n \in NoticeRows /\ n.job = job /\ n.firm = refusals /\ n.tried = {}
  <2>1. n = [kind |-> "none", event |-> 0, left |-> <<>>, job |-> job, to |-> {}, quiet |-> {},
              list |-> {}, tried |-> {}, firm |-> refusals]
    BY <1>5 DEF NoNotice
  <2>2. n \in NoticeRows
    BY <1>4, <2>1, FreshJob
  <2> QED
    BY <2>1, <2>2
<1>7. "resolve" \in NoticeLabels /\ Handling(h, n) /\ at[h] = "idle"
  BY <1>1, <1>2, <1>5 DEF NoticeLabels, Deliver
<1>8. Moved(h) /\ at'[h] = "resolve" /\ notice'[h] = n
  BY <1>1, <1>3, <1>6, <1>7, HandlingMoved
<1>9. DevicesTrue'
  <2>1. ~overlapped' => ~overlapped
    BY <1>8 DEF Moved
  <2>2. MetDead' = MetDead
    BY <1>1, MetSame
  <2>3. DevicesOf(h)'
    BY <1>6, <1>8 DEF DevicesOf
  <2>4. ~overlapped' =>
            /\ Alive(devices)' = Alive(wanted)'
            /\ Cardinality(devices' \cap people'.dead) + Cardinality(MetDead') <= Cardinality(people'.dead)
    BY <1>1, <1>3, <2>1, <2>2 DEF DevicesTrue, Alive
  <2> QED
    BY <1>3, <1>8, <2>3, <2>4, DevicesStep
<1>10. /\ news' \in {"none", "requested", "closed"} /\ devices' \subseteq AllDevices
       /\ delivered' \in [0..Len(letters) -> Deliveries] /\ wrong' = FALSE
       /\ alerts' \subseteq 0..Len(letters)
  BY <1>1, <1>2, <1>3 DEF NoticeTyped, RefusalsKept
<1>11. AlertsAreOfMessages'
  BY <1>1, <1>3, SameSent
<1>12. \A g \in Handlers : notice'[g].firm \subseteq refusals'
  BY <1>1, <1>3, <1>6, <1>7, FirmSame
<1>13. /\ at'[h] \notin Sending /\ at[h] \notin {"write", "commit"}
       /\ at'[h] \notin {"write", "writeAll"}
  BY <1>7, <1>8 DEF Sending
<1>14. notice'[h].job \in 0..Len(letters)
  BY <1>4, <1>6, <1>8
<1>15. news' # "none" => \E u \in Couple : IsGuest(u) /\ IsCast(OtherOne(u))
  BY <1>1, <1>3 DEF AlertsUnderway
<1>16. news' = "none" => news = "none" /\ delivered'[0] = NothingSent /\ 0 \notin alerts'
                         /\ ~Carries(h, 0)'
  <2>1. ASSUME news = "none" PROVE delivered[0] = NothingSent /\ 0 \notin alerts /\ job # 0
    BY <1>3, <2>1 DEF AlertsUnderway
  <2> QED
    BY <1>1, <1>2, <1>6, <1>8, <2>1 DEF Carries
<1>17. ASSUME ~overlapped', faults' = 0, NEW i \in 0..Len(letters), Awaited(i)'
       PROVE  UnderwayBy(h, i)'
  <2>0. ~Carries(h, i)
    BY <1>7 DEF Carries, Carrying
  <2>1. CASE i = job
    <3>1. Awaited(i)
      BY <1>1, <1>17 DEF Awaited
    <3>2. delivered[i] = NothingSent
      BY <1>2, <1>3, <1>8, <1>17, <2>1, <3>1, AloneWith DEF UnderwayBy
    <3>3. i \notin alerts' /\ Carries(h, i)'
      BY <1>2, <1>6, <1>8, <2>1 DEF Carries, Carrying
    <3>4. OnTheWay(i, h)'
      BY <1>1, <1>8, <1>13, <3>2 DEF OnTheWay, Sending
    <3> QED
      BY <3>3, <3>4 DEF UnderwayBy
  <2>2. CASE i # job
    <3>1. ~Carries(h, i)' /\ (i \in alerts' <=> i \in alerts)
      BY <1>2, <1>6, <1>8, <2>2 DEF Carries
    <3> QED
      BY <1>1, <1>8, <1>17, <2>0, <3>1, OthersUnderway
  <2> QED
    BY <2>1, <2>2
<1> QED
  BY <1>1, <1>8, <1>9, <1>10, <1>11, <1>12, <1>13, <1>14, <1>15, <1>16, <1>17, CarryStep

\* Who an alert is for.
LEMMA AudienceOfOrder ==
  ASSUME \E u \in Couple : IsGuest(u) /\ IsCast(OtherOne(u))
  PROVE  Cardinality({u \in Couple : IsCast(u)}) = 1
<1>1. PICK u \in Couple : IsGuest(u) /\ IsCast(OtherOne(u))
  OBVIOUS
<1>2. Couple = {u, OtherOne(u)} /\ ~IsCast(u)
  BY <1>1 DEF Couple, OtherOne, Invitee, Inviter, IsGuest, IsCast
<1>3. {v \in Couple : IsCast(v)} = {OtherOne(u)}
  BY <1>1, <1>2
<1> QED
  BY <1>3, FS_Singleton

LEMMA RecipientsMeanWell ==
  ASSUME NEW firm, firm \subseteq refusals, NEW job
  PROVE  /\ Recipients(job) \cap Refusers(firm, job, FALSE) = {}
         /\ (Recipients(job) \ IF job = 0 THEN {} ELSE Refusing("silence"))
               \cap Refusers(firm, job, TRUE) = {}
         /\ Recipients(job) \subseteq Couple
<1>1. CASE job = 0
  <2>1. ASSUME NEW u \in Recipients(0) PROVE u \in Couple /\ \A v \in Couple : <<v, "block">> \notin firm
    BY <2>1 DEF Recipients, Refusing
  <2>2. \A line \in BOOLEAN, u \in Couple :
            u \in Refusers(firm, 0, line) => \E v \in Couple : <<v, "block">> \in firm
    BY DEF Refusers
  <2>3. /\ Recipients(0) \cap Refusers(firm, 0, FALSE) = {}
        /\ Recipients(0) \cap Refusers(firm, 0, TRUE) = {}
    BY <2>1, <2>2
  <2> QED
    BY <1>1, <2>1, <2>3
<1>2. CASE job # 0
  <2>1. ASSUME NEW u \in Recipients(job)
        PROVE  u \in Couple /\ (letters[job].from # "system" => <<u, "block">> \notin firm)
    BY <1>2, <2>1 DEF Recipients, Refusing
  <2>2. \A line \in BOOLEAN, u \in Couple :
            u \in Refusers(firm, job, line) =>
                \/ letters[job].from # "system" /\ <<u, "block">> \in firm
                \/ line /\ <<u, "silence">> \in firm
    BY <1>2 DEF Refusers
  <2>3. Recipients(job) \cap Refusers(firm, job, FALSE) = {}
    BY <2>1, <2>2
  <2>4. (Recipients(job) \ Refusing("silence")) \cap Refusers(firm, job, TRUE) = {}
    <3> SUFFICES ASSUME NEW u \in Recipients(job), u \notin Refusing("silence"),
                        u \in Refusers(firm, job, TRUE)
                 PROVE  FALSE
      OBVIOUS
    <3>1. <<u, "silence">> \notin firm
      BY <2>1 DEF Refusing
    <3> QED
      BY <2>1, <2>2, <3>1
  <2> QED
    BY <1>2, <2>1, <2>3, <2>4
<1> QED
  BY <1>1, <1>2

\* An alert that is awaited is for its audience.
LEMMA RecipientsAreAudience ==
  ASSUME NoticeTyped, RefusalsKept, AlertsUnderway, NEW i \in 0..Len(letters), Awaited(i)
  PROVE  /\ Recipients(i) = Audience(i) /\ Cardinality(Audience(i)) = 1
         /\ (IF i = 0 THEN {} ELSE Refusing("silence")) \cap Audience(i) = {}
<1>1. CASE i = 0
  <2>1. news = "requested" /\ averse = {}
    BY <1>1 DEF Awaited
  <2>2. Refusing("block") = {}
    BY <2>1 DEF Refusing, RefusalsKept
  <2>3. Recipients(0) = Audience(0)
    BY <2>2 DEF Recipients, Audience
  <2>4. Cardinality(Audience(0)) = 1
    BY <2>1, AudienceOfOrder DEF AlertsUnderway, Audience
  <2> QED
    BY <1>1, <2>3, <2>4
<1>2. CASE i # 0
  <2>1. letters[i].alert /\ letters[i].to \notin averse /\ i \in DOMAIN letters
    BY <1>2, NoticeTypes DEF Awaited
  <2>2. letters[i].to \in Couple
    BY <2>1, NoticeTypes, LetterFields
  <2>3. letters[i].to \notin Refusing("block") /\ letters[i].to \notin Refusing("silence")
    BY <2>1, <2>2 DEF Refusing, RefusalsKept
  <2>4. Recipients(i) = {letters[i].to}
    BY <1>2, <2>2, <2>3 DEF Recipients
  <2>5. Audience(i) = {letters[i].to}
    BY <1>2 DEF Audience
  <2>6. Cardinality({letters[i].to}) = 1
    BY FS_Singleton
  <2>7. Refusing("silence") \cap Audience(i) = {}
    BY <2>3, <2>5
  <2> QED
    BY <1>2, <2>4, <2>5, <2>6, <2>7
<1> QED
  BY <1>1, <1>2

LEMMA ResolveOK ==
  ASSUME NoticeIInv, NEW h \in Handlers, Resolve(h)
  PROVE  NoticeIInv'
<1>1. /\ at[h] = "resolve"
      /\ UNCHANGED <<people, devices, wanted, refusals, averse, letters, news, alerts, delivered, wrong>>
  BY DEF Resolve, MembersSame, LettersSame, AlertsSame
<1>2. NoticeTyped /\ JobsWritten /\ RefusalsKept /\ SentAreThere /\ DevicesTrue /\ AlertsUnderway
  BY DEF NoticeIInv
<1>3. PICK m : m = notice[h]
  OBVIOUS
<1>4. PICK job : job = m.job
  OBVIOUS
<1>5. m \in NoticeRows /\ job \in 0..Len(letters) /\ Carries(h, job) /\ m.firm \subseteq refusals
  BY <1>1, <1>2, <1>3, <1>4, NoticeTypes DEF JobsWritten, Carries, Carrying, RefusalsKept
<1>6. PICK out : out = IF job = 0 THEN news # "requested" ELSE letters[job].state # "there"
  OBVIOUS
<1>7. PICK n : n = [m EXCEPT !.to    = Recipients(job),
                             !.quiet = IF job = 0 THEN {} ELSE Refusing("silence"),
                             !.list  = IF Invitee \in Recipients(job) THEN devices ELSE {}]
  OBVIOUS
<1>8. IF out THEN NoticeDone(h) ELSE Continue(h, "web") /\ Handling(h, n)
  BY <1>3, <1>4, <1>6, <1>7 DEF Resolve
<1>9. /\ m.kind \in LetterKinds \cup {"none"} /\ m.event \in Nat /\ m.left \in Seq(LetterRows)
      /\ m.job \in Int /\ m.tried \subseteq AllDevices /\ m.firm \subseteq Refusals
  BY <1>5, NoticeRowFields
<1>10. /\ n \in NoticeRows /\ n.job = job /\ n.firm = m.firm /\ n.tried = m.tried
       /\ n.to = Recipients(job) /\ n.quiet = IF job = 0 THEN {} ELSE Refusing("silence")
       /\ n.list = IF Invitee \in Recipients(job) THEN devices ELSE {}
  <2>1. Recipients(job) \subseteq Couple
    BY <1>5, RecipientsMeanWell
  <2>2. Refusing("silence") \subseteq Couple /\ devices \subseteq AllDevices
    BY <1>2 DEF Refusing, NoticeTyped
  <2>3. PICK q, d : /\ q = IF job = 0 THEN {} ELSE Refusing("silence")
                    /\ d = IF Invitee \in Recipients(job) THEN devices ELSE {}
    OBVIOUS
  <2>4. q \subseteq Couple /\ d \subseteq AllDevices
    BY <2>2, <2>3
  <2>5. n = [m EXCEPT !.to = Recipients(job), !.quiet = q, !.list = d]
    BY <1>7, <2>3
  <2>6. /\ n.job = m.job /\ n.firm = m.firm /\ n.tried = m.tried /\ n.to = Recipients(job)
        /\ n.quiet = q /\ n.list = d
    BY <1>5, <2>5 DEF NoticeRows
  <2>7. n \in NoticeRows
    BY <1>5, <2>1, <2>4, <2>5 DEF NoticeRows
  <2> QED
    BY <1>4, <2>3, <2>6, <2>7
<1>11. \/ out /\ NoticeDone(h) /\ Moved(h) /\ at'[h] = "idle" /\ notice'[h] = NoNotice
       \/ ~out /\ Handling(h, n) /\ Moved(h) /\ at'[h] = "web" /\ notice'[h] = n
  <2>1. CASE out
    BY <1>1, <1>2, <1>8, <2>1, DoneMoved
  <2>2. CASE ~out
    <3>1. HandlerStep(h, "web") /\ Handling(h, n) /\ "web" \in NoticeLabels
      BY <1>1, <1>8, <2>2 DEF HandlerStep, NoticeLabels
    <3> QED
      BY <1>2, <1>10, <2>2, <3>1, HandlingMoved
  <2> QED
    BY <2>1, <2>2
<1>12. DevicesTrue'
  <2>1. ~overlapped' => ~overlapped
    BY <1>11 DEF Moved
  <2>2. MetDead' = MetDead
    BY <1>1, MetSame
  <2>3. ~overlapped' => m.tried = {}
    BY <1>1, <1>2, <1>3, <2>1 DEF DevicesTrue, DevicesOf
  <2>4. ~overlapped' => DevicesOf(h)'
    BY <1>1, <1>10, <1>11, <2>3 DEF DevicesOf
  <2>5. ~overlapped' =>
            /\ Alive(devices)' = Alive(wanted)'
            /\ Cardinality(devices' \cap people'.dead) + Cardinality(MetDead') <= Cardinality(people'.dead)
    BY <1>1, <1>2, <2>1, <2>2 DEF DevicesTrue, Alive
  <2>6. at'[h] \notin {"register", "forget"}
    BY <1>11
  <2> QED
    BY <1>2, <1>11, <2>4, <2>5, <2>6, DevicesStep
<1>13. /\ news' \in {"none", "requested", "closed"} /\ devices' \subseteq AllDevices
       /\ delivered' \in [0..Len(letters) -> Deliveries] /\ wrong' = FALSE
       /\ alerts' \subseteq 0..Len(letters)
  BY <1>1, <1>2 DEF NoticeTyped, RefusalsKept
<1>14. AlertsAreOfMessages'
  BY <1>1, <1>2, SameSent
<1>15. \A g \in Handlers : notice'[g].firm \subseteq refusals'
  <2>1. CASE out
    BY <1>1, <1>2, <1>8, <2>1, NothingUnderway, FirmSame DEF NoticeDone
  <2>2. CASE ~out
    BY <1>1, <1>2, <1>5, <1>8, <1>10, <2>2, FirmSame
  <2> QED
    BY <2>1, <2>2
<1>16. /\ at[h] \notin {"write", "commit"} /\ at'[h] \notin {"write", "writeAll"}
  BY <1>1, <1>11
<1>17. at'[h] \in Carrying => notice'[h].job = job /\ ~out
  BY <1>10, <1>11 DEF Carrying
<1>18. at'[h] \in Sending => notice'[h] = n /\ ~out
  BY <1>11 DEF Sending
<1>19. at'[h] \in Sending => MeansWell(h)'
  <2> SUFFICES ASSUME at'[h] \in Sending PROVE MeansWell(h)'
    OBVIOUS
  <2>1. PICK o : o = notice'[h]
    OBVIOUS
  <2>2. /\ o.to = Recipients(job) /\ o.quiet = (IF job = 0 THEN {} ELSE Refusing("silence"))
        /\ o.job = job /\ o.firm = m.firm /\ (o.list # {} => Invitee \in Recipients(job))
    BY <1>10, <1>18, <2>1
  <2>3. /\ Recipients(job) \cap Refusers(m.firm, job, FALSE) = {}
        /\ (Recipients(job) \ IF job = 0 THEN {} ELSE Refusing("silence"))
               \cap Refusers(m.firm, job, TRUE) = {}
    BY <1>5, RecipientsMeanWell
  <2>4. /\ o.to \cap Refusers(o.firm, o.job, FALSE) = {}
        /\ (o.to \ o.quiet) \cap Refusers(o.firm, o.job, TRUE) = {}
        /\ o.list # {} => Invitee \in o.to
    BY <2>2, <2>3
  <2> QED
    BY <1>1, <2>1, <2>4 DEF MeansWell, Refusers
<1>20. at'[h] \in Sending /\ notice'[h].job > 0 => letters[notice'[h].job].state = "there"
  <2>1. ASSUME job # 0, ~out PROVE letters[job].state = "there"
    BY <1>6, <2>1
  <2>2. 0 > 0 => FALSE
    OBVIOUS
  <2>3. job > 0 => job # 0
    BY <2>2
  <2>4. at'[h] \in Sending => notice'[h].job = job /\ ~out
    BY <1>10, <1>18
  <2> QED
    BY <2>1, <2>3, <2>4
<1>21. news' # "none" => \E u \in Couple : IsGuest(u) /\ IsCast(OtherOne(u))
  BY <1>1, <1>2 DEF AlertsUnderway
<1>22. news' = "none" => news = "none" /\ delivered'[0] = NothingSent /\ 0 \notin alerts'
                         /\ ~Carries(h, 0)'
  <2>1. ASSUME news = "none" PROVE job # 0
    <3>1. ~Carried(0, Carrying)
      BY <1>2, <2>1 DEF AlertsUnderway
    <3> QED
      BY <1>5, <3>1 DEF Carried, Carries
  <2> QED
    BY <1>1, <1>2, <1>17, <2>1 DEF AlertsUnderway, Carries
<1>23. ASSUME ~overlapped', faults' = 0, NEW i \in 0..Len(letters), Awaited(i)'
       PROVE  UnderwayBy(h, i)'
  <2>1. CASE i = job
    <3>1. Awaited(i)
      BY <1>1, <1>23 DEF Awaited
    <3>2. UnderwayBy(h, i)
      BY <1>2, <1>11, <1>23, <3>1, AloneWith
    <3>3. delivered[i] = NothingSent /\ i \notin alerts
      BY <1>1, <1>3, <1>4, <1>5, <2>1, <3>2 DEF UnderwayBy, OnTheWay
    <3>4. ~out
      <4>1. CASE i = 0
        BY <1>6, <2>1, <3>1, <4>1 DEF Awaited
      <4>2. CASE i # 0
        <5>1. i \in DOMAIN letters
          BY <1>2, <4>2, NoticeTypes
        <5>2. letters[i].state # "there" => NotThere(h, i)
          BY <1>2, <1>11, <1>23, <5>1, AloneWith
        <5> QED
          BY <1>1, <1>6, <2>1, <4>2, <5>2 DEF NotThere
      <4> QED
        BY <4>1, <4>2
    <3>5. at'[h] = "web" /\ notice'[h] = n
      BY <1>11, <3>4
    <3>6. Carries(h, i)'
      BY <1>10, <2>1, <3>5 DEF Carries, Carrying
    <3>7. /\ Recipients(i) = Audience(i) /\ Cardinality(Audience(i)) = 1
          /\ (IF i = 0 THEN {} ELSE Refusing("silence")) \cap Audience(i) = {}
      BY <1>2, <3>1, RecipientsAreAudience
    <3>8. Audience(i)' = Audience(i)
      BY <1>1 DEF Audience, IsCast, TypeOf
    <3>9. n.to = Audience(i) /\ n.quiet \cap Audience(i) = {}
      BY <1>10, <2>1, <3>7
    <3>10. OnTheWay(i, h)'
      BY <1>1, <3>3, <3>5, <3>7, <3>8, <3>9 DEF OnTheWay
    <3> QED
      BY <1>1, <3>3, <3>6, <3>10 DEF UnderwayBy
  <2>2. CASE i # job
    <3>1. ~Carries(h, i) /\ ~Carries(h, i)'
      BY <1>3, <1>4, <1>17, <2>2 DEF Carries
    <3> QED
      BY <1>1, <1>11, <1>23, <3>1, OthersUnderway
  <2> QED
    BY <2>1, <2>2
<1>24. at'[h] \in Carrying => notice'[h].job \in 0..Len(letters)
  BY <1>5, <1>17
<1> QED
  BY <1>1, <1>11, <1>12, <1>13, <1>14, <1>15, <1>16, <1>19, <1>20, <1>21, <1>22, <1>23, <1>24,
     CarryStep

\* A step that sends.
LEMMA SendStep ==
  ASSUME NoticeIInv, NEW h \in Handlers, NEW job, job = notice[h].job, at[h] \in Sending, Moved(h),
         UNCHANGED <<people, letters, wanted, refusals, averse, alerts, news>>,
         devices' \subseteq AllDevices, delivered' \in [0..Len(letters) -> Deliveries], wrong' = FALSE,
         \A i \in 0..Len(letters) : i # job => delivered'[i] = delivered[i],
         notice'[h].firm \subseteq refusals, UNCHANGED refusals,
         \A g \in Handlers \ {h} : notice'[g].firm = notice[g].firm,
         at'[h] \in Sending \cup {"idle"},
         at'[h] \in Sending =>
            /\ notice'[h].job = job /\ notice'[h].to = notice[h].to
            /\ notice'[h].quiet = notice[h].quiet /\ notice'[h].list = notice[h].list
            /\ notice'[h].firm = notice[h].firm,
         DevicesTrue',
         ~overlapped' /\ faults' = 0 /\ Awaited(job) /\ UnderwayBy(h, job) => UnderwayBy(h, job)'
  PROVE  NoticeIInv'
<1>1. NoticeTyped /\ JobsWritten /\ RefusalsKept /\ SentAreThere /\ DevicesTrue /\ AlertsUnderway
  BY DEF NoticeIInv
<1>2. job = notice[h].job
  OBVIOUS
<1>3. job \in 0..Len(letters) /\ Len(letters) \in Nat
  BY <1>1, <1>2, NoticeTypes DEF JobsWritten, Sending, Carrying
<1>4. Carries(h, job) /\ \A i : Carries(h, i) => i = job
  BY <1>2 DEF Carries, Sending, Carrying
<1>5. at'[h] \in Carrying => at'[h] \in Sending /\ notice'[h].job = job
  BY <1>2 DEF Carrying, Sending
<1>6. news = "none" => job # 0
  BY <1>1, <1>4 DEF AlertsUnderway, Carried, Carries
<1>7. AlertsAreOfMessages'
  <2> SUFFICES ASSUME NEW i \in DOMAIN letters, letters[i].state # "there"
               PROVE  delivered'[i] = NothingSent
    BY DEF AlertsAreOfMessages
  <2>1. i \in 1..Len(letters)
    BY <1>1, NoticeTypes
  <2>2. i # job
    <3>1. job > 0 => letters[job].state = "there"
      BY <1>1, <1>2 DEF SentAreThere
    <3>2. i > 0
      BY <2>1, <1>3
    <3> QED
      BY <3>1, <3>2
  <2>3. i \in 0..Len(letters)
    BY <2>1, <1>3
  <2>4. delivered[i] = NothingSent
    BY <1>1 DEF SentAreThere, AlertsAreOfMessages
  <2> QED
    BY <1>2, <2>2, <2>3, <2>4
<1>8. \A g \in Handlers : notice'[g].firm \subseteq refusals'
  BY <1>1 DEF RefusalsKept
<1>9. at'[h] \in Sending => MeansWell(h)'
  <2>1. MeansWell(h)
    BY <1>1 DEF RefusalsKept
  <2> QED
    BY <2>1 DEF MeansWell, Refusers
<1>10. at'[h] \in Sending /\ notice'[h].job > 0 => letters[notice'[h].job].state = "there"
  BY <1>1 DEF SentAreThere
<1>11. news' # "none" => \E u \in Couple : IsGuest(u) /\ IsCast(OtherOne(u))
  BY <1>1 DEF AlertsUnderway
<1>12. news' = "none" => news = "none" /\ delivered'[0] = NothingSent /\ 0 \notin alerts'
                         /\ ~Carries(h, 0)'
  <2>1. 0 \in 0..Len(letters)
    BY <1>3
  <2>2. ASSUME news = "none" PROVE delivered'[0] = NothingSent /\ 0 \notin alerts /\ ~Carries(h, 0)'
    <3>1. delivered'[0] = delivered[0] /\ job # 0
      BY <1>2, <1>6, <2>1, <2>2
    <3>2. ~Carries(h, 0)'
      BY <1>5, <3>1 DEF Carries
    <3> QED
      BY <1>1, <2>2, <3>1, <3>2 DEF AlertsUnderway
  <2> QED
    BY <2>2
<1>13. ASSUME ~overlapped', faults' = 0, NEW i \in 0..Len(letters), Awaited(i)'
       PROVE  UnderwayBy(h, i)'
  <2>1. CASE i = job
    <3>1. Awaited(i)
      BY <1>13 DEF Awaited
    <3>2. UnderwayBy(h, i)
      BY <1>1, <1>13, <3>1, AloneWith
    <3> QED
      BY <1>13, <2>1, <3>1, <3>2
  <2>2. CASE i # job
    <3>1. ~Carries(h, i)
      BY <1>4, <2>2
    <3>2. ~Carries(h, i)'
      BY <1>5, <2>2 DEF Carries
    <3>3. delivered'[i] = delivered[i]
      BY <1>2, <2>2
    <3> QED
      BY <1>13, <3>1, <3>2, <3>3, OthersUnderway
  <2> QED
    BY <2>1, <2>2
<1>14. at[h] \notin {"write", "commit"} /\ at'[h] \notin {"write", "writeAll"}
  BY DEF Sending
<1>15. news' \in {"none", "requested", "closed"} /\ alerts' \subseteq 0..Len(letters)
  BY <1>1 DEF NoticeTyped
<1>16. at'[h] \in Carrying => notice'[h].job \in 0..Len(letters)
  BY <1>3, <1>5
<1> QED
  BY <1>7, <1>8, <1>9, <1>10, <1>11, <1>12, <1>13, <1>14, <1>15, <1>16, CarryStep

LEMMA DeliveryFields ==
  ASSUME NEW d \in Deliveries
  PROVE  d.web \in Nat /\ d.line \in Nat /\ d.pushed \subseteq AllDevices
BY DEF Deliveries

LEMMA CoupleSubsets ==
  ASSUME NEW us, us \subseteq Couple
  PROVE  Cardinality(us) \in Nat
<1>1. IsFiniteSet({Invitee} \cup {Inviter})
  BY FS_AddElement, FS_Singleton
<1>2. us \subseteq {Invitee} \cup {Inviter}
  BY DEF Couple
<1>3. IsFiniteSet(us)
  BY <1>1, <1>2, FS_Subset
<1> QED
  BY <1>3, FS_CardinalityType

LEMMA SendWebMessageOK ==
  ASSUME NoticeIInv, NEW h \in Handlers, SendWebMessage(h)
  PROVE  NoticeIInv'
<1>1. /\ at[h] = "web" /\ Continue(h, IF notice[h].to = {} THEN "line" ELSE "push")
      /\ UNCHANGED <<people, devices, wanted, refusals, averse, letters, news, alerts, notice>>
  BY DEF SendWebMessage, MembersSame, LettersSame
<1>2. NoticeTyped /\ JobsWritten /\ RefusalsKept /\ SentAreThere /\ DevicesTrue /\ AlertsUnderway
  BY DEF NoticeIInv
<1>3. PICK m, job : m = notice[h] /\ job = m.job
  OBVIOUS
<1>4. m \in NoticeRows /\ job \in 0..Len(letters) /\ m.firm \subseteq refusals /\ MeansWell(h)
  BY <1>1, <1>2, <1>3, NoticeTypes DEF JobsWritten, Carrying, Sending, RefusalsKept
<1>5. PICK c : c = Cardinality(m.to)
  OBVIOUS
<1>6. c \in Nat /\ (m.to = {} => c = 0)
  <2>1. m.to \subseteq Couple
    BY <1>4, NoticeRowFields
  <2> QED
    BY <1>5, <2>1, CoupleSubsets, FS_EmptySet
<1>7. IF job = 0 THEN UNCHANGED <<delivered, wrong>>
      ELSE /\ delivered' = [delivered EXCEPT ![job].web = @ + Cardinality(m.to)]
           /\ Reaches(h, m.to, FALSE)
  BY <1>3 DEF SendWebMessage
<1>8. PICK d : d = delivered[job]
  OBVIOUS
<1>9. d \in Deliveries /\ d.web \in Nat /\ d.line \in Nat /\ d.pushed \subseteq AllDevices
  BY <1>2, <1>4, <1>8, NoticeTypes, DeliveryFields
<1>10. PICK e : e = [d EXCEPT !.web = d.web + c]
  OBVIOUS
<1>11. e \in Deliveries /\ e.web = d.web + c /\ e.line = d.line /\ e.pushed = d.pushed
  BY <1>6, <1>9, <1>10 DEF Deliveries
<1>12. delivered' = IF job = 0 THEN delivered ELSE [delivered EXCEPT ![job] = e]
  BY <1>5, <1>7, <1>8, <1>10
<1>13. delivered \in [0..Len(letters) -> Deliveries]
  BY <1>2 DEF NoticeTyped
<1>14. /\ delivered' \in [0..Len(letters) -> Deliveries]
       /\ \A i \in 0..Len(letters) : i # job => delivered'[i] = delivered[i]
       /\ job # 0 => delivered'[job] = e
  BY <1>4, <1>11, <1>12, <1>13
<1>15. wrong' = FALSE
  <2>1. wrong = FALSE
    BY <1>2 DEF RefusalsKept, NoticeTyped
  <2>2. m.to \cap Refusers(m.firm, job, FALSE) = {}
    BY <1>3, <1>4 DEF MeansWell
  <2> QED
    BY <1>3, <1>7, <2>1, <2>2 DEF Reaches
<1>16. PICK l : l = IF m.to = {} THEN "line" ELSE "push"
  OBVIOUS
<1>17. l \in NoticeLabels /\ l \in {"line", "push"} /\ Continue(h, l)
  BY <1>1, <1>3, <1>16 DEF NoticeLabels
<1>18. Moved(h) /\ at'[h] = l /\ notice'[h] = m
  BY <1>1, <1>2, <1>3, <1>17, ContinueMoved
<1>19. \A i \in 0..Len(letters) : delivered'[i].pushed = delivered[i].pushed
  BY <1>8, <1>11, <1>14, <1>12
<1>20. MetDead' = MetDead
  <2>1. DOMAIN delivered' = DOMAIN delivered /\ DOMAIN delivered = 0..Len(letters)
    BY <1>13, <1>14
  <2> QED
    BY <1>1, <1>19, <2>1 DEF MetDead
<1>21. DevicesTrue'
  <2>1. ~overlapped' => ~overlapped
    BY <1>18 DEF Moved
  <2>2. at'[h] \notin {"register", "forget"}
    BY <1>17, <1>18
  <2>3. ASSUME ~overlapped' PROVE DevicesOf(h)'
    <3>1. m.tried = {} /\ m.list = (IF Invitee \in m.to THEN devices ELSE {})
          /\ Alive(devices) = Alive(wanted)
      BY <1>1, <1>2, <1>3, <2>1, <2>3 DEF DevicesTrue, DevicesOf
    <3>2. Invitee \in m.to => Alive(m.list)' = Alive(wanted)'
      BY <1>1, <3>1 DEF Alive
    <3>3. m.list = {} \/ (m.tried \cap people'.dead = {} /\ devices' = m.list)
      BY <1>1, <3>1
    <3> QED
      BY <1>17, <1>18, <3>1, <3>2, <3>3 DEF DevicesOf, Alive
  <2>4. ~overlapped' =>
            /\ Alive(devices)' = Alive(wanted)'
            /\ Cardinality(devices' \cap people'.dead) + Cardinality(MetDead') <= Cardinality(people'.dead)
    BY <1>1, <1>2, <1>20, <2>1 DEF DevicesTrue, Alive
  <2> QED
    BY <1>2, <1>18, <2>2, <2>3, <2>4, DevicesStep
<1>22. ASSUME ~overlapped', faults' = 0, Awaited(job), UnderwayBy(h, job)
       PROVE  UnderwayBy(h, job)'
  <2>1. /\ m.to = Audience(job) /\ m.quiet \cap Audience(job) = {} /\ Cardinality(Audience(job)) = 1
        /\ delivered[job] = NothingSent
    BY <1>1, <1>3, <1>22 DEF UnderwayBy, OnTheWay, Sending
  <2>2. job \notin alerts /\ Carries(h, job)
    BY <1>1, <1>3, <1>22 DEF UnderwayBy, Carries, Carrying
  <2>3. Carries(h, job)'
    BY <1>3, <1>17, <1>18 DEF Carries, Carrying
  <2>4. c = 1 /\ l = "push"
    BY <1>5, <1>6, <1>16, <2>1
  <2>5. d.web = 0 /\ d.line = 0 /\ d.pushed = {}
    BY <1>8, <2>1 DEF NothingSent
  <2>6. delivered'[job].line = 0 /\ SentByWeb(job)'
    BY <1>8, <1>11, <1>12, <1>14, <2>4, <2>5 DEF SentByWeb
  <2>7. m.tried = {}
    BY <1>1, <1>2, <1>3, <1>18, <1>22 DEF DevicesTrue, DevicesOf, Moved
  <2>8. Audience(job)' = Audience(job)
    BY <1>1 DEF Audience, IsCast, TypeOf
  <2>9. at'[h] = "push" /\ notice'[h] = m
    BY <1>18, <2>4
  <2>10. OnTheWay(job, h)'
    BY <2>1, <2>6, <2>7, <2>8, <2>9 DEF OnTheWay, Sending
  <2> QED
    BY <1>1, <2>2, <2>3, <2>10 DEF UnderwayBy
<1>23. at[h] \in Sending /\ at'[h] \in Sending
  BY <1>1, <1>17, <1>18 DEF Sending
<1>24. devices' \subseteq AllDevices /\ notice'[h].firm \subseteq refusals
  BY <1>1, <1>2, <1>4, <1>18 DEF NoticeTyped
<1> QED
  BY <1>1, <1>3, <1>14, <1>15, <1>18, <1>21, <1>22, <1>23, <1>24, SendStep

LEMMA SendSnsMessageOK ==
  ASSUME NoticeIInv, NEW h \in Handlers, SendSnsMessage(h)
  PROVE  NoticeIInv'
<1>1. /\ at[h] = "line" /\ NoticeDone(h)
      /\ UNCHANGED <<people, devices, wanted, refusals, averse, letters, news, alerts>>
  BY DEF SendSnsMessage, MembersSame, LettersSame
<1>2. NoticeTyped /\ JobsWritten /\ RefusalsKept /\ SentAreThere /\ DevicesTrue /\ AlertsUnderway
  BY DEF NoticeIInv
<1>3. PICK m, job : m = notice[h] /\ job = m.job
  OBVIOUS
<1>4. m \in NoticeRows /\ job \in 0..Len(letters) /\ m.firm \subseteq refusals /\ MeansWell(h)
  BY <1>1, <1>2, <1>3, NoticeTypes DEF JobsWritten, Carrying, Sending, RefusalsKept
<1>5. PICK us, c : us = m.to \ m.quiet /\ c = Cardinality(us)
  OBVIOUS
<1>6. c \in Nat
  <2>1. us \subseteq Couple
    BY <1>4, <1>5, NoticeRowFields
  <2> QED
    BY <1>5, <2>1, CoupleSubsets
<1>7. /\ delivered' = [delivered EXCEPT ![job].line = @ + c]
      /\ Reaches(h, us, TRUE)
  BY <1>3, <1>5 DEF SendSnsMessage
<1>8. PICK d : d = delivered[job]
  OBVIOUS
<1>9. d \in Deliveries /\ d.web \in Nat /\ d.line \in Nat /\ d.pushed \subseteq AllDevices
  BY <1>2, <1>4, <1>8, NoticeTypes, DeliveryFields
<1>10. PICK e : e = [d EXCEPT !.line = d.line + c]
  OBVIOUS
<1>11. e \in Deliveries /\ e.line = d.line + c /\ e.web = d.web /\ e.pushed = d.pushed
  BY <1>6, <1>9, <1>10 DEF Deliveries
<1>12. delivered' = [delivered EXCEPT ![job] = e]
  BY <1>7, <1>8, <1>10
<1>13. delivered \in [0..Len(letters) -> Deliveries]
  BY <1>2 DEF NoticeTyped
<1>14. /\ delivered' \in [0..Len(letters) -> Deliveries]
       /\ \A i \in 0..Len(letters) : i # job => delivered'[i] = delivered[i]
       /\ delivered'[job] = e
  BY <1>4, <1>11, <1>12, <1>13
<1>15. wrong' = FALSE
  <2>1. wrong = FALSE
    BY <1>2 DEF RefusalsKept, NoticeTyped
  <2>2. us \cap Refusers(m.firm, job, TRUE) = {}
    BY <1>3, <1>4, <1>5 DEF MeansWell
  <2> QED
    BY <1>3, <1>7, <2>1, <2>2 DEF Reaches
<1>18. Moved(h) /\ at'[h] = "idle" /\ notice'[h] = NoNotice
  BY <1>1, <1>2, DoneMoved
<1>19. \A i \in 0..Len(letters) : delivered'[i].pushed = delivered[i].pushed
  BY <1>8, <1>11, <1>14, <1>12
<1>20. MetDead' = MetDead
  <2>1. DOMAIN delivered' = DOMAIN delivered /\ DOMAIN delivered = 0..Len(letters)
    BY <1>13, <1>14
  <2> QED
    BY <1>1, <1>19, <2>1 DEF MetDead
<1>21. DevicesTrue'
  BY <1>1, <1>2, <1>18, <1>20, DevicesSame
<1>22. ASSUME ~overlapped', faults' = 0, Awaited(job), UnderwayBy(h, job)
       PROVE  UnderwayBy(h, job)'
  <2>1. /\ m.to = Audience(job) /\ m.quiet \cap Audience(job) = {} /\ Cardinality(Audience(job)) = 1
        /\ SentByWeb(job) /\ delivered[job].line = 0
        /\ Invitee \in Audience(job) => Steady \subseteq delivered[job].pushed
    BY <1>1, <1>3, <1>22 DEF UnderwayBy, OnTheWay, Sending
  <2>2. job \notin alerts
    BY <1>1, <1>3, <1>22 DEF UnderwayBy, Carries, Carrying
  <2>3. us = Audience(job) /\ c = 1
    BY <1>5, <2>1
  <2>4. e.line = 1
    BY <1>8, <1>11, <2>1, <2>3
  <2>5. Audience(job)' = Audience(job) /\ Steady' = Steady
    BY <1>1 DEF Audience, IsCast, TypeOf, Steady, Alive
  <2>6. SentByWeb(job)'
    BY <1>8, <1>11, <1>14, <2>1 DEF SentByWeb
  <2>7. Arrived(job)'
    BY <1>8, <1>11, <1>14, <2>1, <2>4, <2>5, <2>6 DEF Arrived
  <2>8. OnTheWay(job, h)'
    BY <1>18 DEF OnTheWay, Sending
  <2> QED
    BY <1>1, <2>2, <2>7, <2>8 DEF UnderwayBy
<1>23. at[h] \in Sending /\ at'[h] \in Sending \cup {"idle"} /\ at'[h] \notin Sending
  BY <1>1, <1>18 DEF Sending
<1>24. devices' \subseteq AllDevices /\ notice'[h].firm \subseteq refusals
  BY <1>1, <1>2, <1>18, NothingUnderway DEF NoticeTyped
<1>25. \A g \in Handlers \ {h} : notice'[g].firm = notice[g].firm
  <2>1. notice \in [Handlers -> NoticeRows] /\ notice' = [notice EXCEPT ![h] = NoNotice]
    BY <1>1, <1>2 DEF NoticeTyped, NoticeDone, Handling
  <2> QED
    BY <2>1
<1> QED
  BY <1>1, <1>3, <1>14, <1>15, <1>18, <1>21, <1>22, <1>23, <1>24, <1>25, SendStep

\* All devices have been tried.
LEMMA PushedAllOK ==
  ASSUME NoticeIInv, NEW h \in Handlers, at[h] = "push", notice[h].tried = notice[h].list,
         Continue(h, "line"),
         UNCHANGED <<people, devices, wanted, refusals, averse, letters, news, alerts, notice, delivered, wrong>>
  PROVE  NoticeIInv'
<1>2. NoticeTyped /\ JobsWritten /\ RefusalsKept /\ SentAreThere /\ DevicesTrue /\ AlertsUnderway
  BY DEF NoticeIInv
<1>3. PICK m, job : m = notice[h] /\ job = m.job
  OBVIOUS
<1>4. m.firm \subseteq refusals
  BY <1>2, <1>3 DEF RefusalsKept
<1>5. "line" \in NoticeLabels
  BY DEF NoticeLabels
<1>6. Moved(h) /\ at'[h] = "line" /\ notice'[h] = m
  BY <1>2, <1>3, <1>5, ContinueMoved
<1>7. DevicesTrue'
  BY <1>2, <1>6, MetSame, DevicesSame
<1>8. delivered' \in [0..Len(letters) -> Deliveries] /\ devices' \subseteq AllDevices /\ wrong' = FALSE
  BY <1>2 DEF NoticeTyped, RefusalsKept
<1>9. at[h] \in Sending /\ at'[h] \in Sending
  BY <1>6 DEF Sending
<1>10. ASSUME ~overlapped', faults' = 0, Awaited(job), UnderwayBy(h, job)
       PROVE  UnderwayBy(h, job)'
  <2>1. /\ m.to = Audience(job) /\ m.quiet \cap Audience(job) = {} /\ Cardinality(Audience(job)) = 1
        /\ SentByWeb(job) /\ delivered[job].line = 0 /\ m.tried \subseteq delivered[job].pushed
    BY <1>3, <1>10 DEF UnderwayBy, OnTheWay, Sending
  <2>2. job \notin alerts
    BY <1>3, <1>10 DEF UnderwayBy, Carries, Carrying
  <2>3. Carries(h, job)'
    BY <1>3, <1>6 DEF Carries, Carrying
  <2>4. Invitee \in m.to => Alive(m.list) = Alive(wanted)
    BY <1>2, <1>3, <1>6, <1>10 DEF DevicesTrue, DevicesOf, Moved
  <2>5. Steady \subseteq Alive(wanted) /\ Alive(m.list) \subseteq m.list
    BY DEF Steady, Alive
  <2>6. Invitee \in Audience(job) => Steady \subseteq delivered[job].pushed
    BY <1>3, <2>1, <2>4, <2>5
  <2>7. Audience(job)' = Audience(job) /\ Steady' = Steady /\ SentByWeb(job)'
    BY <2>1 DEF Audience, IsCast, TypeOf, Steady, Alive, SentByWeb
  <2>8. OnTheWay(job, h)'
    BY <1>6, <2>1, <2>6, <2>7 DEF OnTheWay, Sending
  <2> QED
    BY <2>2, <2>3, <2>8 DEF UnderwayBy
<1> QED
  BY <1>3, <1>4, <1>6, <1>7, <1>8, <1>9, <1>10, SendStep

\* The dead devices that are left, when one of them is taken out.
LEMMA DeadTaken ==
  ASSUME NEW dead, IsFiniteSet(dead), NEW list, NEW e \in list \cap dead
  PROVE  /\ Cardinality((list \ {e}) \cap dead) \in Nat
         /\ Cardinality(list \cap dead) = Cardinality((list \ {e}) \cap dead) + 1
<1>1. PICK s : s = list \cap dead
  OBVIOUS
<1>2. s \in SUBSET dead /\ e \in s
  BY <1>1
<1>3. Cardinality(s) \in Nat /\ Cardinality(s \ {e}) = Cardinality(s) - 1
  BY <1>2, SubsetSizes
<1>4. s \ {e} = (list \ {e}) \cap dead
  BY <1>1
<1>5. s \ {e} \in SUBSET dead
  BY <1>2
<1>6. Cardinality(s \ {e}) \in Nat
  BY <1>5, SubsetSizes
<1> QED
  BY <1>1, <1>3, <1>4, <1>6

LEMMA MetFinite ==
  ASSUME NoticeTyped
  PROVE  IsFiniteSet(MetDead) /\ MetDead \subseteq 0..Len(letters)
<1>1. MetDead \subseteq 0..Len(letters) /\ Len(letters) \in Nat
  BY NoticeTypes DEF MetDead
<1>2. IsFiniteSet(0..Len(letters))
  BY <1>1, FS_Interval
<1> QED
  BY <1>1, <1>2, FS_Subset

\* One device more has been tried, and taken out if it is dead.
LEMMA PushedOneOK ==
  ASSUME NoticeIInv, NEW h \in Handlers, at[h] = "push", NEW d \in notice[h].list \ notice[h].tried,
         Continue(h, "push"), Handling(h, [notice[h] EXCEPT !.tried = @ \cup {d}]),
         delivered' = [delivered EXCEPT ![notice[h].job].pushed = @ \cup {d}],
         Reaches(h, {Invitee}, FALSE),
         devices' = IF d \in people.dead THEN notice[h].list \ {d} ELSE devices,
         UNCHANGED <<people, wanted, refusals, averse, letters, news, alerts>>
  PROVE  NoticeIInv'
<1>2. NoticeTyped /\ JobsWritten /\ RefusalsKept /\ SentAreThere /\ DevicesTrue /\ AlertsUnderway
  BY DEF NoticeIInv
<1>3. PICK m, job : m = notice[h] /\ job = m.job
  OBVIOUS
<1>4. m \in NoticeRows /\ job \in 0..Len(letters) /\ m.firm \subseteq refusals /\ MeansWell(h)
  BY <1>2, <1>3, NoticeTypes DEF JobsWritten, Carrying, Sending, RefusalsKept
<1>5. m.list \subseteq AllDevices /\ m.tried \subseteq AllDevices /\ d \in AllDevices /\ d \in m.list
      /\ d \notin m.tried
  BY <1>3, <1>4, NoticeRowFields
<1>6. PICK n : n = [m EXCEPT !.tried = m.tried \cup {d}]
  OBVIOUS
<1>7. /\ n \in NoticeRows /\ n.tried = m.tried \cup {d} /\ n.job = job /\ n.to = m.to
      /\ n.quiet = m.quiet /\ n.list = m.list /\ n.firm = m.firm
  <2>1. m.tried \cup {d} \subseteq AllDevices
    BY <1>5
  <2> QED
    BY <1>3, <1>4, <1>6, <2>1 DEF NoticeRows
<1>8. Handling(h, n)
  BY <1>3, <1>6 DEF Handling
<1>9. HandlerStep(h, "push") /\ "push" \in NoticeLabels
  BY DEF HandlerStep, NoticeLabels
<1>10. Moved(h) /\ at'[h] = "push" /\ notice'[h] = n
  BY <1>2, <1>7, <1>8, <1>9, HandlingMoved
<1>11. PICK o : o = delivered[job]
  OBVIOUS
<1>12. o \in Deliveries /\ o.web \in Nat /\ o.line \in Nat /\ o.pushed \subseteq AllDevices
  BY <1>2, <1>4, <1>11, NoticeTypes, DeliveryFields
<1>13. PICK e : e = [o EXCEPT !.pushed = o.pushed \cup {d}]
  OBVIOUS
<1>14. e \in Deliveries /\ e.pushed = o.pushed \cup {d} /\ e.line = o.line /\ e.web = o.web
  <2>1. o.pushed \cup {d} \subseteq AllDevices
    BY <1>5, <1>12
  <2> QED
    BY <1>12, <1>13, <2>1 DEF Deliveries
<1>15. delivered' = [delivered EXCEPT ![job] = e] /\ delivered \in [0..Len(letters) -> Deliveries]
  BY <1>2, <1>3, <1>11, <1>13 DEF NoticeTyped
<1>16. /\ delivered' \in [0..Len(letters) -> Deliveries] /\ delivered'[job] = e
       /\ \A i \in 0..Len(letters) : i # job => delivered'[i] = delivered[i]
  BY <1>4, <1>14, <1>15
<1>17. wrong' = FALSE
  <2>1. wrong = FALSE
    BY <1>2 DEF RefusalsKept, NoticeTyped
  <2>2. m.to \cap Refusers(m.firm, job, FALSE) = {} /\ Invitee \in m.to
    BY <1>3, <1>4, <1>5 DEF MeansWell
  <2> QED
    BY <1>3, <2>1, <2>2 DEF Reaches
<1>18. Invitee \in m.to
  BY <1>3, <1>4, <1>5 DEF MeansWell
<1>19. /\ DOMAIN delivered' = 0..Len(letters) /\ DOMAIN delivered = 0..Len(letters)
       /\ \A i \in 0..Len(letters) :
             delivered'[i].pushed = IF i = job THEN delivered[i].pushed \cup {d} ELSE delivered[i].pushed
  BY <1>11, <1>14, <1>15, <1>16
<1>20. MetDead' = IF d \in people.dead THEN MetDead \cup {job} ELSE MetDead
  <2>1. \A i : i \in MetDead <=> i \in 0..Len(letters) /\ delivered[i].pushed \cap people.dead # {}
    BY <1>19 DEF MetDead
  <2>2. \A i : i \in MetDead' <=> i \in 0..Len(letters) /\ delivered'[i].pushed \cap people.dead # {}
    BY <1>19 DEF MetDead
  <2>3. CASE d \in people.dead
    <3>1. \A i : i \in MetDead' <=> i \in MetDead \/ i = job
      <4>1. job \in MetDead'
        <5>1. d \in delivered'[job].pushed \cap people.dead
          <6>1. delivered'[job].pushed = o.pushed \cup {d}
            BY <1>14, <1>16
          <6> QED
            BY <2>3, <6>1
        <5>2. delivered'[job].pushed \cap people.dead # {}
          BY <5>1
        <5> QED
          BY <1>4, <2>2, <5>2
      <4>2. ASSUME NEW i, i # job PROVE i \in MetDead' <=> i \in MetDead
        <5>1. i \in 0..Len(letters) => delivered'[i].pushed = delivered[i].pushed
          BY <1>19, <4>2
        <5> QED
          BY <2>1, <2>2, <5>1
      <4> QED
        BY <4>1, <4>2
    <3> QED
      BY <2>3, <3>1
  <2>4. CASE d \notin people.dead
    <3>1. \A i : i \in MetDead' <=> i \in MetDead
      BY <1>4, <1>19, <2>1, <2>2, <2>4
    <3> QED
      BY <2>4, <3>1
  <2> QED
    BY <2>3, <2>4
<1>21. devices \subseteq AllDevices /\ devices' \subseteq AllDevices
  BY <1>2, <1>3, <1>5 DEF NoticeTyped
<1>22. DevicesTrue'
  <2>1. ASSUME ~overlapped'
        PROVE  /\ Alive(devices)' = Alive(wanted)'
               /\ Cardinality(devices' \cap people'.dead) + Cardinality(MetDead') <= Cardinality(people'.dead)
               /\ DevicesOf(h)'
    <3>1. ~overlapped
      BY <1>10, <2>1 DEF Moved
    <3>2. /\ Alive(devices) = Alive(wanted) /\ DevicesOf(h)
          /\ Cardinality(devices \cap people.dead) + Cardinality(MetDead) <= Cardinality(people.dead)
      BY <1>2, <3>1 DEF DevicesTrue
    <3>3. /\ m.tried \subseteq m.list /\ Alive(m.list) = Alive(wanted)
          /\ \/ m.tried \cap people.dead = {} /\ devices = m.list
             \/ \E x \in m.tried \cap people.dead : devices = m.list \ {x} /\ job \in MetDead
      BY <1>3, <1>5, <1>18, <3>2 DEF DevicesOf
    <3>4. CASE d \notin people.dead
      <4>1. devices' = devices /\ MetDead' = MetDead
        BY <1>20, <3>4
      <4>2. \/ n.tried \cap people.dead = {} /\ devices = n.list
            \/ \E x \in n.tried \cap people.dead : devices = n.list \ {x} /\ job \in MetDead
        BY <1>7, <3>3, <3>4
      <4>3. n.tried \subseteq n.list /\ Alive(n.list)' = Alive(wanted)'
        BY <1>5, <1>7, <3>3 DEF Alive
      <4>4. DevicesOf(h)'
        BY <1>7, <1>10, <4>1, <4>2, <4>3 DEF DevicesOf, Alive
      <4> QED
        BY <3>2, <4>1, <4>4 DEF Alive
    <3>5. CASE d \in people.dead
      <4>1. devices' = m.list \ {d} /\ MetDead' = MetDead \cup {job}
        BY <1>3, <1>20, <3>5
      <4>2. Alive(devices)' = Alive(wanted)'
        BY <3>3, <3>5, <4>1 DEF Alive
      <4>3. n.tried \subseteq n.list /\ Alive(n.list)' = Alive(wanted)'
        BY <1>5, <1>7, <3>3 DEF Alive
      <4>4. d \in n.tried \cap people'.dead /\ devices' = n.list \ {d} /\ n.job \in MetDead'
        BY <1>7, <3>5, <4>1
      <4>5. DevicesOf(h)'
        BY <1>10, <4>3, <4>4 DEF DevicesOf, Alive
      <4>6. Cardinality(devices' \cap people.dead) + Cardinality(MetDead') <= Cardinality(people.dead)
        <5>1. PICK D : D = people.dead
          OBVIOUS
        <5>2. IsFiniteSet(D)
          BY <1>2, <5>1, NoticeAssumption DEF NoticeTyped
        <5>3. /\ Cardinality((m.list \ {d}) \cap D) \in Nat
              /\ Cardinality(m.list \cap D) = Cardinality((m.list \ {d}) \cap D) + 1
          BY <1>5, <3>5, <5>1, <5>2, DeadTaken
        <5>4. IsFiniteSet(MetDead)
          BY <1>2, MetFinite
        <5>5. Cardinality(MetDead) \in Nat /\ Cardinality(D) \in Nat
          BY <5>2, <5>4, FS_CardinalityType
        <5>6. CASE m.tried \cap people.dead = {} /\ devices = m.list
          <6>1. Cardinality(MetDead \cup {job}) \in Nat
                /\ Cardinality(MetDead \cup {job}) <= Cardinality(MetDead) + 1
            <7>1. CASE job \in MetDead
              <8>1. MetDead \cup {job} = MetDead
                BY <7>1
              <8>2. PICK k \in Nat : k = Cardinality(MetDead)
                BY <5>5
              <8>3. k <= k + 1
                BY <8>2
              <8> QED
                BY <8>1, <8>2, <8>3
            <7>2. CASE job \notin MetDead
              <8>1. Cardinality(MetDead \cup {job}) = Cardinality(MetDead) + 1
                BY <5>4, <7>2, FS_AddElement
              <8>2. PICK k \in Nat : k = Cardinality(MetDead)
                BY <5>5
              <8>3. k + 1 \in Nat /\ k + 1 <= k + 1
                BY <8>2
              <8> QED
                BY <8>1, <8>2, <8>3
            <7> QED
              BY <7>1, <7>2
          <6>2. Cardinality(m.list \cap D) + Cardinality(MetDead) <= Cardinality(D)
            BY <3>2, <5>1, <5>6
          <6>3. PICK a \in Nat, b \in Nat, k \in Nat, l \in Nat :
                   /\ a = Cardinality((m.list \ {d}) \cap D) /\ b = Cardinality(D)
                   /\ k = Cardinality(MetDead) /\ l = Cardinality(MetDead \cup {job})
            BY <5>3, <5>5, <6>1
          <6>4. l <= k + 1 /\ (a + 1) + k <= b
            BY <5>3, <6>1, <6>2, <6>3
          <6>5. a + l <= b
            BY <6>3, <6>4
          <6> QED
            BY <4>1, <5>1, <6>3, <6>5
        <5>7. CASE \E x \in m.tried \cap people.dead : devices = m.list \ {x} /\ job \in MetDead
          <6>1. PICK x \in m.tried \cap D : devices = m.list \ {x} /\ job \in MetDead
            BY <5>1, <5>7
          <6>2. x \in m.list \cap D
            BY <3>3, <6>1
          <6>3. /\ Cardinality((m.list \ {x}) \cap D) \in Nat
                /\ Cardinality(m.list \cap D) = Cardinality((m.list \ {x}) \cap D) + 1
            BY <5>2, <6>2, DeadTaken
          <6>4. MetDead \cup {job} = MetDead
            BY <6>1
          <6>5. Cardinality((m.list \ {x}) \cap D) + Cardinality(MetDead) <= Cardinality(D)
            BY <3>2, <5>1, <6>1
          <6>6. Cardinality((m.list \ {x}) \cap D) = Cardinality((m.list \ {d}) \cap D)
            BY <5>3, <6>3
          <6> QED
            BY <4>1, <5>1, <6>4, <6>5, <6>6
        <5> QED
          BY <3>3, <5>6, <5>7
      <4> QED
        BY <4>2, <4>5, <4>6
    <3> QED
      BY <3>4, <3>5
  <2>2. at'[h] \notin {"register", "forget"}
    BY <1>10
  <2> QED
    BY <1>2, <1>10, <2>1, <2>2, DevicesStep
<1>23. at[h] \in Sending /\ at'[h] \in Sending
  BY <1>10 DEF Sending
<1>24. ASSUME ~overlapped', faults' = 0, Awaited(job), UnderwayBy(h, job)
       PROVE  UnderwayBy(h, job)'
  <2>1. /\ m.to = Audience(job) /\ m.quiet \cap Audience(job) = {} /\ Cardinality(Audience(job)) = 1
        /\ SentByWeb(job) /\ delivered[job].line = 0 /\ m.tried \subseteq delivered[job].pushed
    BY <1>3, <1>24 DEF UnderwayBy, OnTheWay, Sending
  <2>2. job \notin alerts
    BY <1>3, <1>24 DEF UnderwayBy, Carries, Carrying
  <2>3. Carries(h, job)'
    BY <1>7, <1>10 DEF Carries, Carrying
  <2>4. Audience(job)' = Audience(job) /\ SentByWeb(job)' /\ delivered'[job].line = 0
        /\ n.tried \subseteq delivered'[job].pushed
    BY <1>7, <1>11, <1>14, <1>16, <2>1 DEF Audience, IsCast, TypeOf, SentByWeb
  <2>5. OnTheWay(job, h)'
    BY <1>7, <1>10, <2>1, <2>4 DEF OnTheWay, Sending
  <2> QED
    BY <2>2, <2>3, <2>5 DEF UnderwayBy
<1>25. \A g \in Handlers \ {h} : notice'[g].firm = notice[g].firm
  <2>1. notice \in [Handlers -> NoticeRows] /\ notice' = [notice EXCEPT ![h] = n]
    BY <1>2, <1>8 DEF NoticeTyped, Handling
  <2> QED
    BY <2>1
<1>26. notice'[h].firm \subseteq refusals
  BY <1>4, <1>7, <1>10
<1>27. /\ notice'[h].job = job /\ notice'[h].to = notice[h].to
       /\ notice'[h].quiet = notice[h].quiet /\ notice'[h].list = notice[h].list
       /\ notice'[h].firm = notice[h].firm
  BY <1>3, <1>7, <1>10
<1> QED
  BY <1>3, <1>10, <1>16, <1>17, <1>21, <1>22, <1>23, <1>24, <1>25, <1>26, <1>27, SendStep

LEMMA SendPushMessageOK ==
  ASSUME NoticeIInv, NEW h \in Handlers, SendPushMessage(h)
  PROVE  NoticeIInv'
<1>1. at[h] = "push" /\ UNCHANGED <<people, wanted, refusals, averse, letters, news, alerts>>
  BY DEF SendPushMessage, LettersSame
<1>2. CASE /\ notice[h].tried = notice[h].list
           /\ Continue(h, "line") /\ UNCHANGED <<devices, delivered, wrong, notice>>
  BY <1>1, <1>2, PushedAllOK
<1>3. ASSUME NEW d \in notice[h].list \ notice[h].tried,
             Continue(h, "push"), Handling(h, [notice[h] EXCEPT !.tried = @ \cup {d}]),
             delivered' = [delivered EXCEPT ![notice[h].job].pushed = @ \cup {d}],
             Reaches(h, {Invitee}, FALSE),
             devices' = IF d \in people.dead THEN notice[h].list \ {d} ELSE devices
      PROVE  NoticeIInv'
  BY <1>1, <1>3, PushedOneOK
<1> QED
  BY <1>2, <1>3 DEF SendPushMessage

-----------------------------------------------------------------------------
(* Steps that write *)

LEMMA JoinedRows ==
  ASSUME NEW s \in Seq(LetterRows), NEW t \in Seq(LetterRows), NEW m \in Nat, NEW n \in Nat,
         m = Len(s), n = Len(t)
  PROVE  /\ s \o t \in Seq(LetterRows) /\ Len(s \o t) = m + n /\ DOMAIN (s \o t) = 1..(m + n)
         /\ \A i \in 1..m : (s \o t)[i] = s[i]
         /\ \A q \in 1..n : (s \o t)[m + q] = t[q]
OBVIOUS

\* The letters that are written are added, with the event's number.
LEMMA WriteAdds ==
  ASSUME NoticeTyped, NEW h \in Handlers, NEW ls \in Seq(LetterRows), NEW became \in {"writing", "there"},
         Write(h, ls, became), UNCHANGED people
  PROVE  /\ letters' \in Seq(LetterRows) /\ Len(letters') = Len(letters) + Len(ls)
         /\ DOMAIN letters' = 1..Len(letters')
         /\ \A i \in DOMAIN letters : i \in DOMAIN letters' /\ letters'[i] = letters[i]
         /\ \A q \in DOMAIN ls :
               LET r == letters'[Len(letters) + q]
               IN  /\ Len(letters) + q \in DOMAIN letters' /\ Len(letters) + q \notin DOMAIN letters
                   /\ r.to = ls[q].to /\ r.about = ls[q].about /\ r.alert = ls[q].alert
                   /\ r.state = became /\ r.event = notice[h].event /\ r.kind = notice[h].kind
                   /\ delivered'[Len(letters) + q] = NothingSent
         /\ \A i \in DOMAIN letters' : i \in DOMAIN letters \/ \E q \in DOMAIN ls : i = Len(letters) + q
         /\ delivered' \in [0..Len(letters') -> Deliveries]
         /\ \A i \in 0..Len(letters) : delivered'[i] = delivered[i]
         /\ RowsKept /\ MetDead' = MetDead
<1>1. PICK m \in Nat, n \in Nat : m = Len(letters) /\ n = Len(ls)
  <2>1. Len(letters) \in Nat
    BY NoticeTypes
  <2>2. Len(ls) \in Nat
    OBVIOUS
  <2> QED
    BY <2>1, <2>2
<1>2. /\ letters \in Seq(LetterRows) /\ DOMAIN letters = 1..m /\ DOMAIN ls = 1..n
      /\ delivered \in [0..m -> Deliveries]
  BY <1>1, NoticeTypes DEF NoticeTyped
<1>3. PICK e, k : e = notice[h].event /\ k = notice[h].kind
  OBVIOUS
<1>4. e \in Nat /\ k \in LetterKinds \cup {"none"}
  BY <1>3, NoticeTypes, NoticeRowFields
<1>5. PICK t : t = [i \in 1..n |-> [ls[i] EXCEPT !.state = became, !.event = e, !.kind = k]]
  OBVIOUS
<1>6. ASSUME NEW q \in 1..n
      PROVE  /\ t[q] \in LetterRows /\ t[q].to = ls[q].to /\ t[q].about = ls[q].about
             /\ t[q].alert = ls[q].alert
             /\ t[q].state = became /\ t[q].event = e /\ t[q].kind = k
  <2>1. PICK r : r = ls[q]
    OBVIOUS
  <2>2. r \in LetterRows
    BY <1>2, <2>1
  <2>3. t[q] = [r EXCEPT !.state = became, !.event = e, !.kind = k]
    BY <1>5, <2>1
  <2>4. became \in {"writing", "there", "gone"}
    OBVIOUS
  <2>5. t[q] \in LetterRows
    BY <1>4, <2>2, <2>3, <2>4 DEF LetterRows
  <2>6. /\ t[q].to = r.to /\ t[q].about = r.about /\ t[q].alert = r.alert
        /\ t[q].state = became /\ t[q].event = e /\ t[q].kind = k
    BY <2>2, <2>3 DEF LetterRows
  <2> QED
    BY <2>1, <2>5, <2>6
<1>7. t \in Seq(LetterRows) /\ Len(t) = n /\ DOMAIN t = 1..n
  <2>1. t \in [1..n -> LetterRows]
    BY <1>5, <1>6
  <2> QED
    BY <2>1
<1>8. letters' = letters \o t
  BY <1>2, <1>3, <1>5 DEF Write
<1>9. /\ letters' \in Seq(LetterRows) /\ Len(letters') = m + n /\ DOMAIN letters' = 1..(m + n)
      /\ \A i \in 1..m : letters'[i] = letters[i]
      /\ \A q \in 1..n : letters'[m + q] = t[q]
  BY <1>1, <1>2, <1>7, <1>8, JoinedRows
<1>10. \A q \in 1..n : m + q \in 1..(m + n) /\ m + q \notin 0..m /\ m + q \in 0..(m + n)
  BY <1>1
<1>11. \A i \in 1..m : i \in 1..(m + n)
  BY <1>1
<1>12. ASSUME NEW i \in 1..(m + n) PROVE i \in 1..m \/ \E q \in 1..n : i = m + q
  <2>1. i \in 1..m \/ (i - m \in 1..n /\ i = m + (i - m))
    BY <1>1
  <2> QED
    BY <2>1
<1>13. delivered' = [i \in 0..(m + n) |-> IF i \in 0..m THEN delivered[i] ELSE NothingSent]
  BY <1>2, <1>9 DEF Write
<1>14. NothingSent \in Deliveries /\ NothingSent.pushed = {}
  BY DEF NothingSent, Deliveries
<1>15. delivered' \in [0..(m + n) -> Deliveries]
  <2>1. \A i \in 0..(m + n) : (IF i \in 0..m THEN delivered[i] ELSE NothingSent) \in Deliveries
    BY <1>2, <1>14
  <2> QED
    BY <1>13, <2>1
<1>16. \A i \in 0..m : i \in 0..(m + n)
  BY <1>1
<1>17. \A i \in 0..m : delivered'[i] = delivered[i]
  BY <1>13, <1>16
<1>18. \A i \in 0..(m + n) : i \notin 0..m => delivered'[i] = NothingSent
  BY <1>13
<1>19. RowsKept
  BY <1>2, <1>9, <1>11 DEF RowsKept
<1>20. MetDead' = MetDead
  <2>1. DOMAIN delivered = 0..m /\ DOMAIN delivered' = 0..(m + n)
    BY <1>2, <1>15
  <2>2. ASSUME NEW i PROVE i \in MetDead' <=> i \in MetDead
    <3>1. CASE i \in 0..m
      BY <1>16, <1>17, <2>1, <3>1 DEF MetDead
    <3>2. CASE i \notin 0..m
      <4>1. i \in 0..(m + n) => delivered'[i].pushed \cap people'.dead = {}
        BY <1>14, <1>18, <3>2
      <4> QED
        BY <2>1, <3>2, <4>1 DEF MetDead
    <3> QED
      BY <3>1, <3>2
  <2> QED
    BY <2>2
<1>21. ASSUME NEW q \in 1..n
       PROVE  LET r == letters'[m + q]
              IN  /\ m + q \in DOMAIN letters' /\ m + q \notin DOMAIN letters
                  /\ r.to = ls[q].to /\ r.about = ls[q].about /\ r.alert = ls[q].alert
                  /\ r.state = became /\ r.event = notice[h].event /\ r.kind = notice[h].kind
                  /\ delivered'[m + q] = NothingSent
  <2>1. m + q \in DOMAIN letters' /\ m + q \notin DOMAIN letters
    BY <1>1, <1>2, <1>9, <1>10
  <2>2. letters'[m + q] = t[q] /\ delivered'[m + q] = NothingSent
    BY <1>9, <1>10, <1>18
  <2> QED
    BY <1>3, <1>6, <2>1, <2>2
<1> QED
  BY <1>1, <1>2, <1>9, <1>11, <1>12, <1>15, <1>17, <1>19, <1>20, <1>21

\* A step of writing that has the parts of the invariant shown.
LEMMA WrittenStep ==
  ASSUME NoticeIInv, NEW h \in Handlers, Moved(h),
         UNCHANGED <<people, devices, wanted, refusals, averse, news, wrong>>,
         RowsKept, letters' \in Seq(LetterRows), Len(letters) <= Len(letters'),
         alerts' \subseteq 0..Len(letters'), delivered' \in [0..Len(letters') -> Deliveries],
         \A i \in 0..Len(letters) : delivered'[i] = delivered[i],
         at[h] \notin Carrying \/ faults' # 0, at'[h] \notin Sending,
         at'[h] \in Carrying => notice'[h].job \in (1..Len(letters')) \ DOMAIN letters,
         at'[h] = "write" => notice'[h].left # <<>>,
         at'[h] \notin {"register", "forget", "resolve"},
         notice'[h].firm \subseteq refusals,
         \A g \in Handlers \ {h} : notice'[g].firm = notice[g].firm,
         AlertsAreOfMessages', PassedOnIsTold', LeftTold(h)', PassingOn', MetDead' = MetDead,
         news = "none" /\ 0 \in alerts' => 0 \in alerts,
         ~overlapped' /\ faults' = 0 =>
            /\ \A i \in DOMAIN letters' : letters'[i].state # "there" => NotThere(h, i)'
            /\ \A i \in 0..Len(letters) : i \in alerts' <=> i \in alerts
            /\ \A i \in (1..Len(letters')) \ DOMAIN letters : Awaited(i)' => UnderwayBy(h, i)'
  PROVE  NoticeIInv'
<1>1. NoticeTyped /\ JobsWritten /\ RefusalsKept /\ SentAreThere /\ ToldFirst /\ PassingOn
      /\ DevicesTrue /\ AlertsUnderway
  BY DEF NoticeIInv
<1>2. Len(letters) \in Nat /\ Len(letters') \in Nat /\ DOMAIN letters = 1..Len(letters)
  BY <1>1, NoticeTypes
<1>3. NoticeTyped'
  <2>1. /\ devices' \subseteq AllDevices /\ wanted' \subseteq AllDevices
        /\ news' \in {"none", "requested", "closed"}
        /\ refusals' \subseteq Refusals /\ averse' \subseteq Couple /\ wrong' \in BOOLEAN
    BY <1>1 DEF NoticeTyped
  <2> QED
    BY <1>1, <2>1, TypedStep
<1>4. JobsWritten'
  <2>1. \A i \in 1..Len(letters') : i \in 0..Len(letters')
    BY <1>2
  <2>2. at'[h] \in Carrying => notice'[h].job \in 0..Len(letters')
    BY <2>1
  <2> QED
    BY <1>1, <1>2, <2>2, JobsStep
<1>5. RefusalsKept'
  <2>1. ~wrong' /\ \A u \in Couple, way \in {"block", "silence"} : <<u, way>> \in refusals' => u \in averse'
    BY <1>1 DEF RefusalsKept
  <2>2. \A g \in Handlers : notice'[g].firm \subseteq refusals'
    BY <1>1 DEF RefusalsKept
  <2> QED
    BY <1>1, <2>1, <2>2, RefusalsStep
<1>6. SentAreThere'
  BY <1>1, SentStep
<1>7. ToldFirst'
  BY <1>1, ToldStep
<1>8. DevicesTrue'
  <2>1. at'[h] \notin {"register", "forget", "resolve", "web", "push"}
    BY DEF Sending
  <2> QED
    BY <1>1, <2>1, DevicesSame
<1>9. faults' = 0 => \A i : ~Carries(h, i)
  BY DEF Carries
<1>10. \A i \in 0..Len(letters) : ~Carries(h, i)'
  <2> SUFFICES ASSUME NEW i \in 0..Len(letters), Carries(h, i)' PROVE FALSE
    OBVIOUS
  <2>1. i \in (1..Len(letters')) \ DOMAIN letters
    BY DEF Carries
  <2> QED
    BY <1>2, <2>1
<1>11. news' # "none" => \E u \in Couple : IsGuest(u) /\ IsCast(OtherOne(u))
  BY <1>1 DEF AlertsUnderway
<1>12. 0 \in 0..Len(letters)
  BY <1>2
<1>13. news' = "none" => news = "none" /\ delivered'[0] = NothingSent /\ 0 \notin alerts'
                         /\ ~Carries(h, 0)'
  BY <1>1, <1>10, <1>12 DEF AlertsUnderway
<1>14. Steady' \subseteq Steady
  BY DEF Steady, Alive
<1>15. ASSUME ~overlapped', faults' = 0, NEW i \in 0..Len(letters'), Awaited(i)'
       PROVE  UnderwayBy(h, i)'
  <2>1. CASE i \in 0..Len(letters)
    <3>1. Awaited(i)
      BY <1>1, <1>15, <2>1, StillAwaited
    <3>2. UnderwayBy(h, i)
      BY <1>1, <1>15, <2>1, <3>1, AloneWith
    <3>3. ~Carries(h, i) /\ ~Carries(h, i)' /\ delivered'[i] = delivered[i]
          /\ (i \in alerts' <=> i \in alerts)
      BY <1>9, <1>10, <1>15, <2>1
    <3> QED
      BY <1>1, <1>14, <2>1, <3>2, <3>3, OtherAlerts
  <2>2. CASE i \notin 0..Len(letters)
    <3>1. i \in (1..Len(letters')) \ DOMAIN letters
      BY <1>2, <2>2
    <3> QED
      BY <1>15, <3>1
  <2> QED
    BY <2>1, <2>2
<1>16. AlertsUnderway'
  BY <1>1, <1>11, <1>13, <1>15, AlertsStep
<1> QED
  BY <1>3, <1>4, <1>5, <1>6, <1>7, <1>8, <1>16, PassingOn' DEF NoticeIInv

LEMMA ToldBeforeKept ==
  ASSUME RowsKept, NEW e, NEW u, ToldBefore(e, u)
  PROVE  ToldBefore(e, u)'
<1>1. PICK j \in DOMAIN letters :
         letters[j].to = u /\ letters[j].event = e /\ letters[j].state = "there"
  BY DEF ToldBefore
<1>2. /\ j \in DOMAIN letters' /\ letters'[j].to = u /\ letters'[j].event = e
      /\ letters'[j].state = "there"
  BY <1>1 DEF RowsKept
<1> QED
  BY <1>2 DEF ToldBefore

LEMMA WriteLetterOK ==
  ASSUME NoticeIInv, NEW h \in Handlers, WriteLetter(h)
  PROVE  NoticeIInv'
<1>1. NoticeTyped /\ JobsWritten /\ RefusalsKept /\ SentAreThere /\ ToldFirst /\ PassingOn
      /\ DevicesTrue /\ AlertsUnderway
  BY DEF NoticeIInv
<1>2. at[h] = "write" /\ UNCHANGED <<people, devices, wanted, refusals, averse, alerts>>
  BY DEF WriteLetter, MembersSame
<1>3. PICK m : m = notice[h]
  OBVIOUS
<1>4. PICK todo : todo = m.left
  OBVIOUS
<1>5. PICK e, k : e = m.event /\ k = m.kind
  OBVIOUS
<1>6. m \in NoticeRows /\ todo \in Seq(LetterRows) /\ todo # <<>> /\ m.firm \subseteq refusals
      /\ e \in Nat /\ k \in LetterKinds \cup {"none"}
  BY <1>1, <1>2, <1>3, <1>4, <1>5, NoticeTypes, NoticeRowFields DEF JobsWritten, RefusalsKept
<1>7. PICK letter, rest : letter = Head(todo) /\ rest = Tail(todo)
  OBVIOUS
<1>8. PICK c \in Nat : c = Len(todo)
  BY <1>6
<1>9. /\ letter \in LetterRows /\ letter = todo[1] /\ 1 \in DOMAIN todo /\ DOMAIN todo = 1..c
      /\ rest \in Seq(LetterRows) /\ DOMAIN rest = 1..(c - 1)
      /\ \A p \in 1..(c - 1) : rest[p] = todo[p + 1]
      /\ rest = <<>> <=> c = 1
  <2>1. c # 0
    BY <1>6, <1>8
  <2>2. 1 \in 1..c /\ DOMAIN todo = 1..c
    BY <1>6, <1>8, <2>1
  <2>3. letter = todo[1] /\ letter \in LetterRows
    BY <1>6, <1>7, <2>2
  <2>4. rest \in Seq(LetterRows) /\ Len(rest) = c - 1
    BY <1>6, <1>7, <1>8
  <2>5. DOMAIN rest = 1..(c - 1) /\ (rest = <<>> <=> c = 1)
    BY <2>1, <2>4
  <2>6. \A p \in 1..(c - 1) : rest[p] = todo[p + 1]
    BY <1>6, <1>7, <1>8, <2>5
  <2> QED
    BY <2>2, <2>3, <2>4, <2>5, <2>6
<1>10. PICK ls : ls = <<letter>>
  OBVIOUS
<1>11. ls \in Seq(LetterRows) /\ DOMAIN ls = {1} /\ ls[1] = letter /\ Len(ls) = 1
  BY <1>9, <1>10
<1>12. Write(h, ls, "there")
  BY <1>3, <1>4, <1>7, <1>10 DEF WriteLetter
<1>13. PICK L \in Nat : L = Len(letters)
  BY <1>1, NoticeTypes
<1>14. PICK j \in Nat : j = L + 1
  OBVIOUS
<1>15. /\ letters' \in Seq(LetterRows) /\ Len(letters') = j
       /\ DOMAIN letters' = 1..j /\ DOMAIN letters = 1..L
       /\ delivered' \in [0..Len(letters') -> Deliveries]
       /\ \A i \in 0..Len(letters) : delivered'[i] = delivered[i]
       /\ \A i \in DOMAIN letters : i \in DOMAIN letters' /\ letters'[i] = letters[i]
       /\ RowsKept /\ MetDead' = MetDead
  BY <1>1, <1>2, <1>11, <1>12, <1>13, <1>14, WriteAdds, NoticeTypes
<1>16. /\ j \in DOMAIN letters' /\ j \notin DOMAIN letters
       /\ letters'[j].to = letter.to /\ letters'[j].about = letter.about
       /\ letters'[j].alert = letter.alert /\ letters'[j].state = "there"
       /\ letters'[j].event = e /\ letters'[j].kind = k /\ delivered'[j] = NothingSent
  <2>1. 1 \in DOMAIN ls
    BY <1>11
  <2> QED
    BY <1>1, <1>2, <1>3, <1>5, <1>11, <1>12, <1>13, <1>14, <2>1, WriteAdds
<1>17. \A i \in DOMAIN letters' : i \in DOMAIN letters \/ i = j
  BY <1>13, <1>14, <1>15
<1>18. UNCHANGED <<news, wrong>>
  BY <1>12 DEF Write
<1>19. PICK l, n : /\ l = IF letter.alert THEN "enqueue" ELSE "write"
                   /\ n = [m EXCEPT !.left = rest, !.job = j]
  OBVIOUS
<1>20. /\ n \in NoticeRows /\ n.left = rest /\ n.job = j /\ n.event = e /\ n.kind = k /\ n.firm = m.firm
  <2>1. j \in Int /\ rest \in Seq(LetterRows)
    BY <1>9
  <2>2. n = [m EXCEPT !.left = rest, !.job = j]
    BY <1>19
  <2> QED
    BY <1>5, <1>6, <2>1, <2>2 DEF NoticeRows
<1>21. \/ rest = <<>> /\ ~letter.alert /\ NoticeDone(h)
       \/ (rest # <<>> \/ letter.alert) /\ Continue(h, l) /\ Handling(h, n)
  BY <1>3, <1>4, <1>7, <1>15, <1>19 DEF WriteLetter
<1>22. /\ Moved(h)
       /\ \/ rest = <<>> /\ ~letter.alert /\ at'[h] = "idle" /\ notice'[h] = NoNotice
          \/ (rest # <<>> \/ letter.alert) /\ at'[h] = l /\ notice'[h] = n
  <2>1. CASE rest = <<>> /\ ~letter.alert /\ NoticeDone(h)
    BY <1>1, <1>2, <2>1, DoneMoved
  <2>2. CASE (rest # <<>> \/ letter.alert) /\ Continue(h, l) /\ Handling(h, n)
    <3>1. HandlerStep(h, l) /\ l \in NoticeLabels /\ Handling(h, n)
      BY <1>2, <1>19, <2>2 DEF HandlerStep, NoticeLabels
    <3>2. Moved(h) /\ at'[h] = l /\ notice'[h] = n
      BY <1>1, <1>20, <3>1, HandlingMoved
    <3> QED
      BY <2>2, <3>2
  <2> QED
    BY <1>21, <2>1, <2>2
<1>23. letter.alert => k \notin PassedOn /\ c = 1
  BY <1>1, <1>2, <1>3, <1>4, <1>5, <1>8, <1>9 DEF PassingOn
<1>24. letter.about # "nobody" => ToldBefore(e, letter.about)
  <2>1. ~ToldIn(todo, 1)
    BY DEF ToldIn
  <2> QED
    BY <1>1, <1>2, <1>3, <1>4, <1>5, <1>9, <2>1 DEF ToldFirst
<1>25. at'[h] = "write" =>
          notice'[h] = n /\ rest # <<>> /\ notice'[h].left = rest /\ notice'[h].event = e
          /\ notice'[h].kind = k
  BY <1>19, <1>20, <1>22
<1>26. ASSUME NEW q \in 1..c, q # 1
       PROVE  /\ at'[h] = "write" /\ q - 1 \in DOMAIN rest /\ rest[q - 1] = todo[q]
  <2>1. q - 1 \in 1..(c - 1) /\ (q - 1) + 1 = q /\ c # 1
    BY <1>26
  <2>2. ~letter.alert /\ rest # <<>>
    BY <1>9, <1>23, <2>1
  <2>3. rest[q - 1] = todo[q]
    BY <1>9, <2>1
  <2> QED
    BY <1>9, <1>19, <1>22, <2>1, <2>2, <2>3
<1>27. ASSUME NEW p \in 1..(c - 1)
       PROVE  p + 1 \in 1..c /\ rest[p] = todo[p + 1] /\ p + 1 # 1
  BY <1>9, <1>27
<1>28. AlertsAreOfMessages'
  <2> SUFFICES ASSUME NEW i \in DOMAIN letters', letters'[i].state # "there"
               PROVE  delivered'[i] = NothingSent
    BY DEF AlertsAreOfMessages
  <2>1. i \in DOMAIN letters
    BY <1>16, <1>17
  <2>2. delivered[i] = NothingSent
    BY <1>1, <1>15, <2>1 DEF SentAreThere, AlertsAreOfMessages
  <2>3. i \in 0..Len(letters)
    BY <1>13, <1>15, <2>1
  <2> QED
    BY <1>15, <2>2, <2>3
<1>29. PassedOnIsTold'
  <2> SUFFICES ASSUME NEW i \in DOMAIN letters', letters'[i].about # "nobody"
               PROVE  \E o \in 1..(i - 1) :
                         /\ letters'[o].to = letters'[i].about
                         /\ letters'[o].event = letters'[i].event
                         /\ letters'[o].state = letters'[i].state
    BY DEF PassedOnIsTold
  <2>1. CASE i \in DOMAIN letters
    <3>1. PICK o \in 1..(i - 1) :
                 /\ letters[o].to = letters[i].about
                 /\ letters[o].event = letters[i].event /\ letters[o].state = letters[i].state
      BY <1>1, <1>15, <2>1 DEF ToldFirst, PassedOnIsTold
    <3>2. o \in DOMAIN letters
      BY <1>13, <1>15, <2>1
    <3> QED
      BY <1>15, <2>1, <3>1, <3>2
  <2>2. CASE i = j
    <3>1. PICK o \in DOMAIN letters :
             letters[o].to = letter.about /\ letters[o].event = e /\ letters[o].state = "there"
      BY <1>16, <1>24, <2>2 DEF ToldBefore
    <3>2. o \in 1..(j - 1)
      BY <1>13, <1>14, <1>15
    <3> QED
      BY <1>15, <1>16, <2>2, <3>1, <3>2
  <2> QED
    BY <1>17, <2>1, <2>2
<1>30. LeftTold(h)'
  <2> SUFFICES ASSUME at'[h] = "write", NEW p \in DOMAIN rest, rest[p].about # "nobody"
               PROVE  ToldIn(rest, p) \/ ToldBefore(e, rest[p].about)'
    <3>1. at'[h] # "writeAll"
      BY <1>19, <1>22
    <3>2. PICK o : o = notice'[h]
      OBVIOUS
    <3>3. at'[h] = "write" => o.left = rest /\ o.event = e
      BY <1>25, <3>2
    <3> QED
      BY <3>1, <3>2, <3>3 DEF LeftTold, ToldBefore
  <2>1. p \in 1..(c - 1)
    BY <1>9
  <2>2. p + 1 \in 1..c /\ rest[p] = todo[p + 1]
    BY <1>27, <2>1
  <2>3. ToldIn(todo, p + 1) \/ ToldBefore(e, rest[p].about)
    BY <1>1, <1>2, <1>3, <1>4, <1>5, <1>9, <2>2 DEF ToldFirst
  <2>4. CASE ToldBefore(e, rest[p].about)
    BY <1>15, <2>4, ToldBeforeKept
  <2>5. CASE ToldIn(todo, p + 1)
    <3>1. PICK q \in 1..((p + 1) - 1) : todo[q].to = rest[p].about
      BY <2>2, <2>5 DEF ToldIn
    <3>2. CASE q = 1
      <4>1. letters'[j].to = rest[p].about
        BY <1>9, <1>16, <3>1, <3>2
      <4> QED
        BY <1>16, <4>1 DEF ToldBefore
    <3>3. CASE q # 1
      <4>1. q \in 1..c /\ q - 1 \in 1..(p - 1)
        BY <2>1, <3>3
      <4>2. rest[q - 1].to = rest[p].about
        BY <1>26, <3>1, <3>3, <4>1
      <4> QED
        BY <4>1, <4>2 DEF ToldIn
    <3> QED
      BY <3>2, <3>3
  <2> QED
    BY <2>3, <2>4, <2>5
<1>31. LeftPassesOn(h)'
  <2> SUFFICES ASSUME at'[h] = "write", NEW p \in DOMAIN rest
               PROVE  /\ k \in PassedOn /\ rest[p].to \in Couple /\ IsCast(rest[p].to) => PassesOn(rest, p)
                      /\ rest[p].alert => k \notin PassedOn /\ Len(rest) = 1
    <3>1. at'[h] # "writeAll"
      BY <1>19, <1>22
    <3>2. PICK o : o = notice'[h]
      OBVIOUS
    <3>3. at'[h] = "write" => o.left = rest /\ o.kind = k
      BY <1>25, <3>2
    <3>4. \A p \in DOMAIN rest : IsCast(rest[p].to) <=> people'.type[rest[p].to] = "cast"
      BY <1>2 DEF IsCast, TypeOf
    <3> QED
      BY <3>1, <3>2, <3>3, <3>4 DEF LeftPassesOn, IsCast, TypeOf
  <2>1. p \in 1..(c - 1)
    BY <1>9
  <2>2. p + 1 \in 1..c /\ rest[p] = todo[p + 1] /\ p + 1 # 1
    BY <1>27, <2>1
  <2>3. ASSUME k \in PassedOn, rest[p].to \in Couple, IsCast(rest[p].to) PROVE PassesOn(rest, p)
    <3>1. PassesOn(todo, p + 1)
      BY <1>1, <1>2, <1>3, <1>4, <1>5, <1>9, <2>2, <2>3 DEF PassingOn
    <3>2. PICK q \in 1..c : q > p + 1 /\ todo[q].about = rest[p].to
      BY <1>9, <2>2, <3>1 DEF PassesOn
    <3>3. q # 1 /\ q - 1 > p
      BY <2>1, <3>2
    <3>4. q - 1 \in DOMAIN rest /\ rest[q - 1].about = rest[p].to
      BY <1>26, <3>2, <3>3
    <3> QED
      BY <3>3, <3>4 DEF PassesOn
  <2>4. ~rest[p].alert
    <3>1. todo[p + 1].alert => Len(todo) = 1
      BY <1>1, <1>2, <1>3, <1>4, <1>9, <2>2 DEF PassingOn
    <3>2. c # 1
      BY <2>1
    <3> QED
      BY <1>8, <2>2, <3>1, <3>2
  <2> QED
    BY <2>3, <2>4
<1>32. PassingOn'
  <2>1. ASSUME NEW i \in DOMAIN letters', NEW q \in 1..c, q # 1, letters'[i].event = e,
               letters'[i].kind = k, todo[q].about = letters'[i].to
        PROVE  IsPassedOn(i)'
    <3>1. at'[h] = "write" /\ q - 1 \in DOMAIN rest /\ rest[q - 1] = todo[q]
      BY <1>26, <2>1
    <3>2. PICK o : o = notice'[h]
      OBVIOUS
    <3>3. o.left = rest /\ o.event = e /\ o.kind = k
      BY <1>25, <3>1, <3>2
    <3> QED
      BY <2>1, <3>1, <3>2, <3>3 DEF IsPassedOn
  <2>2. ASSUME faults' = 0, NEW i \in DOMAIN letters', letters'[i].kind \in PassedOn,
               letters'[i].to \in Couple, IsCast(letters'[i].to)
        PROVE  IsPassedOn(i)'
    <3>1. CASE i \in DOMAIN letters
      <4>1. letters'[i] = letters[i]
        BY <1>15, <3>1
      <4>2. ASSUME NEW p \in DOMAIN todo, e = letters[i].event, k = letters[i].kind,
                   todo[p].about = letters[i].to
            PROVE  IsPassedOn(i)'
        <5>1. CASE p = 1
          BY <1>9, <1>16, <4>1, <4>2, <5>1 DEF IsPassedOn
        <5>2. CASE p # 1
          BY <1>9, <2>1, <4>1, <4>2, <5>2
        <5> QED
          BY <5>1, <5>2
      <4>3. at[h] = "write" =>
              \A p \in DOMAIN notice[h].left :
                (notice[h].event = letters[i].event /\ notice[h].kind = letters[i].kind
                 /\ notice[h].left[p].about = letters[i].to) => IsPassedOn(i)'
        BY <1>3, <1>4, <1>5, <4>2
      <4> QED
        BY <1>1, <1>2, <1>15, <1>22, <2>2, <3>1, <4>1, <4>3, PassedStep
    <3>2. CASE i = j
      <4>1. PassesOn(todo, 1)
        BY <1>1, <1>2, <1>3, <1>4, <1>5, <1>9, <1>16, <2>2, <3>2 DEF PassingOn
      <4>2. PICK q \in 1..c : q > 1 /\ todo[q].about = letter.to
        BY <1>9, <4>1 DEF PassesOn
      <4>3. q # 1
        BY <4>2
      <4> QED
        BY <1>16, <2>1, <3>2, <4>2, <4>3
    <3> QED
      BY <1>17, <3>1, <3>2
  <2> QED
    BY <1>1, <1>2, <1>22, <1>31, <2>2, PassingStep
<1>33. alerts' \subseteq 0..Len(letters')
  <2>1. alerts \subseteq 0..L
    BY <1>1, <1>13 DEF NoticeTyped
  <2>2. \A i \in 0..L : i \in 0..j
    BY <1>14
  <2> QED
    BY <1>2, <1>15, <2>1, <2>2
<1>34. /\ at[h] \notin Carrying /\ at'[h] \notin Sending /\ at'[h] \notin {"register", "forget", "resolve"}
       /\ at'[h] \in Carrying => at'[h] = "enqueue" /\ letter.alert
  BY <1>2, <1>19, <1>22 DEF Carrying, Sending
<1>35. at'[h] = "enqueue" => notice'[h].job = j
  BY <1>20, <1>22
<1>36. at'[h] \in Carrying => notice'[h].job \in (1..Len(letters')) \ DOMAIN letters
  BY <1>15, <1>16, <1>34, <1>35
<1>37. at'[h] = "write" => notice'[h].left # <<>>
  BY <1>25
<1>38. notice'[h].firm \subseteq refusals
  BY <1>6, <1>20, <1>22, NothingUnderway
<1>39. \A g \in Handlers \ {h} : notice'[g].firm = notice[g].firm
  <2>1. notice \in [Handlers -> NoticeRows] /\ \E o : notice' = [notice EXCEPT ![h] = o]
    BY <1>1, <1>21 DEF NoticeTyped, NoticeDone, Handling
  <2> QED
    BY <2>1
<1>40. ASSUME ~overlapped', faults' = 0
       PROVE  /\ \A i \in DOMAIN letters' : letters'[i].state # "there" => NotThere(h, i)'
              /\ \A i \in (1..Len(letters')) \ DOMAIN letters : Awaited(i)' => UnderwayBy(h, i)'
  <2>1. ASSUME NEW i \in DOMAIN letters', letters'[i].state # "there" PROVE FALSE
    <3>1. i \in DOMAIN letters /\ letters[i].state # "there"
      BY <1>15, <1>16, <1>17, <2>1
    <3>2. NotThere(h, i)
      BY <1>1, <1>22, <1>40, <3>1, AloneWith
    <3> QED
      BY <1>2, <3>2 DEF NotThere
  <2>2. ASSUME NEW i \in (1..Len(letters')) \ DOMAIN letters, Awaited(i)' PROVE UnderwayBy(h, i)'
    <3>1. i = j
      BY <1>15, <1>17
    <3>2. j # 0
      BY <1>14
    <3>3. letter.alert
      BY <1>16, <2>2, <3>1, <3>2 DEF Awaited
    <3>4. at'[h] = "enqueue" /\ notice'[h].job = j
      BY <1>19, <1>20, <1>22, <3>3
    <3>5. j \notin alerts'
      <4>1. alerts \subseteq 0..L
        BY <1>1, <1>13 DEF NoticeTyped
      <4> QED
        BY <1>2, <1>14, <4>1
    <3>6. Carries(h, j)'
      BY <3>4 DEF Carries, Carrying
    <3>7. OnTheWay(j, h)'
      BY <1>16, <3>4 DEF OnTheWay, Sending
    <3> QED
      BY <3>1, <3>5, <3>6, <3>7 DEF UnderwayBy
  <2> QED
    BY <2>1, <2>2
<1>41. Len(letters) <= Len(letters')
  BY <1>13, <1>14, <1>15
<1> QED
  BY <1>2, <1>15, <1>18, <1>22, <1>28, <1>29, <1>30, <1>32, <1>33, <1>34, <1>36, <1>37, <1>38, <1>39,
     <1>40, <1>41, WrittenStep

\* The letters of one event are settled together.
LEMMA SettleRows ==
  ASSUME NoticeTyped, NEW h \in Handlers, NEW became \in {"there", "gone"}, Settle(h, became)
  PROVE  /\ letters' \in Seq(LetterRows) /\ Len(letters') = Len(letters)
         /\ DOMAIN letters' = DOMAIN letters /\ RowsKept
         /\ \A i \in DOMAIN letters :
               letters'[i].state = IF letters[i].event = notice[h].event /\ letters[i].state = "writing"
                                   THEN became ELSE letters[i].state
<1>1. PICK m \in Nat : m = Len(letters)
  BY NoticeTypes
<1>2. letters \in Seq(LetterRows) /\ DOMAIN letters = 1..m
  BY <1>1, NoticeTypes
<1>3. PICK e : e = notice[h].event
  OBVIOUS
<1>4. letters' = [i \in 1..m |->
                    IF letters[i].event = e /\ letters[i].state = "writing"
                    THEN [letters[i] EXCEPT !.state = became] ELSE letters[i]]
  BY <1>2, <1>3 DEF Settle
<1>5. ASSUME NEW i \in 1..m
      PROVE  /\ letters'[i] \in LetterRows
             /\ letters'[i].to = letters[i].to /\ letters'[i].from = letters[i].from
             /\ letters'[i].about = letters[i].about /\ letters'[i].alert = letters[i].alert
             /\ letters'[i].event = letters[i].event /\ letters'[i].kind = letters[i].kind
             /\ letters'[i].state = IF letters[i].event = e /\ letters[i].state = "writing"
                                    THEN became ELSE letters[i].state
  <2>1. PICK r : r = letters[i]
    OBVIOUS
  <2>2. r \in LetterRows
    BY <1>2, <2>1
  <2>3. PICK s : s = [r EXCEPT !.state = became]
    OBVIOUS
  <2>4. /\ s.to = r.to /\ s.from = r.from /\ s.about = r.about /\ s.alert = r.alert
        /\ s.event = r.event /\ s.kind = r.kind /\ s.state = became
    BY <2>2, <2>3 DEF LetterRows
  <2>5. s \in LetterRows
    BY <2>2, <2>3 DEF LetterRows
  <2>6. letters'[i] = IF r.event = e /\ r.state = "writing" THEN s ELSE r
    BY <1>4, <2>1, <2>3
  <2> QED
    BY <2>1, <2>2, <2>4, <2>5, <2>6
<1>6. letters' \in Seq(LetterRows) /\ Len(letters') = m /\ DOMAIN letters' = 1..m
  <2>1. letters' \in [1..m -> LetterRows]
    BY <1>4, <1>5
  <2> QED
    BY <2>1
<1>7. \A i \in 1..m : letters[i].state = "there" => letters'[i].state = "there"
  BY <1>5
<1>8. RowsKept
  BY <1>2, <1>5, <1>6, <1>7 DEF RowsKept
<1> QED
  BY <1>1, <1>2, <1>3, <1>5, <1>6, <1>8

\* So what is passed on stays with what was told.
LEMMA SettlePassed ==
  ASSUME NoticeTyped, ToldFirst, NEW h \in Handlers, NEW became \in {"there", "gone"}, Settle(h, became)
  PROVE  PassedOnIsTold'
<1>1. /\ DOMAIN letters' = DOMAIN letters /\ RowsKept
      /\ \A i \in DOMAIN letters :
            letters'[i].state = IF letters[i].event = notice[h].event /\ letters[i].state = "writing"
                                THEN became ELSE letters[i].state
  BY SettleRows
<1> SUFFICES ASSUME NEW i \in DOMAIN letters, letters'[i].about # "nobody"
             PROVE  \E o \in 1..(i - 1) :
                       /\ letters'[o].to = letters'[i].about
                       /\ letters'[o].event = letters'[i].event
                       /\ letters'[o].state = letters'[i].state
  BY <1>1 DEF PassedOnIsTold
<1>2. letters'[i].about = letters[i].about /\ letters'[i].event = letters[i].event
  BY <1>1 DEF RowsKept
<1>3. PICK o \in 1..(i - 1) :
             /\ letters[o].to = letters[i].about
             /\ letters[o].event = letters[i].event /\ letters[o].state = letters[i].state
  BY <1>2 DEF ToldFirst, PassedOnIsTold
<1>4. o \in DOMAIN letters
  <2>1. DOMAIN letters = 1..Len(letters) /\ Len(letters) \in Nat
    BY NoticeTypes
  <2> QED
    BY <2>1
<1>5. letters'[o].to = letters[o].to /\ letters'[o].event = letters[o].event
  BY <1>1, <1>4 DEF RowsKept
<1>6. letters'[o].state = letters'[i].state
  BY <1>1, <1>3, <1>4
<1> QED
  BY <1>2, <1>3, <1>5, <1>6

LEMMA CommitOK ==
  ASSUME NoticeIInv, NEW h \in Handlers, Commit(h)
  PROVE  NoticeIInv'
<1>1. NoticeTyped /\ JobsWritten /\ RefusalsKept /\ SentAreThere /\ ToldFirst /\ PassingOn
      /\ DevicesTrue /\ AlertsUnderway
  BY DEF NoticeIInv
<1>2. /\ at[h] = "commit" /\ NoticeDone(h) /\ Settle(h, "there")
      /\ UNCHANGED <<people, devices, wanted, refusals, averse, news, alerts, delivered, wrong>>
  BY DEF Commit, MembersSame, AlertsSame
<1>3. Moved(h) /\ at'[h] = "idle" /\ notice'[h] = NoNotice
  BY <1>1, <1>2, DoneMoved
<1>4. /\ letters' \in Seq(LetterRows) /\ Len(letters') = Len(letters) /\ Len(letters) \in Nat
      /\ DOMAIN letters' = DOMAIN letters /\ RowsKept /\ DOMAIN letters = 1..Len(letters)
      /\ \A i \in DOMAIN letters :
            letters'[i].state = IF letters[i].event = notice[h].event /\ letters[i].state = "writing"
                                THEN "there" ELSE letters[i].state
  <2>1. "there" \in {"there", "gone"}
    OBVIOUS
  <2> QED
    BY <1>1, <1>2, <2>1, SettleRows, NoticeTypes
<1>5. PassedOnIsTold'
  BY <1>1, <1>2, SettlePassed
<1>6. LeftTold(h)' /\ LeftPassesOn(h)'
  BY <1>3 DEF LeftTold, LeftPassesOn
<1>7. PassingOn'
  BY <1>1, <1>2, <1>3, <1>4, <1>6, PassingSame
<1>8. AlertsAreOfMessages'
  BY <1>1, <1>2, <1>4 DEF SentAreThere, AlertsAreOfMessages
<1>9. alerts' \subseteq 0..Len(letters') /\ delivered' \in [0..Len(letters') -> Deliveries]
  BY <1>1, <1>2, <1>4 DEF NoticeTyped
<1>10. /\ at[h] \notin Carrying /\ at'[h] \notin Sending /\ at'[h] \notin Carrying
       /\ at'[h] # "write" /\ at'[h] \notin {"register", "forget", "resolve"}
  BY <1>2, <1>3 DEF Carrying, Sending
<1>11. notice'[h].firm \subseteq refusals
  BY <1>3, NothingUnderway
<1>12. \A g \in Handlers \ {h} : notice'[g].firm = notice[g].firm
  <2>1. notice \in [Handlers -> NoticeRows] /\ notice' = [notice EXCEPT ![h] = NoNotice]
    BY <1>1, <1>2 DEF NoticeTyped, NoticeDone, Handling
  <2> QED
    BY <2>1
<1>13. ASSUME ~overlapped', faults' = 0, NEW i \in DOMAIN letters', letters'[i].state # "there"
       PROVE  FALSE
  <2>1. i \in DOMAIN letters /\ letters[i].state # "there"
    BY <1>4, <1>13
  <2>2. NotThere(h, i)
    BY <1>1, <1>3, <1>13, <2>1, AloneWith
  <2> QED
    BY <1>4, <1>13, <2>1, <2>2 DEF NotThere
<1>14. MetDead' = MetDead
  BY <1>2, MetSame
<1>15. (1..Len(letters')) \ DOMAIN letters = {} /\ Len(letters) <= Len(letters')
  BY <1>4
<1> QED
  BY <1>2, <1>3, <1>4, <1>5, <1>6, <1>7, <1>8, <1>9, <1>10, <1>11, <1>12, <1>13, <1>14, <1>15, WrittenStep

\* A handler that dies takes its letters with it, but not its job.
LEMMA NoticeDieOK ==
  ASSUME NoticeIInv, NEW h \in Handlers, NoticeDie(h)
  PROVE  NoticeIInv'
<1>1. NoticeTyped /\ JobsWritten /\ RefusalsKept /\ SentAreThere /\ ToldFirst /\ PassingOn
      /\ DevicesTrue /\ AlertsUnderway
  BY DEF NoticeIInv
<1>2. /\ Die(h) /\ Handling(h, NoNotice)
      /\ Settle(h, "gone") \/ UNCHANGED letters
      /\ alerts' = alerts
         \/ (at[h] \in {"resolve", "web", "push", "line"} /\ alerts' = alerts \cup {notice[h].job})
      /\ UNCHANGED <<people, devices, wanted, refusals, averse, news, delivered, wrong>>
  BY DEF NoticeDie, MembersSame
<1>3. HandlerStep(h, "idle") /\ "idle" \in NoticeLabels /\ at[h] # "idle"
  BY <1>2 DEF Die, HandlerStep, NoticeLabels
<1>4. Moved(h) /\ at'[h] = "idle" /\ notice'[h] = NoNotice
  BY <1>1, <1>2, <1>3, NothingUnderway, HandlingMoved
<1>5. faults' # 0
  <2>1. faults \in Nat /\ faults' = faults + 1
    BY <1>2, <1>4 DEF Moved, Die, Refused
  <2> QED
    BY <2>1
<1>6. /\ letters' \in Seq(LetterRows) /\ Len(letters') = Len(letters) /\ Len(letters) \in Nat
      /\ DOMAIN letters' = DOMAIN letters /\ RowsKept /\ DOMAIN letters = 1..Len(letters)
      /\ \A i \in DOMAIN letters : letters'[i].state # "there" => letters[i].state # "there"
  <2>1. "gone" \in {"there", "gone"}
    OBVIOUS
  <2>2. /\ letters \in Seq(LetterRows) /\ Len(letters) \in Nat /\ DOMAIN letters = 1..Len(letters)
    BY <1>1, NoticeTypes
  <2>3. CASE Settle(h, "gone")
    <3>1. /\ letters' \in Seq(LetterRows) /\ Len(letters') = Len(letters)
          /\ DOMAIN letters' = DOMAIN letters /\ RowsKept
      BY <1>1, <2>1, <2>3, SettleRows
    <3>2. \A i \in DOMAIN letters : letters[i].state = "there" => letters'[i].state = "there"
      BY <3>1 DEF RowsKept
    <3> QED
      BY <2>2, <3>1, <3>2
  <2>4. CASE UNCHANGED letters
    BY <1>1, <2>2, <2>4, SameRows
  <2> QED
    BY <1>2, <2>3, <2>4
<1>7. PassedOnIsTold'
  BY <1>1, <1>2, SettlePassed, SamePassed
<1>8. LeftTold(h)' /\ LeftPassesOn(h)'
  BY <1>4 DEF LeftTold, LeftPassesOn
<1>9. PassingOn'
  BY <1>1, <1>2, <1>4, <1>5, <1>6, <1>8, PassingSame
<1>10. AlertsAreOfMessages'
  BY <1>1, <1>2, <1>6 DEF SentAreThere, AlertsAreOfMessages
<1>11. at[h] \in {"resolve", "web", "push", "line"} => Carries(h, notice[h].job) /\ notice[h].job \in 0..Len(letters)
  BY <1>1 DEF Carries, Carrying, JobsWritten
<1>12. alerts' \subseteq 0..Len(letters') /\ delivered' \in [0..Len(letters') -> Deliveries]
  <2>1. alerts \subseteq 0..Len(letters)
    BY <1>1 DEF NoticeTyped
  <2> QED
    BY <1>1, <1>2, <1>6, <1>11, <2>1 DEF NoticeTyped
<1>13. ASSUME news = "none", 0 \in alerts' PROVE 0 \in alerts
  <2>1. ~Carries(h, 0)
    BY <1>1, <1>13 DEF AlertsUnderway, Carried, Carries
  <2> QED
    BY <1>2, <1>11, <1>13, <2>1
<1>14. /\ at'[h] \notin Sending /\ at'[h] \notin Carrying
       /\ at'[h] # "write" /\ at'[h] \notin {"register", "forget", "resolve"}
  BY <1>4 DEF Carrying, Sending
<1>15. notice'[h].firm \subseteq refusals
  BY <1>4, NothingUnderway
<1>16. \A g \in Handlers \ {h} : notice'[g].firm = notice[g].firm
  <2>1. notice \in [Handlers -> NoticeRows] /\ notice' = [notice EXCEPT ![h] = NoNotice]
    BY <1>1, <1>2 DEF NoticeTyped, Handling
  <2> QED
    BY <2>1
<1>17. MetDead' = MetDead
  BY <1>2, MetSame
<1>18. Len(letters) <= Len(letters')
  BY <1>6
<1> QED
  BY <1>2, <1>4, <1>5, <1>6, <1>7, <1>8, <1>9, <1>10, <1>12, <1>13, <1>14, <1>15, <1>16, <1>17, <1>18,
     WrittenStep

\* Letters that are written together, before they are committed.
LEMMA WriteAllOK ==
  ASSUME NoticeIInv, NEW h \in Handlers, WriteAll(h)
  PROVE  NoticeIInv'
<1>1. NoticeTyped /\ JobsWritten /\ RefusalsKept /\ SentAreThere /\ ToldFirst /\ PassingOn
      /\ DevicesTrue /\ AlertsUnderway
  BY DEF NoticeIInv
<1>2. /\ at[h] = "writeAll" /\ Continue(h, "commit")
      /\ UNCHANGED <<people, devices, wanted, refusals, averse, notice>>
  BY DEF WriteAll, MembersSame
<1>3. PICK ls, e, k : ls = notice[h].left /\ e = notice[h].event /\ k = notice[h].kind
  OBVIOUS
<1>4. /\ Write(h, ls, "writing")
      /\ alerts' = alerts \cup {Len(letters) + i : i \in {p \in DOMAIN ls : ls[p].alert}}
  BY <1>3 DEF WriteAll
<1>5. ls \in Seq(LetterRows) /\ notice[h].firm \subseteq refusals
  BY <1>1, <1>3, NoticeTypes, NoticeRowFields DEF RefusalsKept
<1>6. PICK L \in Nat, c \in Nat : L = Len(letters) /\ c = Len(ls)
  <2>1. Len(letters) \in Nat /\ Len(ls) \in Nat
    BY <1>1, <1>5, NoticeTypes
  <2> QED
    BY <2>1
<1>7. /\ letters' \in Seq(LetterRows) /\ Len(letters') = L + c
      /\ DOMAIN letters' = 1..(L + c) /\ DOMAIN letters = 1..L /\ DOMAIN ls = 1..c
      /\ delivered' \in [0..Len(letters') -> Deliveries]
      /\ \A i \in 0..Len(letters) : delivered'[i] = delivered[i]
      /\ \A i \in DOMAIN letters : i \in DOMAIN letters' /\ letters'[i] = letters[i]
      /\ \A i \in DOMAIN letters' : i \in DOMAIN letters \/ \E q \in DOMAIN ls : i = L + q
      /\ RowsKept /\ MetDead' = MetDead
  <2>1. UNCHANGED people /\ Write(h, ls, "writing") /\ "writing" \in {"writing", "there"}
    BY <1>2, <1>4
  <2>2. /\ letters' \in Seq(LetterRows) /\ Len(letters') = Len(letters) + Len(ls)
        /\ DOMAIN letters' = 1..Len(letters')
        /\ \A i \in DOMAIN letters : i \in DOMAIN letters' /\ letters'[i] = letters[i]
        /\ \A i \in DOMAIN letters' : i \in DOMAIN letters \/ \E q \in DOMAIN ls : i = Len(letters) + q
        /\ delivered' \in [0..Len(letters') -> Deliveries]
        /\ \A i \in 0..Len(letters) : delivered'[i] = delivered[i]
        /\ RowsKept /\ MetDead' = MetDead
    BY <1>1, <1>5, <2>1, WriteAdds
  <2>3. DOMAIN letters = 1..Len(letters) /\ DOMAIN ls = 1..Len(ls)
    BY <1>1, <1>5, NoticeTypes
  <2> QED
    BY <1>6, <2>2, <2>3
<1>8. ASSUME NEW q \in 1..c
      PROVE  LET r == letters'[L + q]
             IN  /\ L + q \in DOMAIN letters' /\ L + q \notin DOMAIN letters
                 /\ r.to = ls[q].to /\ r.about = ls[q].about /\ r.alert = ls[q].alert
                 /\ r.state = "writing" /\ r.event = e /\ r.kind = k
                 /\ delivered'[L + q] = NothingSent
  <2>1. UNCHANGED people /\ Write(h, ls, "writing") /\ "writing" \in {"writing", "there"}
    BY <1>2, <1>4
  <2>2. q \in DOMAIN ls
    BY <1>7
  <2>3. LET r == letters'[Len(letters) + q]
        IN  /\ Len(letters) + q \in DOMAIN letters' /\ Len(letters) + q \notin DOMAIN letters
            /\ r.to = ls[q].to /\ r.about = ls[q].about /\ r.alert = ls[q].alert
            /\ r.state = "writing" /\ r.event = notice[h].event /\ r.kind = notice[h].kind
            /\ delivered'[Len(letters) + q] = NothingSent
    BY <1>1, <1>5, <2>1, <2>2, WriteAdds
  <2> QED
    BY <1>3, <1>6, <2>3
<1>9. alerts' = alerts \cup {L + i : i \in {p \in 1..c : ls[p].alert}} /\ alerts \subseteq 0..L
  BY <1>1, <1>4, <1>6, <1>7 DEF NoticeTyped
<1>10. Moved(h) /\ at'[h] = "commit" /\ notice'[h] = notice[h]
  <2>1. "commit" \in NoticeLabels /\ at[h] # "idle"
    BY <1>2 DEF NoticeLabels
  <2> QED
    BY <1>1, <1>2, <2>1, ContinueMoved
<1>11. UNCHANGED <<news, wrong>>
  BY <1>4 DEF Write
<1>12. AlertsAreOfMessages'
  <2> SUFFICES ASSUME NEW i \in DOMAIN letters', letters'[i].state # "there"
               PROVE  delivered'[i] = NothingSent
    BY DEF AlertsAreOfMessages
  <2>1. CASE i \in DOMAIN letters
    <3>1. delivered[i] = NothingSent
      BY <1>1, <1>7, <2>1 DEF SentAreThere, AlertsAreOfMessages
    <3>2. i \in 0..Len(letters)
      BY <1>6, <1>7, <2>1
    <3> QED
      BY <1>7, <3>1, <3>2
  <2>2. CASE i \notin DOMAIN letters
    BY <1>7, <1>8, <2>2
  <2> QED
    BY <2>1, <2>2
<1>13. PassedOnIsTold'
  <2> SUFFICES ASSUME NEW i \in DOMAIN letters', letters'[i].about # "nobody"
               PROVE  \E o \in 1..(i - 1) :
                         /\ letters'[o].to = letters'[i].about
                         /\ letters'[o].event = letters'[i].event
                         /\ letters'[o].state = letters'[i].state
    BY DEF PassedOnIsTold
  <2>1. CASE i \in DOMAIN letters
    <3>1. PICK o \in 1..(i - 1) :
                 /\ letters[o].to = letters[i].about
                 /\ letters[o].event = letters[i].event /\ letters[o].state = letters[i].state
      BY <1>1, <1>7, <2>1 DEF ToldFirst, PassedOnIsTold
    <3>2. o \in DOMAIN letters
      BY <1>6, <1>7, <2>1
    <3> QED
      BY <1>7, <2>1, <3>1, <3>2
  <2>2. CASE i \notin DOMAIN letters
    <3>1. PICK q \in 1..c : i = L + q
      BY <1>7, <2>2
    <3>2. ls[q].about # "nobody"
      BY <1>8, <3>1
    <3>3. ToldIn(ls, q)
      BY <1>1, <1>2, <1>3, <1>7, <3>2 DEF ToldFirst
    <3>4. PICK o \in 1..(q - 1) : ls[o].to = ls[q].about
      BY <3>3 DEF ToldIn
    <3>5. o \in 1..c /\ L + o \in 1..(i - 1)
      BY <1>6, <3>1
    <3>6. /\ letters'[L + o].to = letters'[i].about
          /\ letters'[L + o].event = letters'[i].event
          /\ letters'[L + o].state = letters'[i].state
      BY <1>8, <3>1, <3>4, <3>5
    <3> QED
      BY <3>5, <3>6
  <2> QED
    BY <2>1, <2>2
<1>14. LeftTold(h)' /\ LeftPassesOn(h)'
  BY <1>10 DEF LeftTold, LeftPassesOn
<1>15. PassingOn'
  <2>1. ASSUME faults' = 0, NEW i \in DOMAIN letters', letters'[i].kind \in PassedOn,
               letters'[i].to \in Couple, IsCast(letters'[i].to)
        PROVE  IsPassedOn(i)'
    <3>1. CASE i \in DOMAIN letters
      <4>1. letters'[i] = letters[i] /\ at[h] # "write"
        BY <1>2, <1>7, <3>1
      <4> QED
        BY <1>1, <1>2, <1>7, <1>10, <2>1, <3>1, <4>1, PassedStep
    <3>2. CASE i \notin DOMAIN letters
      <4>1. PICK p \in 1..c : i = L + p
        BY <1>7, <3>2
      <4>2. k \in PassedOn /\ ls[p].to \in Couple /\ IsCast(ls[p].to)
        BY <1>8, <2>1, <4>1
      <4>3. PassesOn(ls, p)
        BY <1>1, <1>2, <1>3, <1>7, <4>2 DEF PassingOn
      <4>4. PICK q \in 1..c : ls[q].about = ls[p].to
        BY <1>7, <4>3 DEF PassesOn
      <4>5. /\ L + q \in DOMAIN letters' /\ letters'[L + q].event = letters'[i].event
            /\ letters'[L + q].about = letters'[i].to
        BY <1>8, <4>1, <4>4
      <4> QED
        BY <4>5 DEF IsPassedOn
    <3> QED
      BY <3>1, <3>2
  <2> QED
    BY <1>1, <1>2, <1>10, <1>14, <2>1, PassingStep
<1>16. ASSUME NEW i \in 0..L PROVE i \in alerts' <=> i \in alerts
  <2>1. \A q \in 1..c : i # L + q
    BY <1>6
  <2> QED
    BY <1>9, <2>1
<1>17. alerts' \subseteq 0..Len(letters')
  <2>1. \A i \in 0..L : i \in 0..(L + c)
    BY <1>6
  <2>2. \A q \in 1..c : L + q \in 0..(L + c)
    BY <1>6
  <2> QED
    BY <1>7, <1>9, <2>1, <2>2
<1>18. /\ at[h] \notin Carrying /\ at'[h] \notin Sending /\ at'[h] \notin Carrying
       /\ at'[h] # "write" /\ at'[h] \notin {"register", "forget", "resolve"}
  BY <1>2, <1>10 DEF Carrying, Sending
<1>19. notice'[h].firm \subseteq refusals /\ \A g \in Handlers \ {h} : notice'[g].firm = notice[g].firm
  BY <1>2, <1>5
<1>20. ASSUME ~overlapped', faults' = 0
       PROVE  /\ \A i \in DOMAIN letters' : letters'[i].state # "there" => NotThere(h, i)'
              /\ \A i \in (1..Len(letters')) \ DOMAIN letters : Awaited(i)' => UnderwayBy(h, i)'
  <2>1. ASSUME NEW i \in DOMAIN letters', letters'[i].state # "there" PROVE NotThere(h, i)'
    <3>1. CASE i \in DOMAIN letters
      <4>1. NotThere(h, i)
        BY <1>1, <1>7, <1>10, <1>20, <2>1, <3>1, AloneWith
      <4> QED
        BY <1>2, <4>1 DEF NotThere
    <3>2. CASE i \notin DOMAIN letters
      <4>1. letters'[i].state = "writing" /\ letters'[i].event = e
        BY <1>7, <1>8, <3>2
      <4> QED
        BY <1>3, <1>10, <4>1 DEF NotThere
    <3> QED
      BY <3>1, <3>2
  <2>2. ASSUME NEW i \in (1..Len(letters')) \ DOMAIN letters, Awaited(i)' PROVE UnderwayBy(h, i)'
    <3>1. PICK q \in 1..c : i = L + q
      BY <1>7
    <3>2. i # 0
      BY <1>6, <3>1
    <3>3. ls[q].alert
      BY <1>8, <2>2, <3>1, <3>2 DEF Awaited
    <3>4. i \in alerts' /\ delivered'[i] = NothingSent
      BY <1>8, <1>9, <3>1, <3>3
    <3>5. ~Carries(h, i)' /\ OnTheWay(i, h)'
      BY <1>10 DEF Carries, Carrying, OnTheWay, Sending
    <3> QED
      BY <3>4, <3>5 DEF UnderwayBy
  <2> QED
    BY <2>1, <2>2
<1>21. Len(letters) <= Len(letters')
  BY <1>6, <1>7
<1>22. news = "none" /\ 0 \in alerts' => 0 \in alerts
  <2>1. 0 \in 0..L
    BY <1>6
  <2> QED
    BY <1>16, <2>1
<1>23. \A i \in 0..Len(letters) : i \in alerts' <=> i \in alerts
  BY <1>6, <1>16
<1> QED
  BY <1>2, <1>7, <1>10, <1>11, <1>12, <1>13, <1>14, <1>15, <1>17, <1>18, <1>19, <1>20, <1>21, <1>22,
     <1>23, WrittenStep

-----------------------------------------------------------------------------
(* All steps of the notices, and what follows *)

LEMMA NoticeInitOK ==
  ASSUME HandlersInit, people \in NoticeCases, NoticesIdle
  PROVE  NoticeIInv
<1>1. at = Idle /\ faults = 0 /\ Bounded /\ Sequential
  BY InitBounded
<1>2. at \in [Handlers -> NoticeLabels] /\ \A h \in Handlers : at[h] = "idle"
  BY <1>1 DEF Idle, NoticeLabels
<1>3. /\ devices = people.devices /\ wanted = people.devices
      /\ letters = <<>> /\ news = "none" /\ alerts = {} /\ refusals = {} /\ averse = {}
      /\ delivered = [i \in {0} |-> NothingSent] /\ wrong = FALSE
      /\ notice = [h \in Handlers |-> NoNotice]
  BY DEF NoticesIdle
<1>4. /\ letters \in Seq(LetterRows) /\ Len(letters) = 0 /\ DOMAIN letters = {} /\ 0..Len(letters) = {0}
  BY <1>3
<1>5. NothingSent \in Deliveries /\ NothingSent.pushed = {}
  BY DEF NothingSent, Deliveries
<1>6. delivered \in [0..Len(letters) -> Deliveries] /\ DOMAIN delivered = {0}
      /\ delivered[0] = NothingSent
  BY <1>3, <1>4, <1>5
<1>7. notice \in [Handlers -> NoticeRows] /\ \A h \in Handlers : notice[h] = NoNotice
  BY <1>3, NothingUnderway
<1>8. NoticeTyped
  <2>1. people.devices \subseteq AllDevices
    BY DEF AllDevices
  <2> QED
    BY <1>1, <1>2, <1>3, <1>4, <1>6, <1>7, <2>1 DEF NoticeTyped
<1>9. JobsWritten
  BY <1>2 DEF JobsWritten, Carrying
<1>10. RefusalsKept
  BY <1>2, <1>3, <1>7, NothingUnderway DEF RefusalsKept, Sending
<1>11. SentAreThere
  BY <1>2, <1>4 DEF SentAreThere, AlertsAreOfMessages, Sending
<1>12. ToldFirst /\ PassingOn
  BY <1>2, <1>4 DEF ToldFirst, PassedOnIsTold, PassingOn
<1>13. DevicesTrue
  <2>1. MetDead = {}
    BY <1>5, <1>6 DEF MetDead
  <2>2. IsFiniteSet(people.dead)
    BY NoticeAssumption
  <2>3. devices \cap people.dead \subseteq people.dead
    OBVIOUS
  <2>4. /\ Cardinality(devices \cap people.dead) <= Cardinality(people.dead)
        /\ IsFiniteSet(devices \cap people.dead)
    BY <2>2, <2>3, FS_Subset
  <2>5. Cardinality(devices \cap people.dead) \in Nat
    BY <2>4, FS_CardinalityType
  <2>6. Cardinality(MetDead) = 0
    BY <2>1, FS_EmptySet
  <2>7. Cardinality(devices \cap people.dead) + Cardinality(MetDead) <= Cardinality(people.dead)
    BY <2>4, <2>5, <2>6
  <2>8. \A h \in Handlers : DevicesOf(h)
    BY <1>2 DEF DevicesOf
  <2> QED
    BY <1>2, <1>3, <2>7, <2>8 DEF DevicesTrue
<1>14. AlertsUnderway
  <2>1. ~Carried(0, Carrying)
    BY <1>2 DEF Carried, Carrying
  <2>2. \A i \in 0..Len(letters) : ~Awaited(i)
    BY <1>3, <1>4 DEF Awaited
  <2> QED
    BY <1>3, <1>4, <1>6, <2>1, <2>2 DEF AlertsUnderway
<1> QED
  BY <1>8, <1>9, <1>10, <1>11, <1>12, <1>13, <1>14 DEF NoticeIInv

\* Every step of the notices.
LEMMA NoticesNextOK ==
  ASSUME NoticeIInv, [NoticesNext]_<<handlerVars, noticeVars>>
  PROVE  NoticeIInv'
<1>1. CASE NoticesNext
  <2>1. PICK h \in Handlers :
          \/ Happen(h) \/ WriteLetter(h) \/ EnqueueAlert(h) \/ WriteAll(h) \/ Commit(h)
          \/ ChangeOrder(h) \/ Refuse(h) \/ ChangeDevices(h) \/ RegisterDevice(h) \/ ForgetDevice(h)
          \/ TakeAlert(h) \/ Resolve(h) \/ SendWebMessage(h) \/ SendPushMessage(h)
          \/ SendSnsMessage(h) \/ NoticeDie(h)
    BY <1>1 DEF NoticesNext
  <2> QED
    BY <2>1, HappenOK, WriteLetterOK, EnqueueAlertOK, WriteAllOK, CommitOK, ChangeOrderOK, RefuseOK,
       ChangeDevicesOK, RegisterDeviceOK, ForgetDeviceOK, TakeAlertOK, ResolveOK,
       SendWebMessageOK, SendPushMessageOK, SendSnsMessageOK, NoticeDieOK
<1>2. CASE UNCHANGED <<handlerVars, noticeVars>>
  <2>1. /\ UNCHANGED handlerVars
        /\ UNCHANGED <<people, devices, wanted, letters, news, alerts, refusals, averse, delivered,
                       wrong, notice>>
    BY <1>2 DEF noticeVars
  <2>2. UNCHANGED <<at, faults, overlapped>>
    BY <2>1 DEF handlerVars
  <2>3. NoticeTyped'
    <3>1. Bounded' /\ Sequential'
      BY <2>1, StillSequential DEF NoticeIInv, NoticeTyped
    <3> QED
      BY <2>1, <2>2, <3>1 DEF NoticeIInv, NoticeTyped
  <2>4. JobsWritten' /\ RefusalsKept'
    BY <2>1, <2>2 DEF NoticeIInv, JobsWritten, RefusalsKept, MeansWell, Refusers
  <2>5. SentAreThere' /\ ToldFirst'
    BY <2>1, <2>2 DEF NoticeIInv, SentAreThere, AlertsAreOfMessages, ToldFirst, PassedOnIsTold,
                      ToldBefore
  <2>6. PassingOn'
    BY <2>1, <2>2 DEF NoticeIInv, PassingOn, IsPassedOn, IsCast, TypeOf
  <2>7. MetDead' = MetDead
    BY <2>1, MetSame
  <2>8. DevicesTrue'
    <3>1. \A h \in Handlers : DevicesOf(h) => DevicesOf(h)'
      BY <2>1, <2>2, <2>7 DEF DevicesOf, Alive
    <3> QED
      BY <2>1, <2>2, <2>7, <3>1 DEF NoticeIInv, DevicesTrue, Alive
  <2>9. AlertsUnderway'
    <3>1. ASSUME NEW i PROVE (Awaited(i)' <=> Awaited(i)) /\ (Underway(i) => Underway(i)')
      <4>1. Awaited(i)' <=> Awaited(i)
        BY <2>1 DEF Awaited
      <4>2. Audience(i)' = Audience(i)
        BY <2>1 DEF Audience, IsCast, TypeOf
      <4>3. Steady' = Steady /\ (SentByWeb(i)' <=> SentByWeb(i))
        BY <2>1 DEF Steady, Alive, SentByWeb
      <4>4. Arrived(i)' <=> Arrived(i)
        BY <2>1, <4>2, <4>3 DEF Arrived
      <4>5. Carried(i, Carrying)' <=> Carried(i, Carrying)
        BY <2>1, <2>2 DEF Carried
      <4>6. \A h \in Handlers : OnTheWay(i, h) => OnTheWay(i, h)'
        BY <2>1, <2>2, <4>2, <4>3 DEF OnTheWay
      <4> QED
        BY <2>1, <4>1, <4>4, <4>5, <4>6 DEF Underway
    <3>2. Carried(0, Carrying)' <=> Carried(0, Carrying)
      BY <2>1, <2>2 DEF Carried
    <3>3. (\E u \in Couple : IsGuest(u) /\ IsCast(OtherOne(u)))
          => (\E u \in Couple : IsGuest(u) /\ IsCast(OtherOne(u)))'
      BY <2>1 DEF IsGuest, IsCast, TypeOf
    <3> QED
      BY <2>1, <2>2, <3>1, <3>2, <3>3 DEF NoticeIInv, AlertsUnderway, UndisturbedSoFar
  <2> QED
    BY <2>3, <2>4, <2>5, <2>6, <2>8, <2>9 DEF NoticeIInv
<1> QED
  BY <1>1, <1>2

\* When nothing is under way, everybody has been told.
LEMMA NoticeIInvTold ==
  ASSUME NoticeIInv
  PROVE  EverybodyTold
<1>1. NoticeTyped /\ JobsWritten /\ RefusalsKept /\ SentAreThere /\ ToldFirst /\ PassingOn
      /\ DevicesTrue /\ AlertsUnderway
  BY DEF NoticeIInv
<1>2. RefusalsHold /\ AlertsAreOfMessages /\ PassedOnIsTold
  BY <1>1 DEF RefusalsKept, SentAreThere, ToldFirst, RefusalsHold
<1>3. AtRest => \A h \in Handlers : at[h] = "idle"
  BY DEF AtRest, Idle
<1>4. AlertsArrive
  <2> SUFFICES ASSUME Undisturbed, alerts = {}
               PROVE  /\ \A i \in DOMAIN letters :
                          /\ letters[i].alert /\ letters[i].to \notin averse =>
                                /\ delivered[i].web = 1 /\ delivered[i].line = 1
                                /\ letters[i].to = Invitee => Steady \subseteq delivered[i].pushed
                          /\ letters[i].kind \in PassedOn /\ letters[i].to \in Couple
                             /\ IsCast(letters[i].to) =>
                                \E j \in DOMAIN letters :
                                    letters[j].event = letters[i].event /\ letters[j].about = letters[i].to
                      /\ news = "requested" /\ averse = {} =>
                          /\ delivered[0].line = 1
                          /\ IsCast(Invitee) => Steady \subseteq delivered[0].pushed
    BY DEF AlertsArrive
  <2>1. UndisturbedSoFar /\ faults = 0 /\ \A h \in Handlers : at[h] = "idle"
    BY <1>3 DEF Undisturbed, UndisturbedSoFar
  <2>2. ASSUME NEW i \in 0..Len(letters), Awaited(i) PROVE Arrived(i)
    <3>1. ~Carried(i, Carrying)
      BY <2>1 DEF Carried, Carrying
    <3> QED
      BY <1>1, <2>1, <2>2, <3>1 DEF AlertsUnderway, Underway
  <2>3. ASSUME NEW i \in DOMAIN letters, letters[i].alert, letters[i].to \notin averse
        PROVE  /\ delivered[i].web = 1 /\ delivered[i].line = 1
               /\ letters[i].to = Invitee => Steady \subseteq delivered[i].pushed
    <3>1. i \in 0..Len(letters) /\ i # 0
      <4>1. DOMAIN letters = 1..Len(letters) /\ Len(letters) \in Nat
        BY <1>1, NoticeTypes
      <4> QED
        BY <4>1
    <3>2. Arrived(i)
      BY <2>2, <2>3, <3>1 DEF Awaited
    <3>3. Audience(i) = {letters[i].to}
      BY <3>1 DEF Audience
    <3> QED
      BY <3>1, <3>2, <3>3 DEF Arrived, SentByWeb
  <2>4. ASSUME NEW i \in DOMAIN letters, letters[i].kind \in PassedOn, letters[i].to \in Couple,
               IsCast(letters[i].to)
        PROVE  \E j \in DOMAIN letters :
                  letters[j].event = letters[i].event /\ letters[j].about = letters[i].to
    BY <1>1, <2>1, <2>4 DEF PassingOn, IsPassedOn
  <2>5. ASSUME news = "requested", averse = {}
        PROVE  /\ delivered[0].line = 1
               /\ IsCast(Invitee) => Steady \subseteq delivered[0].pushed
    <3>1. 0 \in 0..Len(letters)
      <4>1. Len(letters) \in Nat
        BY <1>1, NoticeTypes
      <4> QED
        BY <4>1
    <3>2. Arrived(0)
      BY <2>2, <2>5, <3>1 DEF Awaited
    <3>3. IsCast(Invitee) => Invitee \in Audience(0)
      BY DEF Audience, Couple
    <3> QED
      BY <3>2, <3>3 DEF Arrived
  <2> QED
    BY <2>3, <2>4, <2>5
<1>5. DevicesKept
  BY <1>1 DEF DevicesTrue, DevicesKept, MetDead
<1> QED
  BY <1>2, <1>4, <1>5 DEF EverybodyTold
-----------------------------------------------------------------------------
(* The patrons *)

PatronLabels == {"idle", "row", "tellLapse"}
Scans == [one : Nat, two : Nat, last : Nat]

PatronTyped ==
    /\ at \in [Handlers -> PatronLabels] /\ faults \in Nat
    /\ dayNo \in 1..LastDay /\ lastUse \in 1..dayNo /\ reaped \in BOOLEAN
    /\ bond \in [Apprentices -> {"none", "met", "lapsed"}]
    /\ warning \in [{1, 2} -> SUBSET Nat]
    /\ lapsedOn \in [day : Nat, last : Nat]
    /\ scan \in [Handlers -> Scans] /\ overtaken \in BOOLEAN

Met == \E c \in Apprentices : bond[c] = "met"

\* The day's job is in one handler; while it is there the row it has read is known.
OneJob ==
    /\ \A g, h \in Handlers : at[g] # "idle" /\ at[h] # "idle" => g = h
    /\ \A h \in Handlers : at[h] # "idle" => reaped /\ scan[h].last > 0

\* Nobody is cut off or overtaken.
Regular == faults = 0 /\ ~overtaken

\* The row is of today, and of a patron with apprentices, until their bonds end.
RowOfToday ==
    Regular => \A h \in Handlers :
        /\ at[h] = "row" => /\ Met /\ scan[h].last = lastUse
                            /\ scan[h].one = MonthsAgo(1, dayNo)
                            /\ scan[h].two = MonthsAgo(2, dayNo)
        /\ at[h] = "tellLapse" => ~Met

\* Of day s, with a last use on day d: the warnings that were due have been sent, ...
WarnedOn(d, s) ==
    /\ MonthsAgo(1, s) = d => s \in warning[1]
    /\ MonthsAgo(2, s) = d => s \in warning[2]

\* ... and two months were not over.
InTime(d, s) == MonthsAgo(2, s) <= d

DayDone(s) == s < dayNo \/ (reaped /\ AtRest)

BondsKept ==
    Regular /\ Met =>
        \A s \in lastUse..dayNo : DayDone(s) => WarnedOn(lastUse, s) /\ InTime(lastUse, s)

LapsesDue ==
    Regular /\ lapsedOn.day > 0 =>
        /\ lapsedOn.day <= dayNo /\ lapsedOn.last \in 1..(lapsedOn.day - 1)
        /\ ~InTime(lapsedOn.last, lapsedOn.day)
        /\ \A s \in lapsedOn.last..(lapsedOn.day - 1) :
              /\ InTime(lapsedOn.last, s)
              /\ lastUse = lapsedOn.last => WarnedOn(lastUse, s)

\* The inductive invariant of the patrons.
PatronIInv ==
    PatronTyped /\ OneJob /\ RowOfToday /\ BondsKept /\ LapsesDue

\* The calendar, month by month: the recursive function is built up to each month.
LEMMA CalendarRec ==
  /\ EndOf \in [0..Len(MonthLengths) -> Nat] /\ EndOf[0] = 0
  /\ Months = 1..Len(MonthLengths)
  /\ \A m \in Months : MonthLengths[m] \in Nat \ {0} /\ EndOf[m] = EndOf[m - 1] + MonthLengths[m]
<1>1. PICK n \in Nat : n = Len(MonthLengths)
  BY PatronAssumption
<1>2. Months = 1..n
  BY <1>1, PatronAssumption DEF Months
<1>3. \A m \in 1..n : MonthLengths[m] \in Nat \ {0}
  BY <1>1, PatronAssumption
<1> DEFINE Upto(f, k) == /\ f \in [0..k -> Nat] /\ f[0] = 0
                         /\ \A m \in 1..k : f[m] = f[m - 1] + MonthLengths[m]
           S == {k \in Nat : k <= n => \E f : Upto(f, k)}
<1>4. 0 \in S
  <2>1. Upto([i \in 0..0 |-> 0], 0)
    OBVIOUS
  <2> QED
    BY <2>1
<1>5. \A k \in Nat : k \in S => k + 1 \in S
  <2> SUFFICES ASSUME NEW k \in Nat, k \in S, k + 1 <= n PROVE \E f : Upto(f, k + 1)
    <3> HIDE DEF Upto
    <3> QED
      OBVIOUS
  <2>0. k <= n
    BY <1>1
  <2>1. PICK f : Upto(f, k)
    BY <2>0
  <2>2. PICK g : g = [i \in 0..(k + 1) |-> IF i <= k THEN f[i] ELSE f[k] + MonthLengths[k + 1]]
    OBVIOUS
  <2>3. f[k] \in Nat /\ MonthLengths[k + 1] \in Nat
    BY <2>1, <1>3
  <2>4. \A i \in 0..(k + 1) : g[i] \in Nat
    BY <2>1, <2>2, <2>3
  <2>5. g \in [0..(k + 1) -> Nat]
    BY <2>2, <2>4
  <2>6. g[0] = 0
    BY <2>1, <2>2
  <2>7. ASSUME NEW m \in 1..(k + 1) PROVE g[m] = g[m - 1] + MonthLengths[m]
    <3>1. g[m - 1] = f[m - 1]
      BY <2>2
    <3>2. CASE m <= k
      BY <3>1, <3>2, <2>1, <2>2
    <3>3. CASE m = k + 1
      <4>1. m - 1 = k /\ ~(m <= k)
        BY <3>3
      <4> QED
        BY <4>1, <3>1, <3>3, <2>2
    <3> QED
      BY <3>2, <3>3
  <2>8. Upto(g, k + 1)
    BY <2>5, <2>6, <2>7
  <2> QED
    BY <2>8
<1>6. Nat \subseteq S
  <2> HIDE DEF S
  <2> QED
    BY <1>4, <1>5, NatSetInduction
<1>7. n \in S
  BY <1>6
<1>8. PICK f : Upto(f, n)
  BY <1>7
<1> DEFINE Step(x) == [m \in {0} \cup Months |-> IF m = 0 THEN 0 ELSE x[m - 1] + MonthLengths[m]]
<1>9. f = Step(f)
  <2>1. {0} \cup Months = 0..n
    BY <1>2
  <2>2. \A m \in 0..n : f[m] = IF m = 0 THEN 0 ELSE f[m - 1] + MonthLengths[m]
    BY <1>8
  <2> QED
    BY <2>1, <2>2, <1>8
<1>10. EndOf = CHOOSE x : x = Step(x)
  BY DEF EndOf
<1>11. EndOf = Step(EndOf)
  <2> HIDE DEF Step
  <2> QED
    BY <1>9, <1>10
<1>12. \A m \in 0..n : EndOf[m] = IF m = 0 THEN 0 ELSE EndOf[m - 1] + MonthLengths[m]
  BY <1>2, <1>11
<1>13. EndOf[0] = 0
  BY <1>12
<1> DEFINE T == {k \in Nat : k <= n => EndOf[k] \in Nat}
<1>14. 0 \in T
  BY <1>13
<1>15. \A k \in Nat : k \in T => k + 1 \in T
  <2> SUFFICES ASSUME NEW k \in Nat, k \in T, k + 1 <= n PROVE EndOf[k + 1] \in Nat
    OBVIOUS
  <2>1. EndOf[k + 1] = EndOf[k] + MonthLengths[k + 1]
    <3>1. k + 1 \in 0..n /\ k + 1 # 0 /\ (k + 1) - 1 = k
      BY <1>1
    <3> QED
      BY <3>1, <1>12
  <2> QED
    BY <2>1, <1>3
<1>16. Nat \subseteq T
  <2> HIDE DEF T
  <2> QED
    BY <1>14, <1>15, NatSetInduction
<1>17. EndOf \in [0..n -> Nat]
  <2>1. {0} \cup Months = 0..n
    BY <1>2
  <2>2. \A k \in 0..n : EndOf[k] \in Nat
    BY <1>16
  <2> QED
    BY <2>1, <2>2, <1>11
<1> QED
  BY <1>1, <1>2, <1>3, <1>12, <1>13, <1>17

\* Later months end later.
LEMMA CalendarMono ==
  ASSUME NEW i \in 0..Len(MonthLengths), NEW j \in 0..Len(MonthLengths), i < j
  PROVE  EndOf[i] < EndOf[j]
<1>1. PICK n \in Nat : n = Len(MonthLengths)
  BY PatronAssumption
<1> DEFINE S == {k \in Nat : i + 1 + k <= n => EndOf[i] < EndOf[i + 1 + k]}
<1>0. \A m \in 1..n : /\ EndOf[m] \in Nat /\ EndOf[m - 1] \in Nat
                      /\ EndOf[m - 1] < EndOf[m]
  <2> TAKE m \in 1..n
  <2>1. EndOf[m] \in Nat /\ EndOf[m - 1] \in Nat
    BY <1>1, CalendarRec
  <2>2. EndOf[m] = EndOf[m - 1] + MonthLengths[m] /\ MonthLengths[m] \in Nat \ {0}
    BY <1>1, CalendarRec
  <2>3. MonthLengths[m] > 0 /\ MonthLengths[m] \in Nat
    BY <2>2
  <2> QED
    BY <2>1, <2>2, <2>3
<1>2. 0 \in S
  <2> SUFFICES ASSUME i + 1 <= n PROVE EndOf[i] < EndOf[i + 1]
    OBVIOUS
  <2>1. i + 1 \in 1..n /\ (i + 1) - 1 = i
    BY <1>1
  <2> QED
    BY <2>1, <1>0
<1>3. \A k \in Nat : k \in S => k + 1 \in S
  <2> SUFFICES ASSUME NEW k \in Nat, k \in S, i + 1 + (k + 1) <= n
               PROVE  EndOf[i] < EndOf[i + 1 + (k + 1)]
    OBVIOUS
  <2>1. PICK m \in 1..n : m = i + 1 + (k + 1)
    BY <1>1
  <2>2. m - 1 = i + 1 + k /\ EndOf[i] < EndOf[m - 1]
    BY <2>1
  <2>3. EndOf[i] \in Nat
    BY <1>1, CalendarRec
  <2> QED
    BY <2>1, <2>2, <2>3, <1>0
<1>4. Nat \subseteq S
  <2> HIDE DEF S
  <2> QED
    BY <1>2, <1>3, NatSetInduction
<1>5. j - i - 1 \in Nat /\ i + 1 + (j - i - 1) = j
  BY <1>1
<1>6. j - i - 1 \in S
  BY <1>4, <1>5
<1> QED
  BY <1>1, <1>5, <1>6

\* Every day up to the last lies in exactly one month.
LEMMA MonthOfIs ==
  ASSUME NEW d \in 1..LastDay
  PROVE  /\ MonthOf(d) \in Months /\ EndOf[MonthOf(d) - 1] < d /\ d <= EndOf[MonthOf(d)]
         /\ \A m \in Months : EndOf[m - 1] < d /\ d <= EndOf[m] => m = MonthOf(d)
<1>1. PICK n \in Nat : n = Len(MonthLengths)
  BY PatronAssumption
<1>0. LastDay = EndOf[n] /\ Months = 1..n /\ \A k \in 0..n : EndOf[k] \in Nat
  BY <1>1, CalendarRec DEF LastDay
<1> DEFINE S == {k \in Nat : k <= n => d > EndOf[k]}
<1>2. \E m \in Months : EndOf[m - 1] < d /\ d <= EndOf[m]
  <2> SUFFICES ASSUME \A m \in Months : EndOf[m - 1] < d => ~(d <= EndOf[m])
               PROVE  FALSE
    OBVIOUS
  <2>1. 0 \in S
    BY CalendarRec
  <2>2. \A k \in Nat : k \in S => k + 1 \in S
    <3> SUFFICES ASSUME NEW k \in Nat, k \in S, k + 1 <= n PROVE d > EndOf[k + 1]
      OBVIOUS
    <3>1. PICK m \in Months : m = k + 1 /\ m - 1 = k
      BY <1>0
    <3>2. EndOf[m] \in Nat /\ EndOf[k] \in Nat
      BY <1>0, <3>1
    <3> QED
      BY <3>1, <3>2, <1>0
  <2>3. Nat \subseteq S
    <3> HIDE DEF S
    <3> QED
      BY <2>1, <2>2, NatSetInduction
  <2>4. d > EndOf[n]
    BY <2>3
  <2> QED
    BY <2>4, <1>0
<1>3. /\ MonthOf(d) \in Months /\ EndOf[MonthOf(d) - 1] < d /\ d <= EndOf[MonthOf(d)]
  BY <1>2 DEF MonthOf
<1>4. ASSUME NEW m \in Months, EndOf[m - 1] < d, d <= EndOf[m], NEW k \in Months,
             EndOf[k - 1] < d, d <= EndOf[k]
      PROVE  ~(k < m)
  <2> SUFFICES ASSUME k < m PROVE FALSE
    OBVIOUS
  <2>1. m - 1 \in 0..n /\ k \in 0..n /\ (k < m - 1 \/ k = m - 1)
    BY <1>0, <1>1
  <2>2. EndOf[k] \in Nat /\ EndOf[m - 1] \in Nat
    BY <1>0, <2>1
  <2>3. EndOf[k] <= EndOf[m - 1]
    BY <2>1, <2>2, <1>1, CalendarMono
  <2> QED
    BY <2>2, <2>3, <1>4
<1>5. ASSUME NEW m \in Months, EndOf[m - 1] < d, d <= EndOf[m] PROVE m = MonthOf(d)
  <2>1. ~(m < MonthOf(d)) /\ ~(MonthOf(d) < m)
    BY <1>3, <1>4, <1>5
  <2> QED
    BY <2>1, <1>0, <1>3
<1> QED
  BY <1>3, <1>5

\* A day, its month and its place in it.
LEMMA DayInMonth ==
  ASSUME NEW d \in 1..LastDay
  PROVE  \E m \in Months, a \in Nat :
            /\ MonthOf(d) = m /\ d = EndOf[m - 1] + a /\ 1 <= a /\ a <= MonthLengths[m]
            /\ EndOf[m] = EndOf[m - 1] + MonthLengths[m]
            /\ MonthLengths[m] \in Nat /\ EndOf[m - 1] \in Nat /\ m \in Nat
<1>1. PICK m : m = MonthOf(d)
  OBVIOUS
<1>2. m \in Months /\ EndOf[m - 1] < d /\ d <= EndOf[m]
  BY <1>1, MonthOfIs
<1>3. PICK n \in Nat : n = Len(MonthLengths)
  BY PatronAssumption
<1>4. m \in 1..n
  BY <1>2, <1>3, CalendarRec
<1>5. EndOf[m - 1] \in Nat /\ EndOf[m] \in Nat
  BY <1>3, <1>4, CalendarRec
<1>6. EndOf[m] = EndOf[m - 1] + MonthLengths[m] /\ MonthLengths[m] \in Nat
  BY <1>2, CalendarRec
<1>7. d \in Nat
  <2>1. LastDay \in Nat
    BY CalendarRec, PatronAssumption DEF LastDay
  <2> QED
    BY <2>1
<1>8. PICK a \in Int : a = d - EndOf[m - 1]
  BY <1>5, <1>7
<1>9. d = EndOf[m - 1] + a /\ 1 <= a /\ a <= MonthLengths[m] /\ a \in Nat
  BY <1>2, <1>5, <1>6, <1>7, <1>8
<1> QED
  BY <1>1, <1>2, <1>4, <1>5, <1>6, <1>9

\* The day so many places into a month is in that month.
LEMMA DayOfMonth ==
  ASSUME NEW m \in Months, NEW a \in Nat, 1 <= a, a <= MonthLengths[m]
  PROVE  /\ EndOf[m - 1] + a \in 1..LastDay /\ MonthOf(EndOf[m - 1] + a) = m
         /\ EndOf[m - 1] \in Nat
<1>1. PICK n \in Nat : n = Len(MonthLengths)
  BY PatronAssumption
<1>2. m \in 1..n
  BY <1>1, CalendarRec
<1>3. EndOf[m - 1] \in Nat /\ EndOf[m] \in Nat /\ EndOf[n] \in Nat
  BY <1>1, <1>2, CalendarRec
<1>4. EndOf[m] = EndOf[m - 1] + MonthLengths[m] /\ MonthLengths[m] \in Nat
  BY CalendarRec
<1>5. EndOf[m] <= EndOf[n]
  <2>1. m = n \/ m < n
    BY <1>2
  <2> QED
    BY <2>1, <1>1, <1>2, <1>3, CalendarMono
<1>6. PICK d \in Nat : d = EndOf[m - 1] + a
  BY <1>3
<1>7. EndOf[m - 1] < d /\ d <= EndOf[m] /\ d >= 1
  BY <1>3, <1>4, <1>6
<1>8. d \in 1..LastDay
  BY <1>1, <1>3, <1>5, <1>6, <1>7 DEF LastDay
<1> QED
  BY <1>3, <1>6, <1>7, <1>8, MonthOfIs

\* So many months before: the same place, or the last one of a shorter month.
LEMMA MonthsAgoIs ==
  ASSUME NEW t \in 1..LastDay, NEW m \in Months, NEW b \in Nat, NEW n \in {1, 2},
         MonthOf(t) = m, t = EndOf[m - 1] + b, EndOf[m - 1] \in Nat
  PROVE  /\ m - n \notin Months => MonthsAgo(n, t) = 0
         /\ m - n \in Months => MonthsAgo(n, t) = EndOf[(m - n) - 1] +
                                   IF b > MonthLengths[m - n] THEN MonthLengths[m - n] ELSE b
<1>1. t - EndOf[MonthOf(t) - 1] = b
  OBVIOUS
<1> QED
  BY <1>1 DEF MonthsAgo

\* Months ago is earlier, the more the earlier.
LEMMA MonthsAgoEarlier ==
  ASSUME NEW t \in 1..LastDay
  PROVE  /\ MonthsAgo(1, t) \in Nat /\ MonthsAgo(2, t) \in Nat
         /\ MonthsAgo(1, t) < t /\ MonthsAgo(2, t) <= MonthsAgo(1, t)
         /\ MonthsAgo(1, t) > 0 => MonthsAgo(2, t) < MonthsAgo(1, t)
<1>1. PICK n \in Nat : n = Len(MonthLengths)
  BY PatronAssumption
<1>2. PICK m \in Months, b \in Nat :
         /\ MonthOf(t) = m /\ t = EndOf[m - 1] + b /\ 1 <= b /\ b <= MonthLengths[m]
         /\ EndOf[m] = EndOf[m - 1] + MonthLengths[m]
         /\ MonthLengths[m] \in Nat /\ EndOf[m - 1] \in Nat /\ m \in Nat
  BY DayInMonth
<1>3. Months = 1..n
  BY <1>1, CalendarRec
<1>4. ASSUME NEW k \in Months
      PROVE  /\ MonthLengths[k] \in Nat /\ MonthLengths[k] > 0
             /\ EndOf[k - 1] \in Nat /\ EndOf[k] = EndOf[k - 1] + MonthLengths[k]
  <2>1. k \in 1..n
    BY <1>3
  <2>2. EndOf[k - 1] \in Nat
    <3>1. k - 1 \in 0..n /\ EndOf \in [0..n -> Nat]
      BY <1>1, <2>1, CalendarRec
    <3> QED
      BY <3>1
  <2>3. MonthLengths[k] \in Nat \ {0} /\ EndOf[k] = EndOf[k - 1] + MonthLengths[k]
    BY CalendarRec
  <2> QED
    BY <2>2, <2>3
<1> DEFINE Last(k) == IF b > MonthLengths[k] THEN MonthLengths[k] ELSE b
<1>5. \A k \in Months : Last(k) \in Nat /\ 1 <= Last(k) /\ Last(k) <= MonthLengths[k]
  BY <1>2, <1>4
<1>6. m - 1 \notin Months => MonthsAgo(1, t) = 0
  BY <1>2, MonthsAgoIs
<1>7. m - 2 \notin Months => MonthsAgo(2, t) = 0
  BY <1>2, MonthsAgoIs
<1>8. m - 1 \in Months => MonthsAgo(1, t) = EndOf[(m - 1) - 1] + Last(m - 1)
  BY <1>2, MonthsAgoIs
<1>9. m - 2 \in Months => MonthsAgo(2, t) = EndOf[(m - 2) - 1] + Last(m - 2)
  BY <1>2, MonthsAgoIs
<1> HIDE DEF Last
<1>10. m - 1 \in Months => /\ MonthsAgo(1, t) \in Nat /\ MonthsAgo(1, t) <= EndOf[m - 1]
                           /\ MonthsAgo(1, t) > EndOf[(m - 1) - 1]
  BY <1>8, <1>5, <1>4
<1>11. m - 2 \in Months => /\ MonthsAgo(2, t) \in Nat /\ MonthsAgo(2, t) <= EndOf[m - 2]
                           /\ MonthsAgo(2, t) > 0
  BY <1>9, <1>5, <1>4
<1>12. m - 2 \in Months => m - 1 \in Months
  BY <1>2, <1>3
<1>13. (m - 1) - 1 = m - 2
  BY <1>2
<1>14. CASE m - 1 \notin Months
  <2>1. MonthsAgo(1, t) = 0 /\ MonthsAgo(2, t) = 0
    BY <1>6, <1>7, <1>12, <1>14
  <2> QED
    BY <2>1
<1>15. CASE m - 1 \in Months
  <2>1. MonthsAgo(1, t) < t
    BY <1>2, <1>10, <1>15
  <2>2. CASE m - 2 \notin Months
    <3>1. MonthsAgo(2, t) = 0
      BY <1>7, <2>2
    <3> QED
      BY <3>1, <2>1, <1>10, <1>15
  <2>3. CASE m - 2 \in Months
    <3>1. MonthsAgo(1, t) > EndOf[m - 2]
      BY <1>10, <1>13, <1>15
    <3>2. EndOf[m - 2] \in Nat
      BY <2>3, <1>4
    <3> QED
      BY <3>1, <3>2, <2>1, <2>3, <1>10, <1>11, <1>15
  <2> QED
    BY <2>2, <2>3
<1> QED
  BY <1>14, <1>15

LEMMA CalendarGrows ==
  ASSUME NEW i \in 0..Len(MonthLengths), NEW j \in 0..Len(MonthLengths), i <= j
  PROVE  EndOf[i] \in Nat /\ EndOf[j] \in Nat /\ EndOf[i] <= EndOf[j]
<1>1. EndOf[i] \in Nat /\ EndOf[j] \in Nat
  BY CalendarRec
<1>2. i = j \/ i < j
  BY PatronAssumption
<1> QED
  BY <1>1, <1>2, CalendarMono

\* The day after two months, by the place of a day in its month.
LEMMA LapseDayIs ==
  ASSUME NEW d \in 1..LastDay, NEW m \in Months, NEW a \in Nat,
         MonthOf(d) = m, d = EndOf[m - 1] + a, 1 <= a, a <= MonthLengths[m],
         EndOf[m] = EndOf[m - 1] + MonthLengths[m],
         MonthLengths[m] \in Nat, EndOf[m - 1] \in Nat, m \in Nat
  PROVE  /\ m + 2 \notin Months => LapseDay(d) = 0
         /\ m + 2 \in Months =>
               LapseDay(d) = IF a < MonthLengths[m] /\ a + 1 <= MonthLengths[m + 2]
                             THEN EndOf[m + 1] + a + 1 ELSE EndOf[m + 2] + 1
<1>1. m + 2 \notin Months => LapseDay(d) = 0
  BY DEF LapseDay
<1>2. ASSUME m + 2 \in Months
      PROVE  LapseDay(d) = IF a < MonthLengths[m] /\ a + 1 <= MonthLengths[m + 2]
                           THEN EndOf[m + 1] + a + 1 ELSE EndOf[m + 2] + 1
  <2>1. d < EndOf[m] <=> a < MonthLengths[m]
    OBVIOUS
  <2>2. CASE a < MonthLengths[m]
    <3>1. PICK c \in Nat : c = a + 1
      OBVIOUS
    <3>2. 1 <= c /\ c <= MonthLengths[m]
      BY <3>1, <2>2
    <3>3. EndOf[m - 1] + c = d + 1
      BY <3>1
    <3>4. MonthOf(d + 1) = m
      BY <3>2, <3>3, DayOfMonth
    <3>5. (d + 1) - EndOf[m - 1] = a + 1
      OBVIOUS
    <3>6. HasDay(d + 1, 2) <=> a + 1 <= MonthLengths[m + 2]
      BY <1>2, <3>4, <3>5 DEF HasDay
    <3>7. PICK e : e = EndOf[m + 1]
      OBVIOUS
    <3>8. e \in Nat
      <4>1. PICK n \in Nat : n = Len(MonthLengths)
        BY PatronAssumption
      <4>2. m + 2 \in 1..n
        BY <4>1, <1>2, CalendarRec
      <4>3. m + 1 \in 0..n /\ EndOf \in [0..n -> Nat]
        BY <4>1, <4>2, CalendarRec
      <4> QED
        BY <4>3, <3>7
    <3>9. e + d + 1 - EndOf[m - 1] = e + a + 1
      BY <3>8
    <3> QED
      BY <1>2, <2>1, <2>2, <3>6, <3>7, <3>9 DEF LapseDay
  <2>3. CASE ~(a < MonthLengths[m])
    BY <1>2, <2>1, <2>3 DEF LapseDay
  <2> QED
    BY <2>2, <2>3
<1> QED
  BY <1>1, <1>2

\* A last use is more than two months ago from that day on.
LEMMA LapseDayFirst ==
  ASSUME NEW d \in 1..LastDay, NEW t \in d..LastDay
  PROVE  /\ LapseDay(d) \in Nat
         /\ d < MonthsAgo(2, t) <=> LapseDay(d) # 0 /\ LapseDay(d) <= t
<1>1. PICK n \in Nat : n = Len(MonthLengths)
  BY PatronAssumption
<1>0. LastDay \in Nat
  BY <1>1, CalendarRec DEF LastDay
<1>2. PICK m \in Months, a \in Nat :
         /\ MonthOf(d) = m /\ d = EndOf[m - 1] + a /\ 1 <= a /\ a <= MonthLengths[m]
         /\ EndOf[m] = EndOf[m - 1] + MonthLengths[m]
         /\ MonthLengths[m] \in Nat /\ EndOf[m - 1] \in Nat /\ m \in Nat
  BY DayInMonth
<1>3. t \in 1..LastDay /\ t >= d
  BY <1>0
<1>4. PICK k \in Months, b \in Nat :
         /\ MonthOf(t) = k /\ t = EndOf[k - 1] + b /\ 1 <= b /\ b <= MonthLengths[k]
         /\ EndOf[k] = EndOf[k - 1] + MonthLengths[k]
         /\ MonthLengths[k] \in Nat /\ EndOf[k - 1] \in Nat /\ k \in Nat
  BY <1>3, DayInMonth
<1>5. Months = 1..n
  BY <1>1, CalendarRec
<1>6. ASSUME NEW i \in 0..n, NEW j \in 0..n, i <= j
      PROVE  EndOf[i] \in Nat /\ EndOf[j] \in Nat /\ EndOf[i] <= EndOf[j]
  BY <1>1, <1>6, CalendarGrows
<1>7. ASSUME NEW j \in Months PROVE MonthLengths[j] \in Nat /\ MonthLengths[j] > 0
  <2>1. MonthLengths[j] \in Nat \ {0}
    BY CalendarRec
  <2> QED
    BY <2>1
<1>8. /\ m + 2 \notin Months => LapseDay(d) = 0
      /\ m + 2 \in Months =>
            LapseDay(d) = IF a < MonthLengths[m] /\ a + 1 <= MonthLengths[m + 2]
                          THEN EndOf[m + 1] + a + 1 ELSE EndOf[m + 2] + 1
  BY <1>2, LapseDayIs
<1>9. /\ k - 2 \notin Months => MonthsAgo(2, t) = 0
      /\ k - 2 \in Months => MonthsAgo(2, t) = EndOf[(k - 2) - 1] +
                                 IF b > MonthLengths[k - 2] THEN MonthLengths[k - 2] ELSE b
  BY <1>3, <1>4, MonthsAgoIs
<1>10. ASSUME m + 2 \in Months
       PROVE  /\ EndOf[m + 1] \in Nat /\ EndOf[m + 2] \in Nat /\ MonthLengths[m + 2] \in Nat
              /\ EndOf[m + 2] = EndOf[m + 1] + MonthLengths[m + 2]
              /\ LapseDay(d) \in Nat /\ LapseDay(d) > EndOf[m + 1]
              /\ LapseDay(d) <= EndOf[m + 2] + 1
  <2>1. m + 1 \in 0..n /\ m + 2 \in 0..n /\ m + 1 <= m + 2
    BY <1>5, <1>10
  <2>2. EndOf[m + 1] \in Nat /\ EndOf[m + 2] \in Nat /\ MonthLengths[m + 2] \in Nat
    BY <2>1, <1>6, <1>7, <1>10
  <2>3. EndOf[m + 2] = EndOf[m + 1] + MonthLengths[m + 2]
    <3>1. EndOf[m + 2] = EndOf[(m + 2) - 1] + MonthLengths[m + 2]
      BY <1>10, CalendarRec
    <3>2. (m + 2) - 1 = m + 1
      BY <1>2
    <3> QED
      BY <3>1, <3>2
  <2>4. MonthLengths[m + 2] > 0
    BY <1>7, <1>10
  <2> QED
    BY <2>2, <2>3, <2>4, <1>8, <1>10
<1>11. LapseDay(d) \in Nat
  BY <1>8, <1>10
<1>12. m <= k
  <2> SUFFICES ASSUME k < m PROVE FALSE
    BY <1>2, <1>4
  <2>1. k \in 0..n /\ m - 1 \in 0..n /\ k <= m - 1
    BY <1>5
  <2>2. EndOf[k] <= EndOf[m - 1]
    BY <2>1, <1>6
  <2> QED
    BY <2>2, <1>2, <1>3, <1>4
<1>13. CASE k < m + 2
  <2>1. ~(d < MonthsAgo(2, t))
    <3>1. CASE k - 2 \notin Months
      <4>1. d > 0
        BY <1>2
      <4> QED
        BY <4>1, <3>1, <1>9
    <3>2. CASE k - 2 \in Months
      <4>1. PICK j \in Months : j = k - 2
        BY <3>2
      <4>2. j - 1 \in 0..n /\ j \in 0..n /\ m - 1 \in 0..n /\ j <= m - 1
        BY <1>5, <4>1, <1>13, <1>2
      <4>3. EndOf[j - 1] \in Nat /\ EndOf[j] \in Nat /\ EndOf[j] <= EndOf[m - 1]
        BY <4>2, <1>6
      <4>4. EndOf[j] = EndOf[j - 1] + MonthLengths[j] /\ MonthLengths[j] \in Nat
        BY CalendarRec
      <4>5. MonthsAgo(2, t) = EndOf[j - 1] + IF b > MonthLengths[j] THEN MonthLengths[j] ELSE b
        BY <1>9, <4>1
      <4>6. MonthsAgo(2, t) <= EndOf[j] /\ MonthsAgo(2, t) \in Nat
        BY <4>3, <4>4, <4>5
      <4> QED
        BY <4>3, <4>6, <1>2
    <3> QED
      BY <3>1, <3>2
  <2>2. ~(LapseDay(d) # 0 /\ LapseDay(d) <= t)
    <3>1. CASE m + 2 \notin Months
      BY <3>1, <1>8
    <3>2. CASE m + 2 \in Months
      <4>1. k \in 0..n /\ m + 1 \in 0..n /\ k <= m + 1
        BY <1>5, <1>13, <3>2, <1>2
      <4>2. EndOf[k] <= EndOf[m + 1] /\ EndOf[k] \in Nat
        BY <4>1, <1>6
      <4>3. t <= EndOf[k] /\ t \in Nat
        BY <1>4
      <4> QED
        BY <4>2, <4>3, <3>2, <1>10
    <3> QED
      BY <3>1, <3>2
  <2> QED
    BY <2>1, <2>2, <1>11
<1>14. CASE k = m + 2
  <2>1. m + 2 \in Months /\ k - 2 = m /\ (k - 2) - 1 = m - 1 /\ k - 1 = m + 1
    BY <1>14, <1>2
  <2>2. MonthsAgo(2, t) = EndOf[m - 1] + IF b > MonthLengths[m] THEN MonthLengths[m] ELSE b
    BY <2>1, <1>9
  <2>3. d < MonthsAgo(2, t) <=> b > a /\ MonthLengths[m] > a
    BY <2>2, <1>2
  <2>4. t = EndOf[m + 1] + b /\ b <= MonthLengths[m + 2]
    BY <2>1, <1>4, <1>14
  <2>5. CASE a < MonthLengths[m] /\ a + 1 <= MonthLengths[m + 2]
    <3>1. LapseDay(d) = EndOf[m + 1] + a + 1
      BY <2>1, <2>5, <1>8
    <3> QED
      BY <3>1, <2>1, <2>3, <2>4, <2>5, <1>10, <1>11
  <2>6. CASE ~(a < MonthLengths[m] /\ a + 1 <= MonthLengths[m + 2])
    <3>1. LapseDay(d) = EndOf[m + 2] + 1
      BY <2>1, <2>6, <1>8
    <3>2. ~(LapseDay(d) <= t)
      BY <3>1, <2>1, <2>4, <1>10
    <3>3. ~(b > a /\ MonthLengths[m] > a)
      BY <2>1, <2>4, <2>6, <1>10
    <3> QED
      BY <3>2, <3>3, <2>3, <1>11
  <2> QED
    BY <2>5, <2>6
<1>15. CASE k > m + 2
  <2>1. m + 2 \in Months /\ k - 2 \in Months
    BY <1>5, <1>15, <1>2, <1>4
  <2>2. PICK j \in Months : j = k - 2
    BY <2>1
  <2>3. m \in 0..n /\ j - 1 \in 0..n /\ m <= j - 1 /\ m + 2 \in 0..n /\ k - 1 \in 0..n /\ m + 2 <= k - 1
    BY <1>5, <2>1, <2>2, <1>15
  <2>4. EndOf[m] <= EndOf[j - 1] /\ EndOf[j - 1] \in Nat /\ EndOf[m] \in Nat
    BY <2>3, <1>6
  <2>5. EndOf[m + 2] <= EndOf[k - 1] /\ EndOf[m + 2] \in Nat /\ EndOf[k - 1] \in Nat
    BY <2>3, <1>6
  <2>6. MonthsAgo(2, t) = EndOf[j - 1] + IF b > MonthLengths[j] THEN MonthLengths[j] ELSE b
    BY <2>2, <1>9
  <2>7. MonthLengths[j] \in Nat /\ MonthLengths[j] > 0
    BY <1>7
  <2>8. d < MonthsAgo(2, t)
    BY <2>4, <2>6, <2>7, <1>2, <1>4
  <2>9. LapseDay(d) # 0 /\ LapseDay(d) <= t
    <3>1. LapseDay(d) > EndOf[m + 1] /\ EndOf[m + 1] \in Nat /\ LapseDay(d) <= EndOf[m + 2] + 1
      BY <2>1, <1>10
    <3> QED
      BY <3>1, <2>5, <1>4, <1>11
  <2> QED
    BY <2>8, <2>9, <1>11
<1> QED
  BY <1>2, <1>4, <1>11, <1>13, <1>14, <1>15

\* Where the next month has the day it is warned on it, before the bonds lapse, ...
LEMMA FirstWarningDue ==
  ASSUME NEW d \in 1..LastDay, HasDay(d, 1), LapseDay(d) > 0
  PROVE  \E s \in (d + 1)..(LapseDay(d) - 1) : MonthsAgo(1, s) = d
<1>1. PICK n \in Nat : n = Len(MonthLengths)
  BY PatronAssumption
<1>2. PICK m \in Months, a \in Nat :
         /\ MonthOf(d) = m /\ d = EndOf[m - 1] + a /\ 1 <= a /\ a <= MonthLengths[m]
         /\ EndOf[m] = EndOf[m - 1] + MonthLengths[m]
         /\ MonthLengths[m] \in Nat /\ EndOf[m - 1] \in Nat /\ m \in Nat
  BY DayInMonth
<1>3. d - EndOf[m - 1] = a
  BY <1>2
<1>4. m + 1 \in Months /\ a <= MonthLengths[m + 1]
  BY <1>2, <1>3 DEF HasDay
<1>5. PICK s : s = EndOf[(m + 1) - 1] + a
  OBVIOUS
<1>6. s \in 1..LastDay /\ MonthOf(s) = m + 1 /\ EndOf[(m + 1) - 1] \in Nat
  BY <1>2, <1>4, <1>5, DayOfMonth
<1>7. (m + 1) - 1 = m
  BY <1>2
<1>8. MonthsAgo(1, s) = EndOf[((m + 1) - 1) - 1] +
                           IF a > MonthLengths[(m + 1) - 1] THEN MonthLengths[(m + 1) - 1] ELSE a
  BY <1>2, <1>4, <1>5, <1>6, <1>7, MonthsAgoIs
<1>9. MonthsAgo(1, s) = d
  BY <1>2, <1>7, <1>8
<1>10. s >= d + 1 /\ s \in Nat
  BY <1>2, <1>5, <1>6, <1>7
<1>11. s < LapseDay(d)
  <2>1. LastDay \in Nat
    BY <1>1, CalendarRec DEF LastDay
  <2>2. s \in d..LastDay
    BY <2>1, <1>6, <1>10
  <2>3. ~(d < MonthsAgo(2, s))
    <3>1. MonthsAgo(2, s) <= MonthsAgo(1, s)
      BY <1>6, MonthsAgoEarlier
    <3>2. MonthsAgo(2, s) \in Nat
      BY <1>6, MonthsAgoEarlier
    <3> QED
      BY <3>1, <3>2, <1>9
  <2>4. LapseDay(d) \in Nat /\ ~(LapseDay(d) <= s)
    BY <2>2, <2>3, LapseDayFirst
  <2> QED
    BY <2>4, <1>10
<1>12. LapseDay(d) \in Nat
  <2>1. LastDay \in Nat
    BY <1>1, CalendarRec DEF LastDay
  <2>2. d \in d..LastDay
    BY <2>1
  <2> QED
    BY <2>2, LapseDayFirst
<1>13. s \in (d + 1)..(LapseDay(d) - 1)
  BY <1>10, <1>11, <1>12
<1> QED
  BY <1>9, <1>13

\* ... and where the second has it, on the day before.
LEMMA SecondWarningDue ==
  ASSUME NEW d \in 1..LastDay, HasDay(d, 2)
  PROVE  MonthsAgo(2, LapseDay(d) - 1) = d /\ LapseDay(d) - 1 > d
<1>1. PICK n \in Nat : n = Len(MonthLengths)
  BY PatronAssumption
<1>2. PICK m \in Months, a \in Nat :
         /\ MonthOf(d) = m /\ d = EndOf[m - 1] + a /\ 1 <= a /\ a <= MonthLengths[m]
         /\ EndOf[m] = EndOf[m - 1] + MonthLengths[m]
         /\ MonthLengths[m] \in Nat /\ EndOf[m - 1] \in Nat /\ m \in Nat
  BY DayInMonth
<1>3. d - EndOf[m - 1] = a
  BY <1>2
<1>4. m + 2 \in Months /\ a <= MonthLengths[m + 2]
  BY <1>2, <1>3 DEF HasDay
<1>5. PICK k \in Months : k = m + 2
  BY <1>4
<1>6. Months = 1..n
  BY <1>1, CalendarRec
<1>7. k - 1 = m + 1 /\ k - 2 = m /\ (k - 2) - 1 = m - 1
  BY <1>2, <1>5
<1>8. /\ EndOf[k] = EndOf[m + 1] + MonthLengths[k] /\ MonthLengths[k] \in Nat
      /\ EndOf[m + 1] \in Nat /\ EndOf[m] <= EndOf[m + 1] /\ EndOf[m] \in Nat
  <2>1. m \in 0..n /\ m + 1 \in 0..n /\ m <= m + 1
    BY <1>2, <1>4, <1>6
  <2>2. EndOf[m + 1] \in Nat /\ EndOf[m] <= EndOf[m + 1] /\ EndOf[m] \in Nat
    BY <1>1, <2>1, CalendarGrows
  <2>3. EndOf[k] = EndOf[k - 1] + MonthLengths[k] /\ MonthLengths[k] \in Nat \ {0}
    BY CalendarRec
  <2> QED
    BY <2>2, <2>3, <1>7
<1>9. MonthLengths[k] >= 1
  BY <1>2, <1>4, <1>5, <1>8
<1>10. LapseDay(d) = IF a < MonthLengths[m] /\ a + 1 <= MonthLengths[k]
                    THEN EndOf[m + 1] + a + 1 ELSE EndOf[k] + 1
  BY <1>2, <1>4, <1>5, LapseDayIs
<1>11. PICK b \in Nat :
          b = IF a < MonthLengths[m] /\ a + 1 <= MonthLengths[k] THEN a ELSE MonthLengths[k]
  BY <1>8
<1>12. 1 <= b /\ b <= MonthLengths[k]
  BY <1>2, <1>8, <1>9, <1>11
<1>13. LapseDay(d) - 1 = EndOf[m + 1] + b
  BY <1>8, <1>10, <1>11
<1>14. PICK s : s = EndOf[k - 1] + b
  OBVIOUS
<1>15. s \in 1..LastDay /\ MonthOf(s) = k /\ EndOf[k - 1] \in Nat
  BY <1>12, <1>14, DayOfMonth
<1>16. MonthsAgo(2, s) = EndOf[(k - 2) - 1] +
                           IF b > MonthLengths[k - 2] THEN MonthLengths[k - 2] ELSE b
  <2>1. k - 2 \in Months
    BY <1>7
  <2> QED
    BY <2>1, <1>14, <1>15, MonthsAgoIs
<1>17. (IF b > MonthLengths[m] THEN MonthLengths[m] ELSE b) = a
  BY <1>2, <1>4, <1>5, <1>8, <1>11
<1>18. MonthsAgo(2, s) = d
  BY <1>2, <1>7, <1>16, <1>17
<1>19. LapseDay(d) - 1 = s
  BY <1>7, <1>13, <1>14
<1>20. s > d
  BY <1>2, <1>7, <1>8, <1>12, <1>14
<1> QED
  BY <1>18, <1>19, <1>20

\* The invariant gives the property: bonds that have not ended have not been due to, and
\* those that have ended did so on the day of LapseDay, with the warnings sent.
LEMMA PatronIInvWarned ==
  ASSUME PatronIInv
  PROVE  WarnedBeforeLapse
<1> SUFFICES ASSUME faults = 0, ~overtaken
             PROVE  /\ "met" \in {bond[c] : c \in Apprentices} /\ reaped /\ AtRest
                          => dayNo < LapseDay(lastUse) \/ LapseDay(lastUse) = 0
                    /\ lapsedOn.day > 0 => lapsedOn.day = LapseDay(lapsedOn.last)
                    /\ lapsedOn.day > 0 /\ lastUse = lapsedOn.last =>
                          /\ HasDay(lastUse, 1) => warning[1] # {}
                          /\ HasDay(lastUse, 2) => lapsedOn.day - 1 \in warning[2]
  BY DEF WarnedBeforeLapse
<1>0. Regular
  BY DEF Regular
<1>1. LastDay \in Nat
  BY CalendarRec, PatronAssumption DEF LastDay
<1>2. /\ dayNo \in 1..LastDay /\ lastUse \in 1..dayNo
      /\ lapsedOn.day \in Nat /\ lapsedOn.last \in Nat
  BY DEF PatronIInv, PatronTyped
<1>3. ASSUME "met" \in {bond[c] : c \in Apprentices}, reaped, AtRest
      PROVE  dayNo < LapseDay(lastUse) \/ LapseDay(lastUse) = 0
  <2>1. Met
    BY <1>3 DEF Met
  <2>2. dayNo \in lastUse..dayNo /\ DayDone(dayNo)
    BY <1>1, <1>2, <1>3 DEF DayDone
  <2>3. MonthsAgo(2, dayNo) <= lastUse
    BY <1>0, <2>1, <2>2 DEF PatronIInv, BondsKept, InTime
  <2>4. lastUse \in 1..LastDay /\ dayNo \in lastUse..LastDay
    BY <1>1, <1>2
  <2>5. /\ LapseDay(lastUse) \in Nat
        /\ lastUse < MonthsAgo(2, dayNo) <=> LapseDay(lastUse) # 0 /\ LapseDay(lastUse) <= dayNo
    BY <2>4, LapseDayFirst
  <2>6. MonthsAgo(2, dayNo) \in Nat
    BY <1>2, MonthsAgoEarlier
  <2> QED
    BY <2>3, <2>5, <2>6, <1>1, <1>2
<1>4. ASSUME lapsedOn.day > 0
      PROVE  /\ lapsedOn.day = LapseDay(lapsedOn.last)
             /\ lastUse = lapsedOn.last =>
                   /\ HasDay(lastUse, 1) => warning[1] # {}
                   /\ HasDay(lastUse, 2) => lapsedOn.day - 1 \in warning[2]
  <2>1. PICK t \in Nat, d \in Nat : t = lapsedOn.day /\ d = lapsedOn.last
    BY <1>2
  <2>2. /\ t <= dayNo /\ d \in 1..(t - 1) /\ ~InTime(d, t)
        /\ \A s \in d..(t - 1) : InTime(d, s) /\ (lastUse = d => WarnedOn(lastUse, s))
    BY <1>0, <1>4, <2>1 DEF PatronIInv, LapsesDue
  <2>3. d \in 1..LastDay /\ t \in d..LastDay /\ t - 1 \in d..LastDay /\ t - 1 \in d..(t - 1)
    BY <1>1, <1>2, <2>1, <2>2
  <2>4. d < MonthsAgo(2, t)
    <3>1. MonthsAgo(2, t) \in Nat
      <4>1. t \in 1..LastDay
        BY <2>3, <1>1
      <4> QED
        BY <4>1, MonthsAgoEarlier
    <3> QED
      BY <3>1, <2>1, <2>2 DEF InTime
  <2>5. ~(d < MonthsAgo(2, t - 1))
    <3>1. MonthsAgo(2, t - 1) \in Nat
      <4>1. t - 1 \in 1..LastDay
        BY <2>3, <1>1
      <4> QED
        BY <4>1, MonthsAgoEarlier
    <3>2. InTime(d, t - 1)
      BY <2>2, <2>3
    <3> QED
      BY <3>1, <3>2, <2>1 DEF InTime
  <2>6. LapseDay(d) \in Nat /\ LapseDay(d) # 0 /\ LapseDay(d) <= t
    BY <2>3, <2>4, LapseDayFirst
  <2>7. ~(LapseDay(d) <= t - 1)
    <3>1. ~(LapseDay(d) # 0 /\ LapseDay(d) <= t - 1)
      BY <2>3, <2>5, LapseDayFirst
    <3> QED
      BY <3>1, <2>6
  <2>8. t = LapseDay(d)
    BY <2>1, <2>6, <2>7
  <2>9. ASSUME lastUse = d, HasDay(lastUse, 1) PROVE warning[1] # {}
    <3>1. PICK s \in (d + 1)..(LapseDay(d) - 1) : MonthsAgo(1, s) = d
      BY <2>3, <2>6, <2>9, FirstWarningDue
    <3>2. s \in d..(t - 1)
      BY <2>1, <2>8, <3>1
    <3> QED
      BY <3>1, <3>2, <2>2, <2>9 DEF WarnedOn
  <2>10. ASSUME lastUse = d, HasDay(lastUse, 2) PROVE t - 1 \in warning[2]
    <3>1. MonthsAgo(2, t - 1) = d
      BY <2>3, <2>8, <2>10, SecondWarningDue
    <3> QED
      BY <3>1, <2>2, <2>3, <2>10 DEF WarnedOn
  <2> QED
    BY <2>1, <2>8, <2>9, <2>10
<1> QED
  BY <1>3, <1>4

\* Before a day's job is done nothing is due on the day of a use.
LEMMA FreshUse ==
  ASSUME NEW d \in 1..LastDay
  PROVE  WarnedOn(d, d) /\ WarnedOn(d, d)' /\ InTime(d, d)
<1>1. d \in Nat
  <2>1. LastDay \in Nat
    BY CalendarRec, PatronAssumption DEF LastDay
  <2> QED
    BY <2>1
<1>2. /\ MonthsAgo(1, d) \in Nat /\ MonthsAgo(2, d) \in Nat
      /\ MonthsAgo(1, d) < d /\ MonthsAgo(2, d) <= MonthsAgo(1, d)
  BY MonthsAgoEarlier
<1> QED
  BY <1>1, <1>2 DEF WarnedOn, InTime

LEMMA PatronInitOK ==
  ASSUME HandlersInit, lastUse \in FirstDays, PatronsIdle
  PROVE  PatronIInv
<1>1. at = Idle /\ faults = 0
  BY DEF HandlersInit
<1>2. LastDay \in Nat
  BY CalendarRec, PatronAssumption DEF LastDay
<1>3. lastUse \in 1..LastDay /\ dayNo = lastUse
  BY CalendarAssumption DEF PatronsIdle
<1>4. dayNo \in 1..LastDay /\ lastUse \in 1..dayNo
  BY <1>2, <1>3
<1>5. PatronTyped
  BY <1>1, <1>4 DEF PatronTyped, PatronsIdle, Idle, PatronLabels, Scans, NoScan
<1>6. ~Met /\ lapsedOn.day = 0
  BY DEF PatronsIdle, Met
<1>7. OneJob /\ RowOfToday
  BY <1>1 DEF OneJob, RowOfToday, Idle
<1>8. BondsKept /\ LapsesDue
  BY <1>6 DEF BondsKept, LapsesDue
<1> QED
  BY <1>5, <1>7, <1>8 DEF PatronIInv

\* A ledger row of the patron.
LEMMA PatronOrderOK ==
  ASSUME PatronIInv, Order
  PROVE  PatronIInv'
<1>1. /\ PatronTyped /\ OneJob /\ LapsesDue
  BY DEF PatronIInv
<1>2. Use /\ UNCHANGED <<at, faults, dayNo, reaped, lapsedOn, scan>>
  BY DEF Order, OwnOrder, OthersOrder, handlerVars
<1>3. /\ lastUse' = dayNo /\ warning' = [n \in {1, 2} |-> {}]
      /\ overtaken' = (overtaken \/ \E h \in Handlers : scan[h] # NoScan)
  BY <1>2 DEF Use
<1>4. LastDay \in Nat
  BY CalendarRec, PatronAssumption DEF LastDay
<1>5. dayNo \in 1..LastDay /\ lastUse \in 1..dayNo /\ dayNo \in Nat
  BY <1>1, <1>4 DEF PatronTyped
<1>6. bond' \in [Apprentices -> {"none", "met", "lapsed"}]
  <2>1. bond \in [Apprentices -> {"none", "met", "lapsed"}]
    BY <1>1 DEF PatronTyped
  <2>2. bond' = bond \/ \E c \in Apprentices : bond' = [bond EXCEPT ![c] = "met"]
    BY DEF Order, OwnOrder, OthersOrder
  <2> QED
    BY <2>1, <2>2
<1>7. PatronTyped'
  <2>1. overtaken' \in BOOLEAN
    BY <1>3
  <2>2. lastUse' \in 1..dayNo'
    BY <1>2, <1>3, <1>5
  <2>3. warning' \in [{1, 2} -> SUBSET Nat]
    BY <1>3
  <2> QED
    BY <1>1, <1>2, <1>6, <2>1, <2>2, <2>3 DEF PatronTyped
<1>8. OneJob'
  BY <1>1, <1>2 DEF OneJob
<1>9. Regular' => Regular /\ \A h \in Handlers : at[h] = "idle"
  <2> SUFFICES ASSUME Regular', NEW h \in Handlers PROVE Regular /\ at[h] = "idle"
    BY <1>2, <1>3 DEF Regular
  <2>1. Regular /\ scan[h] = NoScan
    BY <1>2, <1>3 DEF Regular
  <2>2. at[h] # "idle" => scan[h].last > 0
    BY <1>1 DEF OneJob
  <2>3. NoScan.last = 0
    BY DEF NoScan
  <2> QED
    BY <2>1, <2>2, <2>3
<1>10. RowOfToday'
  BY <1>2, <1>9 DEF RowOfToday
<1>11. BondsKept'
  <2> SUFFICES ASSUME NEW s \in lastUse'..dayNo' PROVE WarnedOn(lastUse, s)' /\ InTime(lastUse, s)'
    BY DEF BondsKept
  <2>1. s = dayNo
    BY <1>2, <1>3, <1>5
  <2>2. WarnedOn(dayNo, dayNo)' /\ InTime(dayNo, dayNo)
    <3>1. PICK d \in 1..LastDay : d = dayNo
      BY <1>5
    <3>2. WarnedOn(d, d)' /\ InTime(d, d)
      BY FreshUse
    <3> QED
      BY <3>1, <3>2, <1>2 DEF WarnedOn, InTime
  <2> QED
    BY <2>1, <2>2, <1>2, <1>3 DEF WarnedOn, InTime
<1>12. LapsesDue'
  <2> SUFFICES ASSUME Regular', lapsedOn'.day > 0
               PROVE  /\ lapsedOn'.day <= dayNo' /\ lapsedOn'.last \in 1..(lapsedOn'.day - 1)
                      /\ ~InTime(lapsedOn.last, lapsedOn.day)'
                      /\ \A s \in lapsedOn'.last..(lapsedOn'.day - 1) :
                            /\ InTime(lapsedOn.last, s)'
                            /\ lastUse' = lapsedOn'.last => WarnedOn(lastUse, s)'
    BY DEF LapsesDue
  <2>1. /\ lapsedOn.day <= dayNo /\ lapsedOn.last \in 1..(lapsedOn.day - 1)
        /\ ~InTime(lapsedOn.last, lapsedOn.day)
        /\ \A s \in lapsedOn.last..(lapsedOn.day - 1) : InTime(lapsedOn.last, s)
    BY <1>1, <1>2, <1>9 DEF LapsesDue
  <2>2. lapsedOn.day \in Nat /\ lapsedOn.last \in Nat
    BY <1>1 DEF PatronTyped
  <2>3. lastUse' # lapsedOn'.last
    BY <2>1, <2>2, <1>2, <1>3, <1>5
  <2> QED
    BY <2>1, <2>3, <1>2 DEF InTime
<1> QED
  BY <1>7, <1>8, <1>10, <1>11, <1>12 DEF PatronIInv

\* The next day comes only when the job of the day before is done.
LEMMA PatronNextDayOK ==
  ASSUME PatronIInv, NextDay
  PROVE  PatronIInv'
<1>1. /\ PatronTyped /\ OneJob /\ BondsKept /\ LapsesDue
  BY DEF PatronIInv
<1>2. /\ AtRest /\ reaped /\ dayNo < LastDay /\ dayNo' = dayNo + 1 /\ reaped' = FALSE
      /\ UNCHANGED <<at, faults, lastUse, warning, overtaken, bond, lapsedOn, scan>>
  BY DEF NextDay, LedgerSame, handlerVars
<1>3. LastDay \in Nat
  BY CalendarRec, PatronAssumption DEF LastDay
<1>4. dayNo \in Nat /\ dayNo \in 1..LastDay /\ lastUse \in 1..dayNo
  BY <1>1, <1>3 DEF PatronTyped
<1>5. PatronTyped'
  <2>1. dayNo' \in 1..LastDay /\ lastUse' \in 1..dayNo'
    BY <1>2, <1>3, <1>4
  <2>2. reaped' \in BOOLEAN
    BY <1>2
  <2> QED
    BY <2>1, <2>2, <1>1, <1>2 DEF PatronTyped
<1>6. \A h \in Handlers : at[h] = "idle"
  BY <1>2 DEF AtRest, Idle
<1>7. OneJob' /\ RowOfToday'
  BY <1>2, <1>6 DEF OneJob, RowOfToday
<1>8. BondsKept'
  <2> SUFFICES ASSUME Regular', Met', NEW s \in lastUse'..dayNo', DayDone(s)'
               PROVE  WarnedOn(lastUse, s)' /\ InTime(lastUse, s)'
    BY DEF BondsKept
  <2>1. Regular /\ Met
    BY <1>2 DEF Regular, Met
  <2>2. s < dayNo + 1
    BY <1>2 DEF DayDone
  <2>3. s \in lastUse..dayNo
    BY <2>2, <1>2, <1>4
  <2>4. DayDone(s)
    BY <1>2 DEF DayDone
  <2>5. WarnedOn(lastUse, s) /\ InTime(lastUse, s)
    BY <2>1, <2>3, <2>4, <1>1 DEF BondsKept
  <2> QED
    BY <2>5, <1>2 DEF WarnedOn, InTime
<1>9. LapsesDue'
  <2>1. PICK t \in Nat : t = lapsedOn.day
    BY <1>1 DEF PatronTyped
  <2>2. t <= dayNo => t <= dayNo'
    BY <1>2, <1>4
  <2> QED
    BY <2>1, <2>2, <1>1, <1>2 DEF LapsesDue, Regular, InTime, WarnedOn
<1> QED
  BY <1>5, <1>7, <1>8, <1>9 DEF PatronIInv

\* A process that dies leaves the row.
LEMMA PatronDieOK ==
  ASSUME PatronIInv, NEW h \in Handlers, PatronDie(h)
  PROVE  PatronIInv'
<1>1. /\ PatronTyped /\ OneJob
  BY DEF PatronIInv
<1>2. /\ at[h] # "idle" /\ at' = [at EXCEPT ![h] = "idle"] /\ faults' = faults + 1
      /\ scan' = [scan EXCEPT ![h] = NoScan]
      /\ UNCHANGED <<lastUse, warning, overtaken, dayNo, reaped, bond, lapsedOn>>
  BY DEF PatronDie, Die, Refused, Goto, Scanning, LedgerSame
<1>3. faults' \in Nat /\ faults' # 0
  BY <1>1, <1>2 DEF PatronTyped
<1>4. PatronTyped'
  <2>1. at' \in [Handlers -> PatronLabels]
    BY <1>1, <1>2 DEF PatronTyped, PatronLabels
  <2>2. scan' \in [Handlers -> Scans]
    BY <1>1, <1>2 DEF PatronTyped, Scans, NoScan
  <2> QED
    BY <2>1, <2>2, <1>1, <1>2, <1>3 DEF PatronTyped
<1>5. OneJob'
  <2>1. \A g \in Handlers : at'[g] # "idle" => g # h /\ at[g] = at'[g] /\ scan'[g] = scan[g]
    BY <1>1, <1>2 DEF PatronTyped
  <2> QED
    BY <2>1, <1>1, <1>2 DEF OneJob
<1>6. ~Regular'
  BY <1>3 DEF Regular
<1>7. RowOfToday' /\ BondsKept' /\ LapsesDue'
  BY <1>6 DEF RowOfToday, BondsKept, LapsesDue
<1> QED
  BY <1>4, <1>5, <1>7 DEF PatronIInv

\* The job is started once a day.
LEMMA ReapOK ==
  ASSUME PatronIInv, NEW h \in Handlers, ReapInactivePatrons(h)
  PROVE  PatronIInv'
<1>1. /\ PatronTyped /\ OneJob /\ RowOfToday /\ BondsKept /\ LapsesDue
  BY DEF PatronIInv
<1> DEFINE RowDue == "met" \in {bond[c] : c \in Apprentices} /\ lastUse <= MonthsAgo(1, dayNo)
<1>2. /\ ~reaped /\ reaped' = TRUE /\ at[h] = "idle"
      /\ at' = [at EXCEPT ![h] = IF RowDue THEN "row" ELSE "idle"] /\ faults' = faults
      /\ scan' = [scan EXCEPT ![h] = IF at'[h] = "row"
                   THEN [one |-> MonthsAgo(1, dayNo), two |-> MonthsAgo(2, dayNo), last |-> lastUse]
                   ELSE NoScan]
      /\ UNCHANGED <<lastUse, warning, overtaken, dayNo, bond, lapsedOn>>
  BY DEF ReapInactivePatrons, Deliver, Goto, Scanning, LedgerSame
<1>3. RowDue => Met
  BY DEF Met
<1>3m. Met => "met" \in {bond[c] : c \in Apprentices}
  BY DEF Met
<1>4. LastDay \in Nat
  BY CalendarRec, PatronAssumption DEF LastDay
<1>5. dayNo \in Nat /\ dayNo \in 1..LastDay /\ lastUse \in 1..dayNo
  BY <1>1, <1>4 DEF PatronTyped
<1>6. /\ MonthsAgo(1, dayNo) \in Nat /\ MonthsAgo(2, dayNo) \in Nat
      /\ MonthsAgo(2, dayNo) <= MonthsAgo(1, dayNo)
  BY <1>5, MonthsAgoEarlier
<1>7. \A g \in Handlers : at[g] = "idle"
  BY <1>1, <1>2 DEF OneJob
<1>8. /\ \A g \in Handlers \ {h} : at'[g] = "idle"
      /\ at'[h] = IF RowDue THEN "row" ELSE "idle"
      /\ at' \in [Handlers -> PatronLabels]
  BY <1>1, <1>2, <1>7 DEF PatronTyped, PatronLabels
<1>9. RowDue => scan'[h] = [one |-> MonthsAgo(1, dayNo), two |-> MonthsAgo(2, dayNo), last |-> lastUse]
  BY <1>1, <1>2, <1>8 DEF PatronTyped
<1>10. PatronTyped'
  <2>1. [one |-> MonthsAgo(1, dayNo), two |-> MonthsAgo(2, dayNo), last |-> lastUse] \in Scans
    BY <1>5, <1>6 DEF Scans
  <2>2. NoScan \in Scans
    BY DEF Scans, NoScan
  <2>3. scan' \in [Handlers -> Scans]
    BY <2>1, <2>2, <1>1, <1>2 DEF PatronTyped
  <2> QED
    BY <2>3, <1>1, <1>2, <1>8 DEF PatronTyped
<1> HIDE DEF RowDue
<1>11. OneJob'
  <2>1. \A g \in Handlers : at'[g] # "idle" => g = h /\ scan'[g].last > 0
    BY <1>5, <1>8, <1>9
  <2> QED
    BY <2>1, <1>2 DEF OneJob
<1>12. RowOfToday'
  <2>1. \A g \in Handlers : at'[g] # "idle" => g = h /\ RowDue /\ at'[g] = "row"
    BY <1>8
  <2>2. Met' <=> Met
    BY <1>2 DEF Met
  <2>3. RowDue => /\ scan'[h].last = lastUse /\ scan'[h].one = MonthsAgo(1, dayNo)
               /\ scan'[h].two = MonthsAgo(2, dayNo)
    BY <1>9
  <2> QED
    BY <2>1, <2>2, <2>3, <1>2, <1>3 DEF RowOfToday
<1>13. BondsKept'
  <2> SUFFICES ASSUME Regular', Met', NEW s \in lastUse'..dayNo', DayDone(s)'
               PROVE  WarnedOn(lastUse, s)' /\ InTime(lastUse, s)'
    BY DEF BondsKept
  <2>1. Regular /\ Met
    BY <1>2 DEF Regular, Met
  <2>2. s \in lastUse..dayNo
    BY <1>2
  <2>3. CASE s < dayNo
    <3>1. WarnedOn(lastUse, s) /\ InTime(lastUse, s)
      BY <2>1, <2>2, <2>3, <1>1 DEF BondsKept, DayDone
    <3> QED
      BY <3>1, <1>2 DEF WarnedOn, InTime
  <2>4. CASE s = dayNo
    <3>1. AtRest'
      BY <2>4, <1>2, <1>5 DEF DayDone
    <3>2. at'[h] = "idle"
      BY <3>1 DEF AtRest, Idle
    <3>3. ~(lastUse <= MonthsAgo(1, dayNo))
      BY <3>2, <1>8, <1>3m, <2>1 DEF RowDue
    <3> QED
      BY <3>3, <2>4, <1>2, <1>5, <1>6 DEF WarnedOn, InTime
  <2> QED
    BY <2>2, <2>3, <2>4, <1>5
<1>14. LapsesDue'
  BY <1>1, <1>2 DEF LapsesDue, Regular, InTime, WarnedOn
<1> QED
  BY <1>10, <1>11, <1>12, <1>13, <1>14 DEF PatronIInv

\* A step that ends the day's job.
LEMMA JobEnds ==
  ASSUME PatronIInv, NEW h \in Handlers, at[h] # "idle", End(h), Scanning(h, NoScan),
         warning' \in [{1, 2} -> SUBSET Nat], \A n \in {1, 2} : warning[n] \subseteq warning'[n],
         UNCHANGED <<dayNo, reaped, lastUse, bond, lapsedOn, overtaken>>,
         Regular /\ Met => WarnedOn(lastUse, dayNo)' /\ InTime(lastUse, dayNo)
  PROVE  PatronIInv'
<1>1. /\ PatronTyped /\ OneJob /\ RowOfToday /\ BondsKept /\ LapsesDue
  BY DEF PatronIInv
<1>2. /\ at' = [at EXCEPT ![h] = "idle"] /\ faults' = faults
      /\ scan' = [scan EXCEPT ![h] = NoScan]
  BY DEF End, Continue, Goto, Scanning
<1>3. at' \in [Handlers -> PatronLabels] /\ scan' \in [Handlers -> Scans]
  BY <1>1, <1>2 DEF PatronTyped, PatronLabels, Scans, NoScan
<1>4. PatronTyped'
  BY <1>1, <1>2, <1>3 DEF PatronTyped
<1>5. \A g \in Handlers : at'[g] = "idle"
  BY <1>1, <1>2 DEF OneJob, PatronTyped
<1>6. OneJob' /\ RowOfToday'
  BY <1>5 DEF OneJob, RowOfToday
<1>7. LastDay \in Nat
  BY CalendarRec, PatronAssumption DEF LastDay
<1>8. dayNo \in Nat /\ lastUse \in 1..dayNo
  BY <1>1, <1>7 DEF PatronTyped
<1>9. ASSUME NEW d, NEW s, WarnedOn(d, s) PROVE WarnedOn(d, s)'
  BY <1>9 DEF WarnedOn
<1>10. BondsKept'
  <2> SUFFICES ASSUME Regular', Met', NEW s \in lastUse'..dayNo', DayDone(s)'
               PROVE  WarnedOn(lastUse, s)' /\ InTime(lastUse, s)'
    BY DEF BondsKept
  <2>1. Regular /\ Met
    BY <1>2 DEF Regular, Met
  <2>2. s \in lastUse..dayNo
    OBVIOUS
  <2>3. CASE s < dayNo
    <3>1. WarnedOn(lastUse, s) /\ InTime(lastUse, s)
      BY <2>1, <2>2, <2>3, <1>1 DEF BondsKept, DayDone
    <3>2. WarnedOn(lastUse, s)'
      BY <3>1, <1>9 DEF WarnedOn
    <3> QED
      BY <3>1, <3>2 DEF InTime, WarnedOn
  <2>4. CASE s = dayNo
    <3>1. WarnedOn(lastUse, dayNo)' /\ InTime(lastUse, dayNo)
      BY <2>1
    <3> QED
      BY <3>1, <2>4 DEF WarnedOn, InTime
  <2> QED
    BY <2>2, <2>3, <2>4, <1>8
<1>11. LapsesDue'
  <2> SUFFICES ASSUME Regular', lapsedOn'.day > 0
               PROVE  /\ lapsedOn'.day <= dayNo' /\ lapsedOn'.last \in 1..(lapsedOn'.day - 1)
                      /\ ~InTime(lapsedOn.last, lapsedOn.day)'
                      /\ \A s \in lapsedOn'.last..(lapsedOn'.day - 1) :
                            /\ InTime(lapsedOn.last, s)'
                            /\ lastUse' = lapsedOn'.last => WarnedOn(lastUse, s)'
    BY DEF LapsesDue
  <2>1. /\ lapsedOn.day <= dayNo /\ lapsedOn.last \in 1..(lapsedOn.day - 1)
        /\ ~InTime(lapsedOn.last, lapsedOn.day)
        /\ \A s \in lapsedOn.last..(lapsedOn.day - 1) :
              /\ InTime(lapsedOn.last, s)
              /\ lastUse = lapsedOn.last => WarnedOn(lastUse, s)
    BY <1>1, <1>2 DEF LapsesDue, Regular
  <2>2. \A s : WarnedOn(lastUse, s) => WarnedOn(lastUse, s)'
    BY DEF WarnedOn
  <2> QED
    BY <2>1, <2>2 DEF InTime
<1> QED
  BY <1>4, <1>6, <1>10, <1>11 DEF PatronIInv

\* What a handler at a row knows.
LEMMA AtRow ==
  ASSUME PatronIInv, NEW h \in Handlers, at[h] = "row"
  PROVE  /\ Regular => /\ scan[h].last = lastUse /\ scan[h].one = MonthsAgo(1, dayNo)
                       /\ scan[h].two = MonthsAgo(2, dayNo)
         /\ lastUse \in Nat /\ lastUse > 0 /\ dayNo \in Nat /\ lastUse \in 1..dayNo
         /\ MonthsAgo(1, dayNo) \in Nat /\ MonthsAgo(2, dayNo) \in Nat
         /\ MonthsAgo(2, dayNo) <= MonthsAgo(1, dayNo) /\ MonthsAgo(1, dayNo) < dayNo
         /\ MonthsAgo(1, dayNo) > 0 => MonthsAgo(2, dayNo) < MonthsAgo(1, dayNo)
<1>1. LastDay \in Nat
  BY CalendarRec, PatronAssumption DEF LastDay
<1>2. dayNo \in 1..LastDay /\ lastUse \in 1..dayNo
  BY DEF PatronIInv, PatronTyped
<1>3. dayNo \in Nat /\ lastUse \in Nat /\ lastUse > 0
  BY <1>1, <1>2
<1> QED
  BY <1>2, <1>3, MonthsAgoEarlier DEF PatronIInv, RowOfToday

LEMMA WarnEnds ==
  ASSUME PatronIInv, NEW h \in Handlers, NEW n \in {1, 2}, NEW then, Warn(h, n, then)
  PROVE  /\ at[h] = "row" /\ scan[h].last = then /\ End(h) /\ Scanning(h, NoScan)
         /\ warning' \in [{1, 2} -> SUBSET Nat] /\ dayNo \in warning'[n]
         /\ \A k \in {1, 2} : warning[k] \subseteq warning'[k]
         /\ UNCHANGED <<dayNo, reaped, lastUse, bond, lapsedOn, overtaken>>
<1>1. warning' = [warning EXCEPT ![n] = @ \cup {dayNo}] /\ at[h] = "row"
  BY DEF Warn
<1>2. warning \in [{1, 2} -> SUBSET Nat] /\ dayNo \in Nat
  BY <1>1, AtRow DEF PatronIInv, PatronTyped
<1> QED
  BY <1>1, <1>2 DEF Warn, ScanDone

LEMMA WarnAfterOneMonthOK ==
  ASSUME PatronIInv, NEW h \in Handlers, WarnAfterOneMonth(h)
  PROVE  PatronIInv'
<1>1. /\ at[h] = "row" /\ scan[h].last = scan[h].one /\ End(h) /\ Scanning(h, NoScan)
      /\ warning' \in [{1, 2} -> SUBSET Nat] /\ dayNo \in warning'[1]
      /\ \A k \in {1, 2} : warning[k] \subseteq warning'[k]
      /\ UNCHANGED <<dayNo, reaped, lastUse, bond, lapsedOn, overtaken>>
  BY WarnEnds DEF WarnAfterOneMonth
<1>2. ASSUME Regular PROVE WarnedOn(lastUse, dayNo)' /\ InTime(lastUse, dayNo)
  BY <1>1, <1>2, AtRow DEF WarnedOn, InTime
<1> QED
  BY <1>1, <1>2, JobEnds

LEMMA WarnAfterTwoMonthsOK ==
  ASSUME PatronIInv, NEW h \in Handlers, WarnAfterTwoMonths(h)
  PROVE  PatronIInv'
<1>1. /\ at[h] = "row" /\ scan[h].last = scan[h].two /\ End(h) /\ Scanning(h, NoScan)
      /\ warning' \in [{1, 2} -> SUBSET Nat] /\ dayNo \in warning'[2]
      /\ \A k \in {1, 2} : warning[k] \subseteq warning'[k]
      /\ UNCHANGED <<dayNo, reaped, lastUse, bond, lapsedOn, overtaken>>
  BY WarnEnds DEF WarnAfterTwoMonths
<1>0. scan[h].last # scan[h].one
  BY DEF WarnAfterTwoMonths
<1>2. ASSUME Regular PROVE WarnedOn(lastUse, dayNo)' /\ InTime(lastUse, dayNo)
  BY <1>0, <1>1, <1>2, AtRow DEF WarnedOn, InTime
<1> QED
  BY <1>1, <1>2, JobEnds

LEMMA NoWarningDueOK ==
  ASSUME PatronIInv, NEW h \in Handlers, NoWarningDue(h)
  PROVE  PatronIInv'
<1>1. /\ at[h] = "row" /\ ~Lapses(scan[h]) /\ scan[h].last \notin {scan[h].one, scan[h].two}
      /\ End(h) /\ Scanning(h, NoScan)
      /\ UNCHANGED <<warning, dayNo, reaped, lastUse, bond, lapsedOn, overtaken>>
  BY DEF NoWarningDue, ScanDone, LedgerSame
<1>2. ASSUME Regular PROVE WarnedOn(lastUse, dayNo)' /\ InTime(lastUse, dayNo)
  BY <1>1, <1>2, AtRow DEF WarnedOn, InTime, Lapses
<1>3. /\ warning' \in [{1, 2} -> SUBSET Nat]
      /\ \A n \in {1, 2} : warning[n] \subseteq warning'[n]
  BY <1>1 DEF PatronIInv, PatronTyped
<1> QED
  BY <1>1, <1>2, <1>3, JobEnds

LEMMA TellLapseOK ==
  ASSUME PatronIInv, NEW h \in Handlers, TellLapse(h)
  PROVE  PatronIInv'
<1>1. /\ at[h] = "tellLapse" /\ End(h) /\ Scanning(h, NoScan)
      /\ UNCHANGED <<warning, dayNo, reaped, lastUse, bond, lapsedOn, overtaken>>
  BY DEF TellLapse, ScanDone, LedgerSame
<1>2. Regular => ~Met
  BY <1>1 DEF PatronIInv, RowOfToday
<1>3. /\ warning' \in [{1, 2} -> SUBSET Nat]
      /\ \A n \in {1, 2} : warning[n] \subseteq warning'[n]
  BY <1>1 DEF PatronIInv, PatronTyped
<1> QED
  BY <1>1, <1>2, <1>3, JobEnds

\* The bonds end when two months were over today, and not yesterday.
LEMMA EndBondsOK ==
  ASSUME PatronIInv, NEW h \in Handlers, EndBonds(h)
  PROVE  PatronIInv'
<1>1. /\ PatronTyped /\ OneJob /\ RowOfToday /\ BondsKept /\ LapsesDue
  BY DEF PatronIInv
<1>2. /\ at[h] = "row" /\ scan[h].last < scan[h].two
      /\ bond' = [c \in Apprentices |-> IF bond[c] = "met" THEN "lapsed" ELSE bond[c]]
      /\ lapsedOn' = [day |-> dayNo, last |-> lastUse]
      /\ at' = [at EXCEPT ![h] = "tellLapse"] /\ faults' = faults
      /\ UNCHANGED <<lastUse, warning, overtaken, dayNo, reaped, scan>>
  BY DEF EndBonds, Lapses, Continue, Goto, LedgerSame
<1>3. /\ Regular => /\ scan[h].last = lastUse /\ scan[h].one = MonthsAgo(1, dayNo)
                    /\ scan[h].two = MonthsAgo(2, dayNo)
      /\ lastUse \in Nat /\ lastUse > 0 /\ dayNo \in Nat /\ lastUse \in 1..dayNo
      /\ MonthsAgo(1, dayNo) \in Nat /\ MonthsAgo(2, dayNo) \in Nat
      /\ MonthsAgo(2, dayNo) <= MonthsAgo(1, dayNo) /\ MonthsAgo(1, dayNo) < dayNo
  BY <1>2, AtRow
<1>4. PatronTyped'
  <2>1. at' \in [Handlers -> PatronLabels]
    BY <1>1, <1>2 DEF PatronTyped, PatronLabels
  <2>2. bond' \in [Apprentices -> {"none", "met", "lapsed"}]
    BY <1>1, <1>2 DEF PatronTyped
  <2>3. lapsedOn' \in [day : Nat, last : Nat]
    BY <1>2, <1>3
  <2> QED
    BY <1>1, <1>2, <2>1, <2>2, <2>3 DEF PatronTyped
<1>5. /\ at'[h] = "tellLapse"
      /\ \A g \in Handlers \ {h} : at[g] = "idle" /\ at'[g] = "idle"
  BY <1>1, <1>2 DEF OneJob, PatronTyped
<1>6. OneJob'
  BY <1>1, <1>2, <1>5 DEF OneJob
<1>7. ~Met'
  BY <1>2 DEF Met
<1>8. RowOfToday' /\ BondsKept'
  BY <1>5, <1>7 DEF RowOfToday, BondsKept
<1>9. LapsesDue'
  <2> SUFFICES ASSUME Regular'
               PROVE  /\ dayNo <= dayNo /\ lastUse \in 1..(dayNo - 1)
                      /\ ~InTime(lastUse, dayNo)
                      /\ \A s \in lastUse..(dayNo - 1) :
                            InTime(lastUse, s) /\ WarnedOn(lastUse, s)
    BY <1>2 DEF LapsesDue, InTime, WarnedOn
  <2>1. Regular
    BY <1>2 DEF Regular
  <2>2. Met
    BY <1>1, <1>2, <2>1 DEF RowOfToday
  <2>3. lastUse < MonthsAgo(2, dayNo)
    BY <1>2, <1>3, <2>1
  <2>4. lastUse \in 1..(dayNo - 1) /\ ~InTime(lastUse, dayNo)
    BY <1>3, <2>3 DEF InTime
  <2>5. ASSUME NEW s \in lastUse..(dayNo - 1) PROVE InTime(lastUse, s) /\ WarnedOn(lastUse, s)
    <3>1. s \in lastUse..dayNo /\ s < dayNo
      BY <1>3
    <3> QED
      BY <3>1, <2>1, <2>2, <1>1 DEF BondsKept, DayDone
  <2> QED
    BY <1>3, <2>4, <2>5
<1> QED
  BY <1>4, <1>6, <1>8, <1>9 DEF PatronIInv

\* Every step of the patrons.
LEMMA PatronsNextOK ==
  ASSUME PatronIInv, [PatronsNext]_<<handlerVars, patronVars>>
  PROVE  PatronIInv'
<1>1. CASE PatronsNext
  <2>1. CASE Order
    BY <2>1, PatronOrderOK
  <2>2. CASE NextDay
    BY <2>2, PatronNextDayOK
  <2>3. ASSUME NEW h \in Handlers,
               \/ ReapInactivePatrons(h) \/ WarnAfterOneMonth(h) \/ WarnAfterTwoMonths(h)
               \/ EndBonds(h) \/ TellLapse(h) \/ NoWarningDue(h) \/ PatronDie(h)
        PROVE  PatronIInv'
    BY <2>3, ReapOK, WarnAfterOneMonthOK, WarnAfterTwoMonthsOK, EndBondsOK, TellLapseOK,
       NoWarningDueOK, PatronDieOK
  <2> QED
    BY <1>1, <2>1, <2>2, <2>3 DEF PatronsNext
<1>2. CASE UNCHANGED <<handlerVars, patronVars>>
  <2>1. UNCHANGED <<at, faults, dayNo, reaped, lastUse, uses, bond, warning, lapsedOn, scan,
                    overtaken>>
    BY <1>2 DEF handlerVars, patronVars
  <2>2. PatronTyped'
    BY <2>1 DEF PatronIInv, PatronTyped
  <2>3. OneJob' /\ RowOfToday'
    BY <2>1 DEF PatronIInv, OneJob, RowOfToday, Regular, Met
  <2>4. BondsKept'
    BY <2>1 DEF PatronIInv, BondsKept, Regular, Met, DayDone, AtRest, WarnedOn, InTime
  <2>5. LapsesDue'
    BY <2>1 DEF PatronIInv, LapsesDue, Regular, WarnedOn, InTime
  <2> QED
    BY <2>2, <2>3, <2>4, <2>5 DEF PatronIInv
<1> QED
  BY <1>1, <1>2

-----------------------------------------------------------------------------
(* The desks of Members: what happens at one is a step of its service. *)
\* queues.ts, reschedule_jobs: in every run of Members, for every lead time, number of casts
\* and way an operator moves the times, a cast on duty has been reminded by their own end less
\* the lead, once and once more for every worker that died; the guest is reminded of a choice
\* that is one; and the selection does not outlast its end, unless a job was given up.
THEOREM MembersReminders == MembersSpec => []RemindersSent
<1> DEFINE I == desk = "reminders" => RemIInv
<1>1. MembersInit => I
  <2> SUFFICES ASSUME MembersInit, desk = "reminders" PROVE RemIInv
    OBVIOUS
  <2>1. Opening("reminders", {1, 2}) = {1, 2}
    BY DEF Opening
  <2>2. RemindersIdle /\ needed \in {1, 2} /\ HandlersInit
    BY <2>1 DEF MembersInit
  <2>3. at = Idle /\ faults = 0
    BY <2>2 DEF HandlersInit
  <2> QED
    BY <2>2, <2>3, RemInitOK
<1>2. I /\ [MembersNext]_membersVars => I'
  <2> SUFFICES ASSUME I, [MembersNext]_membersVars, desk' = "reminders" PROVE RemIInv'
    OBVIOUS
  <2>1. desk = "reminders"
    BY DEF MembersNext, membersVars
  <2>2. [RemindersNext]_<<handlerVars, jobVars>>
    BY <2>1 DEF MembersNext, membersVars
  <2> QED
    BY <2>1, <2>2, RemNextOK
<1>3. I => RemindersSent
  BY RemIInvReminded DEF RemindersSent
<1> QED
  BY <1>1, <1>2, <1>3, PTL DEF MembersSpec

\* What members are told, ...
LEMMA NoticesDesk == MembersSpec => [](desk = "notices" => EverybodyTold)
<1> DEFINE I == desk = "notices" => NoticeIInv
<1>1. MembersInit => I
  <2> SUFFICES ASSUME MembersInit, desk = "notices" PROVE NoticeIInv
    OBVIOUS
  <2>1. HandlersInit /\ NoticesIdle /\ people \in Opening("notices", NoticeCases)
    BY DEF MembersInit
  <2>2. Opening("notices", NoticeCases) = NoticeCases
    BY DEF Opening
  <2> QED
    BY <2>1, <2>2, NoticeInitOK
<1>2. I /\ [MembersNext]_membersVars => I'
  <2> SUFFICES ASSUME I, [MembersNext]_membersVars, desk' = "notices" PROVE NoticeIInv'
    OBVIOUS
  <2>1. desk = "notices"
    BY DEF MembersNext, membersVars
  <2>2. [NoticesNext]_<<handlerVars, noticeVars>>
    BY <2>1 DEF MembersNext, membersVars
  <2> QED
    BY <2>1, <2>2, NoticesNextOK
<1>3. I => (desk = "notices" => EverybodyTold)
  BY NoticeIInvTold
<1> QED
  BY <1>1, <1>2, <1>3, PTL DEF MembersSpec

\* ... and the warnings of patrons.
LEMMA PatronsDesk == MembersSpec => [](desk = "patrons" => WarnedBeforeLapse)
<1> DEFINE I == desk = "patrons" => PatronIInv
<1>1. MembersInit => I
  <2> SUFFICES ASSUME MembersInit, desk = "patrons" PROVE PatronIInv
    OBVIOUS
  <2>1. HandlersInit /\ PatronsIdle /\ lastUse \in Opening("patrons", FirstDays)
    BY DEF MembersInit
  <2>2. Opening("patrons", FirstDays) = FirstDays
    BY DEF Opening
  <2> QED
    BY <2>1, <2>2, PatronInitOK
<1>2. I /\ [MembersNext]_membersVars => I'
  <2> SUFFICES ASSUME I, [MembersNext]_membersVars, desk' = "patrons" PROVE PatronIInv'
    OBVIOUS
  <2>1. desk = "patrons"
    BY DEF MembersNext, membersVars
  <2>2. [PatronsNext]_<<handlerVars, patronVars>>
    BY <2>1 DEF MembersNext, membersVars
  <2> QED
    BY <2>1, <2>2, PatronsNextOK
<1>3. I => (desk = "patrons" => WarnedBeforeLapse)
  BY PatronIInvWarned
<1> QED
  BY <1>1, <1>2, <1>3, PTL DEF MembersSpec

\* auto-send-message.ts, notifications.ts, handlers.ts: in every run of Members, with any
\* devices, letters, orders, refusals, jobs that are repeated and processes that die, members
\* are told what concerns them and they have not refused, operators pass on only what has been
\* told, no device is lost, and, whatever the day on which a patron last used the app, the
\* patron is warned before their apprentices are lost.
THEOREM MembersAreTold == MembersSpec => []MembersTold
<1>1. /\ desk = "notices" => EverybodyTold
      /\ desk = "patrons" => WarnedBeforeLapse
      => MembersTold
  BY DEF MembersTold
<1> QED
  BY <1>1, NoticesDesk, PatronsDesk, PTL
=============================================================================
