------------------------------- MODULE Rankings -------------------------------
(***************************************************************************)
(* The rankings of casts and guests, and the setting that takes a member   *)
(* out of them (services/rankings.ts, the routes profiles/ranking,         *)
(* admin/rankings and user/notification_settings, lib/serializers.ts and   *)
(* the pages on top).  A page is four queries, so members may change their *)
(* setting between them; time goes by in days of MonthDays to the month.   *)
(***************************************************************************)
EXTENDS RequestHandlers, Sequences, Functions

CONSTANTS
    RankedCasts, RankedGuests,
    Birthday,       \* what ties are broken by: NULL is 0, and first
    HeadStarts,     \* the head starts an operator may have given
    ScoreRows,       \* what can be earned
    CampaignPlans,  \* the campaigns there may be
    WeekDays, MonthDays,
    DeadlineDay,    \* the day of the month (the 10th) by which visibility counts
    EventDeadlineDay,
    Questions,      \* bound: the pages that are asked for
    Top,            \* how many a page lists
    MaxDay          \* bound: the last day

Ranked == RankedCasts \cup RankedGuests
Days == 0..MaxDay

ASSUME RankingAssumption ==
    /\ RankedCasts \cap RankedGuests = {} /\ Birthday \in [Ranked -> Nat]
    /\ {WeekDays, MonthDays} \subseteq Nat \ {0} /\ {DeadlineDay, EventDeadlineDay} \subseteq Days
    /\ Top \in Nat /\ MaxDay \in Nat /\ IsFiniteSet(Ranked)
    /\ \A head \in HeadStarts : \A u \in Ranked : {head[u].meeting, head[u].sticker} \subseteq Int
    /\ \A e \in ScoreRows : {e.charged, e.credited} \subseteq Int
    /\ \A q \in Questions : q.type \in {"cast", "customer"} /\ q.viewer \in Ranked

VARIABLES
    headStart,   \* [meeting, sticker]: meeting_ranking_cheat and sticker_ranking_cheat, by member
    campaigns,   \* the event campaigns
    today,
    ledgerDays,  \* what was earned, and on which day
    hides,       \* user_settings.no_ranking
    changes,     \* user_ranking_visibility_history
    withdrawn,   \* discarded members
    wishes,      \* wishes[u][d]: when day d ended, u was told to be hidden and had not asked back
    closing,     \* everybody's score of the month before, as it stood when it ended
    saving,      \* saving[h]: the settings h saves
    view         \* view[h]: the page h builds

rankVars ==
    <<headStart, campaigns, today, ledgerDays, hides, changes, withdrawn, wishes, closing,
      saving, view>>

TypeOfMember(u) == IF u \in RankedCasts THEN "cast" ELSE "customer"
MembersOf(type) == IF type = "cast" THEN RankedCasts ELSE RankedGuests

NoSaving == [user |-> "nobody", old |-> FALSE, new |-> FALSE]
NoRows == [u \in {} |-> 0]
NoView == [category |-> "none", type |-> "none", period |-> "none", viewer |-> "nobody",
           templates |-> {}, from |-> 0, to |-> 0, day |-> 0, hidden |-> {}, rows |-> NoRows,
           mine |-> 0, named |-> {}, out |-> {}, shy |-> {}]

RankingsIdle ==
    /\ today = 0 /\ ledgerDays = {}
    /\ hides = [u \in Ranked |-> FALSE] /\ changes = <<>> /\ withdrawn = {}
    /\ wishes = [u \in Ranked |-> [d \in Days |-> FALSE]]
    /\ closing = [u \in Ranked |-> 0]
    /\ saving = [h \in Handlers |-> NoSaving] /\ view = [h \in Handlers |-> NoView]

RankingsInit ==
    /\ HandlersInit /\ headStart \in HeadStarts /\ campaigns \in CampaignPlans /\ RankingsIdle

-----------------------------------------------------------------------------
(* Periods and deadlines *)

MonthStart(day) == MonthDays * (day \div MonthDays)
Forever == MaxDay + 1

\* The days of a period, the second excluded.
Period(from, to) == [from |-> from, to |-> to]

PeriodRange(period) ==
    CASE period = "this_week"    -> Period(today - WeekDays, Forever)
      [] period = "this_month"   -> Period(MonthStart(today), Forever)
      [] period = "prev_month"   -> Period(MonthStart(today) - MonthDays, MonthStart(today))
      [] period = "this_year"    -> Period(0, Forever)
      [] period = "event_period" -> Period(0, Forever)
      [] OTHER                   -> Period(today - 1, Forever)

\* No visibility is that old.
NoDeadline == -1

CreditsRankingDeadline(period) ==
    CASE period = "this_month" -> MonthStart(today) + DeadlineDay
      [] period = "prev_month" -> MonthStart(today) - MonthDays + DeadlineDay
      [] OTHER                 -> NoDeadline

LimitedEventRankingDeadline(c) == MonthStart(c.to) + EventDeadlineDay

\* Mutant of HiddenAtDeadline: changes after the deadline count as well.
HiddenByNow(deadline) ==
    {u \in Ranked : deadline # NoDeadline /\ \E i \in DOMAIN changes :
        /\ changes[i].user = u /\ ~changes[i].visible
        /\ \A j \in DOMAIN changes : j > i => changes[j].user # u}

\* Those whose last change up to the deadline hid them.
HiddenAtDeadline(deadline) ==
    {u \in Ranked : \E i \in DOMAIN changes :
        /\ changes[i].user = u /\ changes[i].at <= deadline /\ ~changes[i].visible
        /\ \A j \in DOMAIN changes :
              j > i => changes[j].user # u \/ changes[j].at > deadline}

LatestStart(cs) == {c \in cs : \A d \in cs : d.from <= c.from}
LatestEnd(cs) == {c \in cs : \A d \in cs : d.to <= c.to}
Active == {c \in campaigns : c.from <= today /\ today <= c.to}
EventCampaigns ==
    IF Active # {} THEN LatestStart(Active) ELSE LatestEnd({c \in campaigns : c.to < today})

\* The campaign of a ranking by campaign, if there is one.
LimitedEventCampaign(period) ==
    LET start == MonthStart(today) - (IF period = "prev_month" THEN MonthDays ELSE 0)
    IN  IF period = "event_period" THEN EventCampaigns
        ELSE LatestStart({c \in campaigns : c.from < start + MonthDays /\ c.to >= start})

EventChocoPeriodRange(period) ==
    IF period = "event_period" /\ EventCampaigns # {}
    THEN LET c == CHOOSE d \in EventCampaigns : TRUE IN Period(c.from, c.to + 1)
    ELSE IF period = "event_period" THEN Period(today - MonthDays, Forever)
    ELSE PeriodRange(period)

-----------------------------------------------------------------------------
(* Scores *)

Categories(category) ==
    CASE category = "meeting" -> {"meeting"}
      [] category = "sticker" -> {"sticker", "cast_reward"}
      [] category = "patron"  -> {"patron_reward"}
      [] OTHER                -> {"meeting", "sticker", "cast_reward", "patron_reward"}

Charged(es) == SumFunction([e \in es |-> e.charged])
Credited(es) == SumFunction([e \in es |-> e.credited])

Within(from, to) == {e \in ledgerDays : from <= e.at /\ e.at < to}

\* Casts by what they earn, guests by what they pay, patrons by what they are given.
EarnedScore(u, category, range) ==
    LET es == {e \in Within(range.from, range.to) : e.category \in Categories(category)}
        patron == category = "patron" /\ u \in RankedGuests
    IN  (IF u \in RankedCasts \/ patron
         THEN Credited({e \in es : e.to = u})
         ELSE Charged({e \in es : e.from = u}))
        + (IF category = "meeting" THEN headStart[u].meeting
           ELSE IF category = "sticker" THEN headStart[u].sticker
           ELSE IF patron THEN 0
           ELSE headStart[u].meeting + headStart[u].sticker)

\* What guests have spent on the gifts of the campaign.
GiftScore(u, c, templates) ==
    Charged({e \in Within(c.from, c.to + 1) :
                e.category = "sticker" /\ e.to = u /\ e.template \in templates})

\* How many of the campaigns' gifts a guest was handed in the period.
ChocoCount(u, range) ==
    Cardinality({e \in Within(range.from, range.to) :
        e.recipient = u /\ \E c \in campaigns : e.template = c.template /\ c.from <= e.at /\ e.at <= c.to})

CorrectedPeriod(category, period) ==
    IF category \in {"limited_event", "event_choco_count"}
       /\ period \notin ({"this_month", "prev_month", "event_period"}
                          \cup (IF category = "event_choco_count" THEN {"this_week"} ELSE {}))
    THEN IF Active # {} THEN "event_period" ELSE "this_month"
    ELSE period

CorrectedCategory(category, type) ==
    IF category = "event_choco_count" /\ type = "cast" THEN "limited_event"
    ELSE IF category = "limited_event" /\ type = "customer" THEN "event_choco_count"
    ELSE category

ScoreOn(v, u) ==
    IF v.category = "limited_event"
    THEN LET cs == LimitedEventCampaign(v.period)
         IN  IF cs = {} THEN 0 ELSE GiftScore(u, CHOOSE c \in cs : TRUE, v.templates)
    ELSE IF v.category = "event_choco_count" THEN ChocoCount(u, Period(v.from, v.to))
    ELSE EarnedScore(u, v.category, Period(v.from, v.to))

\* Who has a score, among those the clause shows.
Scoring(v, shownTo) == {u \in MembersOf(v.type) \ withdrawn : u \in shownTo /\ ScoreOn(v, u) > 0}

Before(v, u, w) ==
    \/ ScoreOn(v, u) > ScoreOn(v, w)
    \/ ScoreOn(v, u) = ScoreOn(v, w) /\ Birthday[u] < Birthday[w]

Position(v, u, us) == 1 + Cardinality({w \in us : Before(v, w, u)})

-----------------------------------------------------------------------------
(* Members *)

Visibility == <<hides, changes, wishes>>

DayPasses ==
    /\ today < MaxDay
    /\ today' = today + 1
    /\ closing' = IF MonthStart(today') = today'
                  THEN [u \in Ranked |-> EarnedScore(u, "credits", PeriodRange("this_month"))]
                  ELSE closing
    /\ UNCHANGED <<headStart, campaigns>>
    /\ UNCHANGED <<handlerVars, ledgerDays, withdrawn, Visibility, saving, view>>

EarnSomething(h) ==
    /\ Begin(h, "idle")
    /\ \E e \in ScoreRows :
          ledgerDays' = ledgerDays \cup
              {[from |-> e.from, to |-> e.to, category |-> e.category, charged |-> e.charged,
                credited |-> e.credited, template |-> e.template, recipient |-> e.recipient,
                at |-> today]}
    /\ UNCHANGED <<headStart, campaigns>>
    /\ UNCHANGED <<today, withdrawn, closing, Visibility, saving, view>>

WithdrawMember(h) ==
    /\ Begin(h, "idle")
    /\ \E u \in Ranked \ withdrawn : withdrawn' = withdrawn \cup {u}
    /\ UNCHANGED <<headStart, campaigns>>
    /\ UNCHANGED <<today, ledgerDays, closing, Visibility, saving, view>>

RankKept == <<headStart, campaigns, today, ledgerDays, withdrawn, closing>>

\* The form holds all settings: what is not meant to change is sent as it was shown.
AskSettings(h) ==
    /\ Begin(h, "readSettings")
    /\ \E u \in Ranked \ withdrawn, new \in BOOLEAN :
          saving' = [saving EXCEPT ![h] = [user |-> u, old |-> FALSE, new |-> new]]
    /\ UNCHANGED <<RankKept, Visibility, view>>

FindSettings(h) ==
    /\ at[h] = "readSettings"
    /\ saving' = [saving EXCEPT ![h].old = hides[saving[h].user]]
    /\ Continue(h, IF saving'[h].old # saving[h].new THEN "journal" ELSE "update")
    /\ UNCHANGED <<RankKept, Visibility, view>>

Wishing(u, new) == [wishes EXCEPT ![u] = [d \in Days |-> IF d < today THEN @[d] ELSE new]]

Journal(h) ==
    /\ at[h] = "journal"
    /\ changes' = Append(changes, [user |-> saving[h].user, visible |-> ~saving[h].new, at |-> today])
    /\ wishes' = IF saving[h].new THEN wishes ELSE Wishing(saving[h].user, FALSE)
    /\ Continue(h, "update")
    /\ UNCHANGED <<RankKept, hides, saving, view>>

\* Whose wish counts for the pages that have not read it yet.
Told(u, new) ==
    view' = [g \in Handlers |->
               IF at[g] \in {"hidden", "rows", "mine", "names"}
               THEN [view[g] EXCEPT
                       !.out = IF ~new THEN @ \ {u} ELSE IF at[g] \in {"hidden", "rows"} THEN @ \cup {u} ELSE @,
                       !.shy = IF new THEN @ \cup {u} ELSE @ \ {u}]
               ELSE view[g]]

UpdateSettings(h) ==
    /\ at[h] = "update"
    /\ LET u == saving[h].user
       IN  /\ hides' = [hides EXCEPT ![u] = saving[h].new]
           /\ wishes' = Wishing(u, saving[h].new)
           /\ Told(u, saving[h].new)
    /\ saving' = [saving EXCEPT ![h] = NoSaving]
    /\ End(h)
    /\ UNCHANGED <<RankKept, changes>>

-----------------------------------------------------------------------------
(* A page *)

Sets(h, v) == view' = [view EXCEPT ![h] = v]
Reading == <<RankKept, Visibility, saving>>

\* The page never sends templates, and an empty parameter reads as template 0.
SentTemplates(q) == IF q.templates = {} THEN {"0"} ELSE q.templates

AskRanking(h) ==
    /\ Begin(h, "hidden")
    /\ \E q \in {r \in Questions : r.viewer \notin withdrawn} :
          LET type == q.type
              category == CorrectedCategory(q.category, type)
              period == CorrectedPeriod(q.category, q.period)
              range == IF category = "event_choco_count"
                       THEN EventChocoPeriodRange(period) ELSE PeriodRange(period)
          IN  Sets(h, [NoView EXCEPT !.category = category, !.type = type, !.period = period,
                          !.viewer = q.viewer, !.templates = SentTemplates(q), !.day = today,
                          !.from = range.from, !.to = range.to,
                          !.out = {u \in Ranked : wishes[u][today]} \cup withdrawn,
                          !.shy = {u \in Ranked : wishes[u][today]}])
    /\ UNCHANGED Reading

Deadline(v) ==
    IF v.category = "limited_event"
    THEN LET cs == LimitedEventCampaign(v.period)
         IN  IF cs = {} THEN NoDeadline ELSE LimitedEventRankingDeadline(CHOOSE c \in cs : TRUE)
    ELSE CreditsRankingDeadline(v.period)

\* Only casts are held to the deadline.
ReadHidden(h) ==
    /\ at[h] = "hidden"
    /\ Sets(h, [view[h] EXCEPT !.hidden = IF view[h].type = "cast" THEN
                                          HiddenAtDeadline(Deadline(view[h])) ELSE {}])
    /\ Continue(h, "rows")
    /\ UNCHANGED Reading

\* A query that fails hides nobody.
HistoryFails(h) ==
    /\ at[h] = "hidden" /\ Refused(h, "rows")
    /\ UNCHANGED <<Reading, view>>

Public(v) == {u \in Ranked : ~hides[u]} \ v.hidden
Own(v) == {u \in Ranked : ~hides[u]} \cup {v.viewer}

\* Counts are numbered once, the viewer among the others.
ReadRankingRows(h) ==
    /\ at[h] = "rows"
    /\ LET v == view[h]
           us == Scoring(v, Public(v))
           choco == v.category = "event_choco_count"
       IN  /\ Sets(h, [v EXCEPT
                !.rows = [u \in {w \in us : Position(v, w, us) <= Top} |->
                             [position |-> Position(v, u, us), score |-> ScoreOn(v, u)]],
                !.mine = IF choco /\ v.viewer \in us THEN Position(v, v.viewer, us) ELSE 0])
           /\ Continue(h, IF choco THEN "names" ELSE "mine")
    /\ UNCHANGED Reading

\* The viewer is never hidden from themselves, nor are those hidden at the deadline.
ReadMyRanking(h) ==
    /\ at[h] = "mine"
    /\ LET v == view[h]
           us == Scoring(v, Own(v))
       IN  Sets(h, [v EXCEPT !.mine = IF v.viewer \in us THEN Position(v, v.viewer, us) ELSE 0])
    /\ Continue(h, "names")
    /\ UNCHANGED Reading

\* The others' names: guests do not see guests.
Permitted(v, u) ==
    \/ u = v.viewer
    \/ ~hides[u] /\ (v.viewer \in RankedCasts \/ u \in RankedCasts)

ReadNames(h) ==
    /\ at[h] = "names"
    /\ Sets(h, [view[h] EXCEPT !.named = {u \in DOMAIN view[h].rows : Permitted(view[h], u)}])
    /\ Continue(h, "answered")
    /\ UNCHANGED Reading

LeavePage(h) ==
    /\ at[h] = "answered"
    /\ Sets(h, NoView)
    /\ End(h)
    /\ UNCHANGED Reading

RankingDie(h) ==
    /\ saving[h] # NoSaving /\ Die(h)
    /\ saving' = [saving EXCEPT ![h] = NoSaving]
    /\ UNCHANGED <<RankKept, Visibility, view>>

RankingsNext ==
    \/ DayPasses
    \/ \E h \in Handlers :
          \/ EarnSomething(h) \/ WithdrawMember(h)
          \/ AskSettings(h) \/ FindSettings(h) \/ Journal(h) \/ UpdateSettings(h)
          \/ AskRanking(h) \/ ReadHidden(h) \/ HistoryFails(h) \/ ReadRankingRows(h)
          \/ ReadMyRanking(h) \/ ReadNames(h) \/ LeavePage(h) \/ RankingDie(h)

RankingsSpec == RankingsInit /\ [][RankingsNext]_<<handlerVars, rankVars>>

-----------------------------------------------------------------------------
(* Properties *)

\* Every page that is shown, in what the member sees and in the numbers.
\* rankings.ts:18: "it is their visibility at the deadline that counts": a cast who was
\* hidden when the deadline passed is out of the month's list, whatever they change later.
\* Nobody is listed who was told to be hidden, or had left, before the page was asked
\* for, nor named who was told so before the names were read, even while settings are
\* being saved.  rankings.ts:19: "A user always sees their own position": a viewer with a
\* score has one, and it is the one of the list unless somebody is hidden by the deadline.
\* What the list of the last month says is what everybody had when that month ended.
RankedFairly ==
    \A h \in Handlers : at[h] = "answered" =>
        LET v == view[h]
            listed == DOMAIN v.rows
            calm == ~overlapped /\ faults = 0 /\ v.day = today
            earned == v.category \in {"credits", "meeting", "sticker", "patron"}
        IN  /\ listed \cap v.out = {} /\ v.named \cap v.shy \subseteq {v.viewer}
            /\ v.type = "customer" /\ v.viewer \in RankedGuests => v.named \subseteq {v.viewer}
            /\ calm /\ earned /\ v.type = "cast" /\ v.period \in {"this_month", "prev_month"} =>
                  \A u \in listed : LET d == CreditsRankingDeadline(v.period)
                                    IN  d >= 0 /\ d <= MaxDay => ~wishes[u][d]
            /\ calm /\ earned /\ v.type = TypeOfMember(v.viewer) =>
                  /\ v.mine > 0 <=> ScoreOn(v, v.viewer) > 0
                  /\ v.viewer \in listed => v.mine >= v.rows[v.viewer].position
                  /\ v.viewer \in listed /\ v.hidden = {} => v.mine = v.rows[v.viewer].position
            /\ calm /\ v.category = "credits" /\ v.period = "prev_month" /\ today >= MonthDays =>
                  /\ \A u \in listed : v.rows[u].score = closing[u]
                  /\ Top >= Cardinality(MembersOf(v.type)) =>
                        {u \in MembersOf(v.type) : closing[u] > 0} \ (v.out \cup v.hidden) \subseteq listed
=============================================================================
