------------------------------- MODULE Entries -------------------------------
(***************************************************************************)
(* Casts enter group orders, alone or with friends, and are selected       *)
(* (services/meetings/selection.ts, cast-score.ts and model.ts).  Here the *)
(* orders are several, and a cast can be in one at a time; what happens to *)
(* the single order, its money and its status is in GroupOrder.            *)
(*                                                                         *)
(* Casts that enter together are a team: their rows carry the leader's id  *)
(* and they are taken or left as a whole.  A row is used again when a cast *)
(* that has left comes back.                                               *)
(***************************************************************************)
EXTENDS RequestHandlers, FiniteSetsExt

CONSTANTS
    EntryOrders,
    EntryCasts,
    PlannedTimes, \* start and end the orders may have
    Blocking,     \* cast_attendance_blocking_period
    Needed,       \* Needed[o]: needed_person_count
    Score         \* Score[c]: what the scores of cast c add up to

ASSUME EntryAssumption ==
    /\ PlannedTimes \subseteq [EntryOrders -> [from : Nat, to : Nat]]
    /\ \A t \in PlannedTimes : \A o \in EntryOrders : t[o].from < t[o].to
    /\ Blocking \in Nat /\ Needed \in [EntryOrders -> Nat \ {0}]
    /\ IsFiniteSet(EntryCasts) /\ "nobody" \notin EntryCasts /\ Score \in [EntryCasts -> Int]

VARIABLES
    times,     \* planned_start_time and planned_end_time of the orders
    state,     \* state[o]: the order is open, matched or failed
    role,      \* role[o][c]: role of the cast attendance; "none" without a row
    leader,    \* leader[o][c]: leader_id of that row
    raced,     \* casts that were entered by two requests at once
    recalled,  \* casts that were selected after they had left
    selection, \* selection[o]: whom the matching chose from and their leaders, how many, whom
    entry      \* entry[h]: the order h enters, and the casts it enters

entryVars == <<times, state, role, leader, raced, recalled, selection, entry>>

NoEntry == [order |-> "none", lead |-> "nobody", casts |-> {}]
NoSelection == [pool |-> {}, leaders |-> [c \in EntryCasts |-> "nobody"], count |-> 0, chosen |-> {}]

EntriesIdle ==
    /\ state = [o \in EntryOrders |-> "open"]
    /\ role = [o \in EntryOrders |-> [c \in EntryCasts |-> "none"]]
    /\ leader = [o \in EntryOrders |-> [c \in EntryCasts |-> "nobody"]]
    /\ raced = {} /\ recalled = {}
    /\ selection = [o \in EntryOrders |-> NoSelection]
    /\ entry = [h \in Handlers |-> NoEntry]

EntriesInit == HandlersInit /\ times \in PlannedTimes /\ EntriesIdle

-----------------------------------------------------------------------------
(* Helpers *)

Enters(h, e) == entry' = [entry EXCEPT ![h] = e]

EntryDone(h) == End(h) /\ Enters(h, NoEntry)

In(o) == {c \in EntryCasts : role[o][c] \in {"unconfirmed", "attending"}}
Pending(o) == {c \in EntryCasts : role[o][c] = "unconfirmed"}
Decided(o) == {c \in EntryCasts : role[o][c] = "attending"}

RowsSame == UNCHANGED <<state, role, leader, selection>>

-----------------------------------------------------------------------------
(* Entering: wishToAttendToMeeting *)

\* A cast and friends of hers; not more than the order needs.
WishToAttend(h) ==
    /\ Begin(h, "conflicts")
    /\ \E o \in EntryOrders, team \in SUBSET EntryCasts \ {{}} :
          /\ state[o] = "open" /\ Cardinality(team) <= Needed[o]
          /\ \E c \in team : Enters(h, [order |-> o, lead |-> c, casts |-> team])
          /\ raced' = raced \cup UNION {entry[g].casts \cap team : g \in Handlers}
    /\ RowsSame /\ UNCHANGED <<times, recalled>>

\* Mutant of Parallel: only where the other order starts is looked at.
ParallelStart(a, b) ==
    times[b].from >= times[a].from /\ times[b].from <= times[a].to + Blocking

\* Order b starts or ends in the time that order a blocks (parallelAttendances).
Parallel(a, b) ==
    \/ times[b].from >= times[a].from /\ times[b].from <= times[a].to + Blocking
    \/ times[b].to >= times[a].from /\ times[b].to <= times[a].to + Blocking

\* prepareAttendance: nobody may be in a parallel order.
CheckConflicts(h) ==
    /\ at[h] = "conflicts"
    /\ IF \E c \in entry[h].casts, o \in EntryOrders \ {entry[h].order} :
             c \in In(o) /\ state[o] \in {"open", "matched"} /\ Parallel(entry[h].order, o)
       THEN EntryDone(h)
       ELSE Continue(h, "rows") /\ UNCHANGED entry
    /\ RowsSame /\ UNCHANGED <<times, raced, recalled>>

\* A cast that is in already cannot get a second row.  Friends get the leader's
\* id and so does the leader; a row that is used again keeps the one it has.
PrepareAttendances(h) ==
    /\ at[h] = "rows"
    /\ LET e == entry[h]
           o == e.order
       IN  IF e.casts \cap In(o) # {}
           THEN RowsSame
           ELSE /\ role' = [role EXCEPT ![o] = [c \in EntryCasts |->
                       IF c \in e.casts THEN "unconfirmed" ELSE role[o][c]]]
                /\ leader' = [leader EXCEPT ![o] = [c \in EntryCasts |->
                       IF c \in e.casts /\ e.casts # {e.lead} THEN e.lead ELSE leader[o][c]]]
                /\ UNCHANGED <<state, selection>>
    /\ EntryDone(h)
    /\ UNCHANGED <<times, raced, recalled>>

\* wish_to_not_attend: as long as enough others are in.
WishToNotAttend(h) ==
    /\ Begin(h, "idle")
    /\ \E o \in EntryOrders : \E c \in In(o) :
          /\ Cardinality(In(o)) > Needed[o]
          /\ role' = [role EXCEPT ![o][c] = "out"]
    /\ UNCHANGED <<times, state, leader, raced, recalled, selection, entry>>

-----------------------------------------------------------------------------
(* Selecting *)

Team(o, c) == IF leader[o][c] = "nobody" THEN {c}
              ELSE {d \in EntryCasts : leader[o][d] = leader[o][c]}

\* The guest takes a cast and her whole team, also members who have left; those
\* who attend already count twice.
SelectCast(h) ==
    /\ Begin(h, "idle")
    /\ \E o \in EntryOrders : \E c \in Pending(o) :
          /\ state[o] = "open"
          /\ Cardinality(Team(o, c)) = 1 \/ Cardinality(Team(o, c)) + Cardinality(Decided(o)) <= Needed[o]
          /\ role' = [role EXCEPT ![o] = [d \in EntryCasts |->
                          IF d \in Team(o, c) THEN "attending" ELSE role[o][d]]]
          /\ recalled' = recalled \cup {d \in Team(o, c) : role[o][d] = "out"}
    /\ UNCHANGED <<times, state, leader, raced, selection, entry>>

\* Heads of the teams in a pool: leaders, and casts that are alone.
Heads(o, pool) == {c \in pool : leader[o][c] \in {"nobody", c}}

Led(o, pool, heads) == {c \in pool : c \in heads \/ leader[o][c] \in heads}

TotalScore(S) == MapThenSumSet(LAMBDA c : Score[c], S)

\* Sets of whole teams that fill n places.
Combinations(o, pool, n) ==
    {S \in {Led(o, pool, heads) : heads \in SUBSET Heads(o, pool)} : Cardinality(S) = n}

Best(options) == {S \in options : \A T \in options : TotalScore(T) <= TotalScore(S)}

\* finalCastIds: the best of them.  When no combination fits it is nobody, or
\* everybody if no team is in play.
FinalCastIds(o, pool, n) ==
    IF Combinations(o, pool, n) # {} THEN Best(Combinations(o, pool, n))
    ELSE IF Heads(o, pool) = pool THEN {pool} ELSE {{}}

\* Teams that are too large for the places left are dropped.
Fitting(o, n) ==
    {c \in Pending(o) : leader[o][c] = "nobody" \/ Cardinality(Team(o, c) \cap In(o)) <= n}

\* autoSelectCast: the places left are filled, everybody else is out.
AutoSelectCast(h) ==
    /\ Begin(h, "idle")
    /\ \E o \in EntryOrders :
          LET n    == Needed[o] - Cardinality(Decided(o))
              pool == IF n = Cardinality(Pending(o)) THEN Pending(o) ELSE Fitting(o, n)
              options == IF n = 0 THEN {{}}
                         ELSE IF n = Cardinality(Pending(o)) THEN {pool}
                         ELSE FinalCastIds(o, pool, n)
          IN  /\ state[o] = "open"
              /\ IF Cardinality(In(o)) < Needed[o] \/ n < 0
                 THEN /\ state' = [state EXCEPT ![o] = "failed"]
                      /\ UNCHANGED <<role, selection>>
                 ELSE \E chosen \in options :
                      /\ state' = [state EXCEPT ![o] = "matched"]
                      /\ selection' = [selection EXCEPT ![o] =
                            [pool |-> pool, leaders |-> leader[o], count |-> n, chosen |-> chosen]]
                      /\ role' = [role EXCEPT ![o] = [c \in EntryCasts |->
                            IF c \in chosen THEN "attending"
                            ELSE IF c \in Pending(o) THEN "out" ELSE role[o][c]]]
    /\ UNCHANGED <<times, leader, raced, recalled, entry>>

EntryDie(h) ==
    /\ Die(h) /\ Enters(h, NoEntry)
    /\ RowsSame /\ UNCHANGED <<times, raced, recalled>>

-----------------------------------------------------------------------------
EntriesNext ==
    \E h \in Handlers :
        \/ WishToAttend(h) \/ CheckConflicts(h) \/ PrepareAttendances(h) \/ WishToNotAttend(h)
        \/ SelectCast(h) \/ AutoSelectCast(h) \/ EntryDie(h)

EntriesSpec == EntriesInit /\ [][EntriesNext]_<<handlerVars, entryVars>>

-----------------------------------------------------------------------------
(* Properties *)

Overlap(a, b) == times[a].from <= times[b].to /\ times[b].from <= times[a].to

Contains(a, b) == times[a].from < times[b].from /\ times[b].to + Blocking < times[a].to

\* model.ts:297-324: nobody is in two orders whose times overlap, unless one lies
\* inside the other with its blocked time, two requests entered her at once, or a
\* guest selected her team after she had left: these three are not looked at.
NotDoubleBooked ==
    \A a, b \in EntryOrders : \A c \in EntryCasts \ (raced \cup recalled) :
        a # b /\ c \in In(a) /\ c \in In(b)
        /\ state[a] # "failed" /\ state[b] # "failed" /\ Overlap(a, b)
            => Contains(a, b) \/ Contains(b, a)

SameTeam(s, c, d) == s.leaders[c] # "nobody" /\ s.leaders[c] = s.leaders[d]

\* Whole teams among those a matching chose from that fill the places; a cast
\* whose leader is gone, or leads no more, belongs to none.
WholeTeams(s) ==
    {S \in SUBSET s.pool :
        /\ Cardinality(S) = s.count
        /\ \A c \in S : LET l == s.leaders[c]
                       IN  l = "nobody" \/ (l \in S /\ s.leaders[l] = l)
        /\ \A c \in S, d \in s.pool : SameTeam(s, c, d) => d \in S}

\* cast-score.ts:5-8, 69-100: a matching never takes a part of a team, it fills the
\* places if whole teams can fill them, and no other way to fill them scores more.
BestTeamsChosen ==
    \A o \in EntryOrders : state[o] = "matched" =>
        LET s == selection[o]
        IN  /\ \A c \in s.chosen, d \in s.pool : SameTeam(s, c, d) => d \in s.chosen
            /\ \A S \in WholeTeams(s) :
                  Cardinality(s.chosen) = s.count /\ TotalScore(S) <= TotalScore(s.chosen)

\* What an order may rely on once its casts are chosen: every one of them is free,
\* and the teams that came are whole and the best there were.
EntriesHold == NotDoubleBooked /\ BestTeamsChosen
=============================================================================
