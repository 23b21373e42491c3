---------------------------- MODULE ProfileSearch ----------------------------
(***************************************************************************)
(* Searching members and looking at them (services/profile-search.ts,      *)
(* api/profiles-shared.ts, the routes under api/profiles, SearchPage.tsx). *)
(*                                                                         *)
(* One member searches, the others are found.  What a member fills in is   *)
(* fixed; logging in, hiding, withdrawing and blocking are not.  A profile *)
(* is what is read to decide whether it may be seen.  Preferences and      *)
(* attributes are traits, and highlightings, which operators choose, are   *)
(* left out.                                                               *)
(***************************************************************************)
EXTENDS RequestHandlers, Functions, Sequences

CONSTANTS
    Found,      \* the members who may be found
    Facts,      \* Facts[u]: [type, age, height, fee, presence, newcomer, traits, alerts]
    Viewers,    \* the user types of who may search
    Queries,    \* bound: the filters that are set
    PageSize,
    TopFee,     \* the upper limit that stands for none
    MaxFootDay  \* bound: the last day

ASSUME SearchAssumption ==
    /\ IsFiniteSet(Handlers) /\ IsFiniteSet(Found)
    /\ \A u \in Found : Facts[u].alerts \in BOOLEAN
    /\ PageSize \in Nat \ {0} /\ TopFee \in Nat /\ MaxFootDay \in Nat

VARIABLES
    viewer,      \* the user type of the one who searches
    visits,      \* the others, who logged in last first
    unlisted,    \* whose profile is not public
    quitters,    \* discarded members
    refusers,    \* who blocks the viewer
    favorites,   \* the viewer's
    footprints,  \* the viewer's: [of, day]
    footDay,
    footAlerts,  \* LINE messages about footprints, by member
    turns,       \* counts what may change a search result
    cache,       \* the answers the screen has kept, by filters and page
    looking,     \* the filters and the page it is at
    clicked,     \* the star that was clicked last, and where
    intruded,    \* a profile was shown that one reason had closed since before it was asked for
    search       \* search[h]: what handler h looks for, and has read

searchVars ==
    <<viewer, visits, unlisted, quitters, refusers, favorites, footprints, footDay, footAlerts,
      turns, cache, looking, clicked, intruded, search>>

NoFilters == [k \in {} |-> 0]
NoClick == [key |-> <<NoFilters, 0>>, of |-> "nobody"]
NoSearch == [key |-> <<NoFilters, 0>>, of |-> "nobody", starred |-> FALSE, ids |-> {},
             total |-> 0, stars |-> {}, stamp |-> 0, shut |-> {}]
NoPages == [key \in {} |-> 0]

SearchIdle ==
    /\ visits = CHOOSE s \in [1..Cardinality(Found) -> Found] : IsInjective(s)
    /\ unlisted = {} /\ quitters = {} /\ refusers = {} /\ favorites = {}
    /\ footprints = <<>> /\ footDay = 0 /\ footAlerts = [u \in Found |-> 0]
    /\ turns = 0 /\ cache = NoPages /\ looking = NoSearch.key /\ clicked = NoClick
    /\ intruded = FALSE
    /\ search = [h \in Handlers |-> NoSearch]

SearchInit == HandlersInit /\ viewer \in Viewers /\ SearchIdle

-----------------------------------------------------------------------------
(* Who is found *)

\* profileSearchConditions: limits at the ends of the scale count as none, the fees are
\* strict, a variance of 0 is 5, and a key nobody knows is ignored.
Condition(u, k, q) ==
    LET f == Facts[u]
        v == q[k]
        variance == IF "height_variance" \in DOMAIN q /\ q.height_variance # 0
                    THEN q.height_variance ELSE 5
    IN  CASE k = "favorites_only"                 -> u \in favorites
          [] k = "user_type"                      -> f.type = v
          [] k = "height"                         -> f.height \in (v - variance)..(v + variance)
          [] k = "min_age"                        -> v > 20 => f.age >= v
          [] k = "max_age"                        -> v < 50 => f.age <= v
          [] k = "status"                         -> f.presence = v
          [] k = "order_fee_per_time_lower_limit" -> v > 0 => f.fee > v
          [] k = "order_fee_per_time_upper_limit" -> v < TopFee => f.fee < v
          [] k = "new_cast"                       -> f.newcomer
          [] k \in {"height_variance", "unknown"} -> TRUE
          [] OTHER                                -> <<k, v>> \in f.traits

SearchableUserTypes ==
    CASE viewer = "cast"                    -> {"customer", "inviter"}
      [] viewer \in {"customer", "inviter"} -> {"cast"}
      [] OTHER                              -> {Facts[u].type : u \in Found}

Visible(u) == u \notin quitters \cup unlisted

FoundBy(q) ==
    {u \in Found : /\ Visible(u) /\ Facts[u].type \in SearchableUserTypes
                   /\ \A k \in DOMAIN q : Condition(u, k, q)}

Skipped(page) == (page - 1) * PageSize

\* Those of s who come before u: ORDER BY last_login DESC.
LoggedInLater(s, u) ==
    {v \in s \ {u} : \E i, j \in DOMAIN visits : i < j /\ visits[i] = v /\ visits[j] = u}

\* LIMIT and OFFSET
PageOf(s, page) ==
    {u \in s : Cardinality(LoggedInLater(s, u)) \in Skipped(page)..(Skipped(page) + PageSize - 1)}
TotalPages(total) == IF total = 0 THEN 1 ELSE (total + PageSize - 1) \div PageSize

\* publicProfileAccess
MaySee(u) ==
    CASE viewer \in {"customer", "inviter"} -> Facts[u].type = "cast"
      [] viewer = "cast"                    -> Facts[u].type # "cast"
      [] OTHER                              -> TRUE

-----------------------------------------------------------------------------
(* Searching *)

Looks(h, s) == search' = [search EXCEPT ![h] = s]
SearchDone(h) == End(h) /\ Looks(h, NoSearch)

OthersSame    == UNCHANGED <<viewer, visits, unlisted, quitters, refusers>>
FavoritesSame == UNCHANGED <<favorites, turns>>
TracksSame    == UNCHANGED <<footprints, footDay, footAlerts, intruded>>
ScreenSame    == UNCHANGED <<cache, looking, clicked>>

\* Setting a filter goes back to the first page; the pages are those of the answer.
Reachable(q, page) ==
    page = 1 \/ \E key \in DOMAIN cache :
                    key = looking /\ key[1] = q /\ page <= TotalPages(cache[key].total)

Pages == 1..TotalPages(Cardinality(Found))

\* An answer that is less than ten seconds old is not asked for again.
ShowKept ==
    /\ looking' \in {key \in DOMAIN cache : Reachable(key[1], key[2])}
    /\ UNCHANGED <<handlerVars, cache, clicked, search>>
    /\ OthersSame /\ FavoritesSame /\ TracksSame

AskSearch(h) ==
    /\ Begin(h, "find")
    /\ \E q \in Queries, page \in Pages :
          /\ Reachable(q, page)
          /\ looking' = <<q, page>>
          /\ Looks(h, [NoSearch EXCEPT !.key = <<q, page>>, !.stamp = turns])
    /\ UNCHANGED <<cache, clicked>>
    /\ OthersSame /\ FavoritesSame /\ TracksSame

FindIds(h) ==
    /\ at[h] = "find" /\ Continue(h, "count")
    /\ LET q == search[h].key[1]
       IN  Looks(h, [search[h] EXCEPT
               !.stamp = turns,
               !.ids = PageOf(FoundBy(q), search[h].key[2])])
    /\ ScreenSame /\ OthersSame /\ FavoritesSame /\ TracksSame

CountFound(h) ==
    /\ at[h] = "count" /\ Continue(h, "stars")
    /\ Looks(h, [search[h] EXCEPT !.total = Cardinality(FoundBy(search[h].key[1]))])
    /\ ScreenSame /\ OthersSame /\ FavoritesSame /\ TracksSame

Keep(h, s, fresh, levels) ==
    LET page == [items |-> s.ids, total |-> s.total, stars |-> s.stars, fresh |-> fresh,
                 levels |-> levels, stamp |-> IF turns = s.stamp THEN turns ELSE -1]
    IN  /\ cache' = [key \in DOMAIN cache \cup {s.key} |-> IF key = s.key THEN page ELSE cache[key]]
        /\ SearchDone(h)

\* Members who have withdrawn since the search are still loaded.
LoadFavorites(h) ==
    /\ at[h] = "stars"
    /\ LET s == [search[h] EXCEPT !.stars = favorites \cap search[h].ids]
       IN  IF DOMAIN s.key[1] = {} THEN Continue(h, "extras") /\ Looks(h, s) /\ UNCHANGED cache
           ELSE Keep(h, s, {}, {})
    /\ UNCHANGED <<looking, clicked>> /\ OthersSame /\ FavoritesSame /\ TracksSame

\* Without filters there are the newcomers, starred only if they are on the page as well,
\* and how many members each level has, counting those who are not public.
LoadNewUsers(h) ==
    /\ at[h] = "extras"
    /\ LET guest == viewer # "cast"
           fresh == {u \in Found : /\ Visible(u) /\ Facts[u].newcomer
                                   /\ Facts[u].type = IF guest THEN "cast" ELSE "customer"}
           members(t) == {u \in Found \ quitters : t \in Facts[u].traits}
           levels == {t \in UNION {Facts[u].traits : u \in Found} : guest /\ t[1] = "cast_level_id"}
       IN  Keep(h, search[h], fresh, {<<t, Cardinality(members(t))>> : t \in levels})
    /\ UNCHANGED <<looking, clicked>> /\ OthersSame /\ FavoritesSame /\ TracksSame

-----------------------------------------------------------------------------
(* Stars *)

ClickStar(h) ==
    /\ looking \in DOMAIN cache
    /\ \E u \in cache[looking].items :
          /\ Begin(h, "favorite")
          /\ Looks(h, [NoSearch EXCEPT !.key = looking, !.of = u])
          /\ clicked' = [key |-> looking, of |-> u]
    /\ UNCHANGED <<cache, looking>> /\ OthersSame /\ FavoritesSame /\ TracksSame

FindFavorite(h) ==
    /\ at[h] = "favorite" /\ Continue(h, "toggle")
    /\ Looks(h, [search[h] EXCEPT !.starred = search[h].of \in favorites])
    /\ ScreenSame /\ OthersSame /\ FavoritesSame /\ TracksSame

\* A row that is there already, or gone already, is an error; otherwise the page that was
\* clicked on is asked for again.
ToggleFavorite(h) ==
    /\ at[h] = "toggle"
    /\ LET s == search[h]
       IN  IF s.starred # (s.of \in favorites) THEN SearchDone(h) /\ FavoritesSame
           ELSE /\ favorites' = IF s.starred THEN favorites \ {s.of} ELSE favorites \cup {s.of}
                /\ turns' = turns + 1
                /\ Continue(h, "find") /\ Looks(h, [NoSearch EXCEPT !.key = s.key])
    /\ ScreenSame /\ OthersSame /\ TracksSame

-----------------------------------------------------------------------------
(* Profiles and footprints *)

\* What closes a profile, each looked up on its own.
Closed == (quitters \cup unlisted) \X {"hidden"} \cup refusers \X {"blocked"}

OpenProfile(h) ==
    /\ Begin(h, "profile")
    /\ \E u \in Found : Looks(h, [NoSearch EXCEPT !.of = u, !.shut = Closed])
    /\ ScreenSame /\ OthersSame /\ FavoritesSame /\ TracksSame

BuildProfile(h) ==
    /\ at[h] = "profile"
    /\ IF Visible(search[h].of) /\ MaySee(search[h].of)
       THEN Continue(h, "blocking") /\ UNCHANGED search ELSE SearchDone(h)
    /\ ScreenSame /\ OthersSame /\ FavoritesSame /\ TracksSame

FindBlocking(h) ==
    /\ at[h] = "blocking"
    /\ IF search[h].of \in refusers THEN SearchDone(h)
       ELSE Continue(h, "recent") /\ UNCHANGED search
    /\ ScreenSame /\ OthersSame /\ FavoritesSame /\ TracksSame

Show(h) ==
    /\ intruded' = (intruded \/ \E c \in search[h].shut : c[1] = search[h].of)
    /\ SearchDone(h)

\* At most one footprint in 24 hours.
FindRecent(h) ==
    /\ at[h] = "recent"
    /\ IF \E i \in DOMAIN footprints : footprints[i] = [of |-> search[h].of, day |-> footDay]
       THEN Show(h) ELSE Continue(h, "step") /\ UNCHANGED <<intruded, search>>
    /\ UNCHANGED <<footprints, footDay, footAlerts>> /\ ScreenSame /\ OthersSame /\ FavoritesSame

MakeFootprint(h) ==
    /\ at[h] = "step"
    /\ footprints' = Append(footprints, [of |-> search[h].of, day |-> footDay])
    /\ IF Facts[search[h].of].alerts
       THEN Continue(h, "tell") /\ UNCHANGED <<intruded, search>> ELSE Show(h)
    /\ UNCHANGED <<footDay, footAlerts>> /\ ScreenSame /\ OthersSame /\ FavoritesSame

AlertFootprint(h) ==
    /\ at[h] = "tell"
    /\ footAlerts' = [footAlerts EXCEPT ![search[h].of] = @ + 1]
    /\ Show(h)
    /\ UNCHANGED <<footprints, footDay>> /\ ScreenSame /\ OthersSame /\ FavoritesSame

-----------------------------------------------------------------------------
(* The others *)

Change(h, opened) ==
    /\ Begin(h, "idle")
    /\ turns' = turns + 1
    /\ search' = [g \in Handlers |-> [search[g] EXCEPT !.shut = @ \ opened]]
    /\ UNCHANGED <<viewer, favorites>> /\ ScreenSame /\ TracksSame

LogInAgain(h) ==
    /\ \E u \in Found \ quitters : visits' = <<u>> \o SelectSeq(visits, LAMBDA v : v # u)
    /\ Change(h, {}) /\ UNCHANGED <<unlisted, quitters, refusers>>

\* An operator hides a profile, and shows it again, ...
TogglePublic(h) ==
    /\ \E u \in Found :
          /\ unlisted' = IF u \in unlisted THEN unlisted \ {u} ELSE unlisted \cup {u}
          /\ Change(h, ({u} \ quitters) \X {"hidden"})
    /\ UNCHANGED <<visits, quitters, refusers>>

\* ... a member blocks the one who searches, and unblocks it, ...
BlockViewer(h) ==
    /\ \E u \in Found :
          /\ refusers' = IF u \in refusers THEN refusers \ {u} ELSE refusers \cup {u}
          /\ Change(h, {<<u, "blocked">>})
    /\ UNCHANGED <<visits, unlisted, quitters>>

\* ... or withdraws.
Quit(h) ==
    /\ \E u \in Found \ quitters : quitters' = quitters \cup {u} /\ Change(h, {})
    /\ UNCHANGED <<visits, unlisted, refusers>>

FootDayEnds ==
    /\ footDay < MaxFootDay /\ footDay' = footDay + 1
    /\ UNCHANGED <<handlerVars, footprints, footAlerts, intruded, search>>
    /\ ScreenSame /\ OthersSame /\ FavoritesSame

SearchDie(h) ==
    /\ Die(h) /\ Looks(h, NoSearch)
    /\ ScreenSame /\ OthersSame /\ FavoritesSame /\ TracksSame

SearchNext ==
    \/ FootDayEnds \/ ShowKept
    \/ \E h \in Handlers :
          \/ AskSearch(h) \/ FindIds(h) \/ CountFound(h) \/ LoadFavorites(h)
          \/ LoadNewUsers(h) \/ ClickStar(h) \/ FindFavorite(h) \/ ToggleFavorite(h)
          \/ OpenProfile(h) \/ BuildProfile(h) \/ FindBlocking(h) \/ FindRecent(h)
          \/ MakeFootprint(h) \/ AlertFootprint(h)
          \/ LogInAgain(h) \/ TogglePublic(h) \/ BlockViewer(h) \/ Quit(h) \/ SearchDie(h)

SearchSpec == SearchInit /\ [][SearchNext]_<<handlerVars, searchVars>>

-----------------------------------------------------------------------------
(* Properties *)

KeptPages(q, stamp) == {key \in DOMAIN cache : key[1] = q /\ cache[key].stamp = stamp}
Items(keys) == UNION {cache[key].items : key \in keys}

\* Pages of a search that were read while nothing changed have nobody in common, and
\* together everybody who is found.
PagesFitTogether ==
    \A q \in Queries, stamp \in 0..turns :
        LET keys == KeptPages(q, stamp)
        IN  /\ \A a, b \in keys : a # b => Items({a}) \cap Items({b}) = {}
            /\ \A a \in keys : {key[2] : key \in keys} = 1..TotalPages(cache[a].total) =>
                    /\ Cardinality(Items(keys)) = cache[a].total
                    /\ stamp = turns => Items(keys) = FoundBy(q)

\* Left alone, a star that was clicked is shown as it is.
StarsShown ==
    /\ \A key \in DOMAIN cache : cache[key].stamp = turns =>
          cache[key].stars = favorites \cap cache[key].items
    /\ Undisturbed /\ clicked.key \in DOMAIN cache =>
          /\ clicked.of \in cache[clicked.key].stars => clicked.of \in favorites
          /\ clicked.of \in favorites \cap cache[clicked.key].items =>
                clicked.of \in cache[clicked.key].stars

\* One look at a time leaves one footprint in 24 hours, and is told of once to who wants it.
OneFootprintADay ==
    /\ ~overlapped => IsInjective(footprints)
    /\ \A u \in Found :
          LET steps == {i \in DOMAIN footprints : footprints[i].of = u}
          IN  /\ footAlerts[u] <= Cardinality(steps)
              /\ Undisturbed /\ Facts[u].alerts => footAlerts[u] = Cardinality(steps)

\* Who searches sees everybody there is, and nobody who does not want it (searchProfileIds,
\* GET /profiles/search, toggle_favorite, buildProfile, makeFootprint).
SearchTellsTruth == PagesFitTogether /\ StarsShown /\ OneFootprintADay /\ ~intruded
=============================================================================
