---------------------------- MODULE SettingsTables ----------------------------
(***************************************************************************)
(* The settings screens of the admin panel: one screen and four handlers   *)
(* for twenty tables (components/admin/CrudPage.tsx,                       *)
(* server/api/admin-crud.ts, the two-line routes of app/api/admin and the  *)
(* routes of the join rows).  Operators open a row out of the list they    *)
(* have loaded, and a save sends the whole form; join rows follow in a     *)
(* request of their own.  An operator does one thing at a time.  Values    *)
(* are Empty or small numbers; pages and unique names are left out.        *)
(***************************************************************************)
EXTENDS RequestHandlers

CONSTANTS
    SettingsNames,  \* bound: the tables operators work on
    Zones,          \* how far browsers are ahead of UTC
    LinkOptions,    \* what a row can be joined to
    MaxRows,        \* bound: rows of the table
    FieldsTouched,  \* bound: the fields operators change
    MaxTouched      \* bound: how many in one form

ASSUME TablesAssumption == Zones \subseteq Nat /\ MaxRows \in Nat /\ MaxTouched \in Nat

VARIABLES
    setting,  \* the table
    filled,   \* filled[i]: the row with id i, or NoRow
    joined,   \* joined[i]: its join rows
    nextId,
    zone,     \* the operators' browsers are this much ahead of UTC
    screen,   \* screen[p]: the list operator p has loaded, and the open form
    meant,    \* meant[i]: what operators last set each field of row i to, and its join rows
    stale     \* rows saved from a list that had become outdated

settingsVars == <<setting, filled, joined, nextId, zone, screen, meant, stale>>

-----------------------------------------------------------------------------
(* The descriptors: the fields of each table by type, as the screen has them *)

MenuTables == [
    business_areas    |-> [text |-> {"name", "color"}, number |-> {"sortIndex"}, flag |-> {"active"}],
    areas             |-> [choice |-> {"businessAreaId"}, text |-> {"name"},
                           number |-> {"sortIndex"}, flag |-> {"custom"}],
    cast_levels       |-> [text |-> {"name", "color"},
                           number |-> {"sortIndex", "minOrderFeePerTime", "maxOrderFeePerTime"}],
    cast_ranks        |-> [choice |-> {"businessAreaId"}, text |-> {"name"},
                           number |-> {"baseCostPerTime", "prolongCostPerTime"},
                           flag |-> {"proposedPrice", "fixedPrice"}],
    customer_levels   |-> [text |-> {"name", "color", "notes"},
                           number |-> {"sortIndex", "entrySpending", "holdSpending"},
                           choice |-> {"nextLevelId", "prevLevelId"}],
    sticker_templates |-> [text |-> {"name", "pictureUrl"}, choice |-> {"businessAreaId"},
                           number |-> {"price", "transactionPriceAbs", "transactionPricePermille"},
                           flag |-> {"active"}],
    event_campaigns   |-> [text |-> {"name", "limitedStickerTemplateIds"},
                           choice |-> {"stickerTemplateId"},
                           number |-> {"castRewardAmount", "castDailyLimit", "milestoneGiftThreshold"},
                           moment |-> {"startAt", "endAt"}],
    trophies          |-> [text |-> {"name", "imageUrl", "description"}, flag |-> {"active"}],
    banners           |-> [text |-> {"name", "bannerPictureUrl", "mainPictureUrl", "position"}],
    service_messages  |-> [text |-> {"title", "content"}, choice |-> {"businessAreaId"},
                           flag |-> {"forCast", "forCustomers", "forInviters", "active"}]]

RuleTables == [
    rewarding_rules    |-> [choice |-> {"category", "policy", "userType", "inviteeUserType"},
                            number |-> {"userId", "overrideId", "payout", "payoutPermille", "each",
                                        "limit", "minStars", "serviceFeeReset", "serviceFeeIncrease"}],
    highlightings      |-> [text |-> {"categoryName", "note"}, choice |-> {"userType"},
                            flag |-> {"active"}, number |-> {"sortIndex"}],
    meeting_places     |-> [choice |-> {"areaId"}, list |-> {"imageUrls"},
                            text |-> {"name", "url", "phone", "address", "description"},
                            flag |-> {"active"}, number |-> {"sortIndex"}],
    meeting_place_tags |-> [text |-> {"name"}, flag |-> {"active"}],
    roulettes          |-> [text |-> {"name"}, number |-> {"fee", "sortIndex"}, flag |-> {"active"}],
    roulette_entries   |-> [choice |-> {"rouletteId", "stickerTemplateId"}, text |-> {"displayChance"},
                            number |-> {"chancePermille"}, flag |-> {"highValue"}]]

SchemaTables == [
    attributes_schema          |-> [text |-> {"name", "category", "comment"}, list |-> {"valueList"},
                                    choice |-> {"validity", "attributeType"}, number |-> {"sortIndex"}],
    meeting_preferences_schema |-> [text |-> {"name", "category", "subcategory"},
                                    number |-> {"score", "sortIndex"},
                                    flag |-> {"active", "castPreference", "customerPreference",
                                              "mutuallyExclusive"}],
    company_informations       |-> [text |-> {"name", "zipCode", "address", "building", "phone",
                                              "personInCharge"}],
    admins                     |-> [text |-> {"loginName"}, choice |-> {"businessAreaId"},
                                    secret |-> {"password"}]]

FieldsByType ==
    [name \in SettingsNames |->
        IF name \in DOMAIN MenuTables THEN MenuTables[name]
        ELSE IF name \in DOMAIN RuleTables THEN RuleTables[name] ELSE SchemaTables[name]]

\* The fields whose schema takes null, in the first and in the second half of the list.
NullableMenus == [
    cast_levels       |-> {"minOrderFeePerTime", "maxOrderFeePerTime"},
    customer_levels   |-> {"entrySpending", "holdSpending", "nextLevelId", "prevLevelId", "notes"},
    sticker_templates |-> {"transactionPricePermille", "transactionPriceAbs"},
    event_campaigns   |-> {"limitedStickerTemplateIds"},
    trophies          |-> {"description"},
    banners           |-> {"name", "mainPictureUrl", "position"},
    service_messages  |-> {"title", "content", "businessAreaId"},
    rewarding_rules   |-> {"userType", "userId", "overrideId", "limit", "inviteeUserType"}]

NullableSchemas == [
    highlightings              |-> {"note", "sortIndex"},
    meeting_places             |-> {"url", "phone", "address", "description"},
    roulette_entries           |-> {"displayChance"},
    attributes_schema          |-> {"validity", "attributeType", "comment", "valueList", "sortIndex"},
    meeting_preferences_schema |-> {"name", "category", "subcategory", "sortIndex"},
    company_informations       |-> {"name", "zipCode", "address", "building", "phone", "personInCharge"},
    admins                     |-> {"businessAreaId"}]

Types == FieldsByType[setting]
Fields == UNION {Types[k] : k \in DOMAIN Types}
Of(k) == IF k \in DOMAIN Types THEN Types[k] ELSE {}

Nullable ==
    CASE setting \in DOMAIN NullableMenus -> NullableMenus[setting]
      [] setting \in DOMAIN NullableSchemas -> NullableSchemas[setting]
      [] OTHER -> {}

ReadOnlyOnEdit ==
    CASE setting = "attributes_schema" -> {"name", "category"}
      [] setting = "meeting_preferences_schema" -> {"name", "category", "subcategory"}
      [] OTHER -> {}

HasLinks == setting \in {"cast_ranks", "meeting_places", "roulettes"}
Creatable == setting # "company_informations"
Deletable == setting \notin {"attributes_schema", "company_informations"}

-----------------------------------------------------------------------------
(* Rows and forms *)

Empty == 99
NoRow == [f \in {} |-> Empty]
RowIds == 1..MaxRows
NewRow == 0
NoForm == [id |-> NewRow, row |-> NewRow, on |-> FALSE, busy |-> FALSE, fields |-> NoRow, linked |-> {}, touched |-> {}]

\* Rows as they may have been written: what can be empty is, or nothing is.
Opened(full) ==
    [f \in Fields |->
        CASE f \in Of("flag") -> 0
          [] f = "startAt" -> 4
          [] f = "endAt" -> 6
          [] f \in Nullable \cup Of("list") /\ ~full -> Empty
          [] OTHER -> 1]

TablesIdle ==
    /\ filled = [i \in RowIds |-> IF i = 1 THEN Opened(TRUE) ELSE IF i = 2 THEN Opened(FALSE) ELSE NoRow]
    /\ joined = [i \in RowIds |-> {}]
    /\ nextId = 3
    /\ screen = [p \in Handlers |-> [rows |-> filled, links |-> joined, form |-> NoForm]]
    /\ meant = [i \in RowIds |-> [fields |-> filled[i], links |-> {}]]
    /\ stale = {}

\* The time zone is of importance for a table with moments only.
ZonesFor(name) == IF name = "event_campaigns" THEN Zones ELSE {0}

TablesInit == HandlersInit /\ setting \in SettingsNames /\ zone \in ZonesFor(setting) /\ TablesIdle


TableRows == <<filled, joined, nextId, meant, stale>>
Form(p) == screen[p].form
SetForm(p, w) == screen' = [screen EXCEPT ![p].form = w]

\* What a form shows of a row (of none yet): a moment by its digits in UTC, no password.
InForm(row) ==
    [f \in Fields |->
        CASE f \in Of("flag") -> IF row = NoRow THEN 1 ELSE row[f]
          [] f \in Of("secret") -> Empty
          [] OTHER -> IF row = NoRow THEN Empty ELSE row[f]]

\* What a form sends: a moment is read in the browser's time zone.
Body(w) ==
    [f \in {g \in Fields : /\ ~(g \in Of("secret") /\ w.fields[g] = Empty)
                           /\ ~(g \in ReadOnlyOnEdit /\ w.id # NewRow)} |->
        IF f \in Of("moment") /\ w.fields[f] # Empty THEN w.fields[f] - zone ELSE w.fields[f]]

\* An empty number or moment is coerced to zero; other fields have to take null.
Coerced(f, v) == IF v = Empty /\ f \in Of("number") \cup Of("moment") /\ f \notin Nullable THEN 0 ELSE v

\* A list is never taken when it is empty: null is not a JSON value.
Takes(f, v) ==
    /\ v = Empty => f \in (Nullable \ Of("list")) \cup Of("number") \cup Of("moment")
    /\ f = "castDailyLimit" => Coerced(f, v) > 0

Settable(f) ==
    CASE f \in Of("flag") -> {0, 1}
      [] f \in Of("moment") -> {5}
      [] OTHER -> {Empty, 2}

-----------------------------------------------------------------------------
(* The screen *)

\* Behind an open form the list is of no importance.
LoadList(p) ==
    /\ ~Form(p).on
    /\ screen' = [screen EXCEPT ![p] = [rows |-> filled, links |-> joined, form |-> Form(p)]]
    /\ UNCHANGED <<handlerVars, setting, zone, TableRows>>

\* A row as the list shows it is opened, or an empty form.
OpenModal(p, i) ==
    /\ at[p] = "idle" /\ ~Form(p).on
    /\ \/ i = NewRow /\ Creatable
       \/ i \in RowIds /\ screen[p].rows[i] # NoRow
    /\ LET row == IF i = NewRow THEN NoRow ELSE screen[p].rows[i]
       IN  SetForm(p, [id |-> i, row |-> i, on |-> TRUE, busy |-> FALSE, fields |-> InForm(row), touched |-> {},
                       linked |-> IF i = NewRow THEN {} ELSE screen[p].links[i]])
    /\ UNCHANGED <<handlerVars, setting, zone, TableRows>>

\* Field f is set to v.
Touch(p, f, v) ==
    /\ Form(p).on /\ ~Form(p).busy
    /\ f \notin IF Form(p).id = NewRow THEN {} ELSE ReadOnlyOnEdit
    /\ v # Form(p).fields[f] /\ Cardinality(Form(p).touched \cup {f}) <= MaxTouched
    /\ SetForm(p, [Form(p) EXCEPT !.fields[f] = v, !.touched = @ \cup {f}])
    /\ UNCHANGED <<handlerVars, setting, zone, TableRows>>

Toggle(p, o) ==
    /\ Form(p).on /\ ~Form(p).busy /\ HasLinks
    /\ SetForm(p, [Form(p) EXCEPT !.linked = IF o \in @ THEN @ \ {o} ELSE @ \cup {o}])
    /\ UNCHANGED <<handlerVars, setting, zone, TableRows>>

CloseModal(p) ==
    /\ Form(p).on /\ ~Form(p).busy
    /\ SetForm(p, NoForm)
    /\ UNCHANGED <<handlerVars, setting, zone, TableRows>>

Save(p) ==
    /\ Form(p).on /\ ~Form(p).busy
    /\ Begin(p, "write")
    /\ SetForm(p, [Form(p) EXCEPT !.busy = TRUE])
    /\ UNCHANGED <<setting, zone, TableRows>>

Destroy(p, i) ==
    /\ ~Form(p).on /\ Deletable /\ screen[p].rows[i] # NoRow
    /\ Begin(p, "destroy")
    /\ SetForm(p, [NoForm EXCEPT !.row = i])
    /\ UNCHANGED <<setting, zone, TableRows>>

-----------------------------------------------------------------------------
(* The handlers *)

\* The page shows the error; the form stays open.
Answered(p) ==
    /\ End(p)
    /\ SetForm(p, IF Form(p).on THEN [Form(p) EXCEPT !.busy = FALSE] ELSE NoForm)
    /\ UNCHANGED <<setting, zone, TableRows>>

\* Saved: the form is closed and the list fetched again.
Saved(p) ==
    /\ End(p)
    /\ screen' = [screen EXCEPT ![p] = [rows |-> filled', links |-> joined', form |-> NoForm]]

\* After the row: the banner's position, then the join rows, each for the tables that have them.
AfterRow(p, row) ==
    IF setting = "banners" /\ row["position"] # Empty THEN "after" ELSE IF HasLinks THEN "link" ELSE "idle"

Written(p, i, row) ==
    /\ filled' = [filled EXCEPT ![i] = row]
    /\ LET fields == [f \in Fields |->
                        IF f \in Form(p).touched \/ Form(p).id = NewRow
                        THEN Form(p).fields[f] ELSE meant[i].fields[f]]
       IN  meant' = [meant EXCEPT ![i].fields = fields]
    /\ UNCHANGED <<setting, zone, joined>>
    /\ IF AfterRow(p, row) = "idle" THEN Saved(p)
       ELSE SetForm(p, [Form(p) EXCEPT !.row = i]) /\ Continue(p, AfterRow(p, row))

Acceptable(body, row) ==
    /\ \A f \in DOMAIN body : Takes(f, body[f])
    /\ setting = "event_campaigns" => Coerced("startAt", row["startAt"]) < Coerced("endAt", row["endAt"])

CreateResource(p) ==
    /\ at[p] = "write" /\ Form(p).id = NewRow
    /\ LET body == Body(Form(p))
       IN  IF Fields \ DOMAIN body # {} \/ ~Acceptable(body, body) THEN Answered(p)
           ELSE /\ nextId \in RowIds
                /\ nextId' = nextId + 1
                /\ Written(p, nextId, [f \in Fields |-> Coerced(f, body[f])])
                /\ UNCHANGED stale

UpdateResource(p) ==
    /\ at[p] = "write" /\ Form(p).id # NewRow
    /\ LET i == Form(p).id
           body == Body(Form(p))
           row == [f \in Fields |-> IF f \in DOMAIN body THEN body[f] ELSE filled[i][f]]
       IN  IF filled[i] = NoRow \/ ~Acceptable(body, row) THEN Answered(p)
           ELSE /\ Written(p, i, [f \in Fields |-> Coerced(f, row[f])])
                /\ stale' = IF screen[p].rows[i] = filled[i] THEN stale ELSE stale \cup {i}
                /\ UNCHANGED nextId

Holds(i, position) == filled[i] # NoRow /\ filled[i]["position"] = position

\* Mutant of Loses: the saved banner is not excepted.
LosesSelf(p, i) == Holds(i, Form(p).fields["position"])

Loses(p, i) == i # Form(p).row /\ Holds(i, Form(p).fields["position"])

\* A position is held by one banner; the others lose the one saved here.
AfterWrite(p) ==
    /\ at[p] = "after"
    /\ filled' = [i \in RowIds |->
                    IF Loses(p, i) THEN [filled[i] EXCEPT !["position"] = Empty] ELSE filled[i]]
    /\ meant' = [i \in RowIds |->
                    IF i # Form(p).row /\ Loses(p, i)
                    THEN [meant[i] EXCEPT !.fields["position"] = Empty] ELSE meant[i]]
    /\ UNCHANGED <<setting, zone, joined, nextId, stale>>
    /\ Saved(p)

\* All join rows are deleted and the chosen ones written, in one transaction.
PutLinks(p) ==
    /\ at[p] = "link"
    /\ LET i == Form(p).row
       IN  IF filled[i] = NoRow
           THEN UNCHANGED <<joined, meant, stale>>
           ELSE /\ joined' = [joined EXCEPT ![i] = Form(p).linked]
                /\ meant' = [meant EXCEPT ![i].links = Form(p).linked]
                /\ stale' = IF screen[p].links[i] = joined[i] THEN stale ELSE stale \cup {i}
    /\ UNCHANGED <<setting, zone, filled, nextId>>
    /\ Saved(p)

DestroyResource(p) ==
    /\ at[p] = "destroy"
    /\ LET i == Form(p).row
       IN  /\ filled' = [filled EXCEPT ![i] = NoRow]
           /\ joined' = [joined EXCEPT ![i] = {}]
    /\ Saved(p)
    /\ UNCHANGED <<setting, zone, nextId, meant, stale>>

\* A request dies.  The page shows an error and keeps the form; when the row
\* has been answered already and its join rows are lost, it closes the form.
TableDie(p) ==
    /\ Die(p)
    /\ SetForm(p, IF at[p] \in {"write", "after"} THEN [Form(p) EXCEPT !.busy = FALSE] ELSE NoForm)
    /\ UNCHANGED <<setting, zone, TableRows>>

TablesNext ==
    \E p \in Handlers :
        \/ LoadList(p) \/ CloseModal(p) \/ Save(p) \/ TableDie(p)
        \/ CreateResource(p) \/ UpdateResource(p) \/ AfterWrite(p) \/ PutLinks(p) \/ DestroyResource(p)
        \/ \E i \in RowIds \cup {NewRow} : OpenModal(p, i)
        \/ \E i \in RowIds : Destroy(p, i)
        \/ \E f \in Fields \cap FieldsTouched : \E v \in Settable(f) : Touch(p, f, v)
        \/ \E o \in LinkOptions : Toggle(p, o)

TablesSpec == TablesInit /\ [][TablesNext]_<<handlerVars, settingsVars>>

-----------------------------------------------------------------------------
(* Properties *)

AsMeant(f, v, w) ==
    \/ v = w
    \/ v = 0 /\ w = Empty /\ f \in Of("number") \cup Of("moment")
    \/ f \in Of("moment") /\ zone # 0
    \/ f \in Of("secret") /\ w = Empty

\* CrudPage.tsx:595-672 and admin-crud.ts:302-335: a row is what operators have
\* made of it, field by field, however it was turned into a form and back: what
\* nobody has touched is as before and what somebody has set is as set, unless it
\* was saved from an outdated list (a save sends every field), or the browser is
\* not on UTC and moves the times; its join rows too, unless a request died in
\* between; a campaign ends after it starts, whatever is saved at the same time;
\* and a place on the page has one banner at most and keeps the one saved last.
SavedAsMeant ==
    /\ \A i \in RowIds \ stale : filled[i] # NoRow =>
          /\ \A f \in Fields : AsMeant(f, filled[i][f], meant[i].fields[f])
          /\ joined[i] = meant[i].links
    /\ setting = "event_campaigns" =>
          \A i \in RowIds : filled[i] # NoRow => filled[i]["startAt"] < filled[i]["endAt"]
    /\ setting = "banners" /\ Undisturbed =>
          \A i, j \in RowIds :
             i # j /\ filled[i] # NoRow /\ filled[j] # NoRow /\ filled[i]["position"] # Empty
                => filled[i]["position"] # filled[j]["position"]
=============================================================================
