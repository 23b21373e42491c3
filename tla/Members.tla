------------------------------- MODULE Members -------------------------------
(***************************************************************************)
(* What members do among each other, what an order sets off, and the       *)
(* screens: chats and the open chat page, the timeline, rewards, entries   *)
(* to orders, prices, accounts, the order wizard, the settings tables, the *)
(* seed script, the rankings, the search page, and what members are told,  *)
(* by mail and chat, by reminders, as a patron, and on the order board.    *)
(* As in Services they share the handlers and no rows, and a behaviour is  *)
(* about one desk.                                                         *)
(***************************************************************************)
EXTENDS Conversations, Posts, Rewards, Entries, Pricing, LiveChat, Accounts, OrderForms,
        SettingsTables, Seed, Rankings, Notices, ProfileSearch, Reminders, Patrons, OrderBoard

CONSTANTS
    DeskRequests,   \* bound: DeskRequests[d] requests arrive at desk d
    DeskConcurrent  \* bound: and this many when some of them overlap

Desks ==
    {"chat", "posts", "rewards", "entries", "prices", "live", "accounts", "forms", "tables",
     "seed", "rankings", "notices", "search", "reminders", "patrons", "board"}

ASSUME DeskAssumption ==
    DeskRequests \in [Desks -> 0..MaxRequests] /\ DeskConcurrent \in [Desks -> 0..MaxRequests]

VARIABLE desk \* the service whose requests arrive

membersVars ==
    <<handlerVars, chatVars, postVars, rewardVars, entryVars, priceVars, liveVars, accountVars,
      formVars, settingsVars, seedVars, rankVars, noticeVars, searchVars, jobVars,
      patronVars, boardVars, desk>>

\* Any one of the options when d is the desk, otherwise a fixed one.
Opening(d, options) == IF desk = d THEN options ELSE {CHOOSE x \in options : TRUE}

MembersInit ==
    /\ desk \in Desks
    /\ HandlersInit
    /\ ChatIdle /\ PostsIdle /\ RewardsIdle
    /\ times \in Opening("entries", PlannedTimes) /\ EntriesIdle
    /\ booking \in Opening("prices", Bookings)
    /\ rounding \in Opening("prices", Roundings) /\ PriceIdle
    /\ LiveIdle
    /\ AccountsIdle
    /\ prices \in Opening("forms", PriceLists) /\ FormsIdle
    /\ setting \in Opening("tables", SettingsNames)
    /\ zone \in Opening("tables", ZonesFor(setting)) /\ TablesIdle
    /\ production \in Opening("seed", BOOLEAN) /\ SeedIdle
    /\ headStart \in Opening("rankings", HeadStarts)
    /\ campaigns \in Opening("rankings", CampaignPlans) /\ RankingsIdle
    /\ people \in Opening("notices", NoticeCases) /\ NoticesIdle
    /\ viewer \in Opening("search", Viewers) /\ SearchIdle
    /\ needed \in Opening("reminders", {1, 2}) /\ RemindersIdle
    /\ lastUse \in Opening("patrons", FirstDays) /\ PatronsIdle
    /\ place = CHOOSE p \in BoardPlaces : TRUE
    /\ tab \in Opening("board", BoardTabs) /\ BoardIdle

\* The rows of desk d are touched there only.
Elsewhere(d, vars) == IF desk = d THEN TRUE ELSE UNCHANGED vars

MembersNext ==
    /\ UNCHANGED desk
    /\ Elsewhere("chat", chatVars)
    /\ Elsewhere("posts", postVars)
    /\ Elsewhere("rewards", rewardVars)
    /\ Elsewhere("entries", entryVars)
    /\ Elsewhere("prices", priceVars)
    /\ Elsewhere("live", liveVars)
    /\ Elsewhere("accounts", accountVars)
    /\ Elsewhere("forms", formVars)
    /\ Elsewhere("tables", settingsVars)
    /\ Elsewhere("seed", seedVars)
    /\ Elsewhere("rankings", rankVars)
    /\ Elsewhere("notices", noticeVars)
    /\ Elsewhere("search", searchVars)
    /\ Elsewhere("reminders", jobVars)
    /\ Elsewhere("patrons", patronVars)
    /\ Elsewhere("board", boardVars)
    /\ \/ desk = "chat"     /\ ChatNext
       \/ desk = "posts"    /\ PostsNext
       \/ desk = "rewards"  /\ RewardsNext
       \/ desk = "entries"  /\ EntriesNext
       \/ desk = "prices"   /\ PriceNext /\ UNCHANGED handlerVars
       \/ desk = "live"     /\ LiveNext
       \/ desk = "accounts" /\ AccountsNext
       \/ desk = "forms"    /\ FormsNext
       \/ desk = "tables"   /\ TablesNext
       \/ desk = "seed"     /\ SeedNext
       \/ desk = "rankings" /\ RankingsNext
       \/ desk = "notices"  /\ NoticesNext
       \/ desk = "search"   /\ SearchNext
       \/ desk = "reminders" /\ RemindersNext
       \/ desk = "patrons"  /\ PatronsNext
       \/ desk = "board"    /\ BoardNext
    /\ begun' <= IF overlapped' THEN DeskConcurrent[desk] ELSE DeskRequests[desk]

MembersSpec == MembersInit /\ [][MembersNext]_membersVars

-----------------------------------------------------------------------------
(* Properties: those of the modules, each where its desk is the one whose  *)
(* requests arrive; elsewhere its rows stay as they were at the start.     *)

\* messages.ts: however members block, mute and unblock, a badge counts exactly
\* the unread messages that its member can see.
ChatBadgesRight == desk = "chat" => BadgeCountsVisible

\* handlers.ts: a cast's like is paid once, by the nightly run of its day, or never
\* if it was taken back in time.
LikesPaid == desk = "posts" => LikePaidOnce

\* rewards.ts: settlements that interleave leave every member paid what the rules
\* give for all orders so far, no step missing and none paid twice.
RewardsPaid == desk = "rewards" => RewardsFollowRules

\* selection.ts, model.ts: no cast comes to two orders whose times overlap, and the
\* teams that come are whole and the best there were.
EntriesKept == desk = "entries" => EntriesHold

\* costs.ts: who is there as planned is billed as announced; more time never costs
\* less, and a cast gets no more than the guest pays.
BillsFair == desk = "prices" => FairBill

\* users.ts: through freezing, withdrawal and return, an address belongs to one
\* account and a number to one guest.
AccountsSafe == desk = "accounts" => AccountsKeepApart

\* OrderWizardPage.tsx, order-forms.ts: an order is made once and is the one the
\* guest was shown and confirmed, whatever time and price list did meanwhile.
OrdersConfirmed == desk = "forms" => OrderedAsConfirmed

\* CrudPage.tsx, admin-crud.ts: a row is what operators have made of it, field by
\* field, through all conversions into a form and back.
SettingsSaved == desk = "tables" => SavedAsMeant

\* seed.ts: started again, by two deployments at once, or after it died, the seed
\* writes no data twice and leaves none out.
SeedRepeatable == desk = "seed" => SeededOnce

\* rankings.ts: a ranking counts what fell into its period, hides who was hidden at
\* its deadline, and shows nobody who did not want it.
RankingsFair == desk = "rankings" => RankedFairly

\* ConversationPage.tsx, SearchPage.tsx, MeetingListPage.tsx: what the open chat, the
\* search and the order board show when nothing is under way is what holds.
ScreensTellTruth ==
    /\ desk = "live" => PageTellsTruth
    /\ desk = "search" => SearchTellsTruth
    /\ desk = "board" => BoardTellsTruth

\* auto-send-message.ts, handlers.ts: members are told what concerns them and they
\* have not refused, and a patron is warned before their apprentices are lost.
MembersTold ==
    /\ desk = "notices" => EverybodyTold
    /\ desk = "patrons" => WarnedBeforeLapse

\* queues.ts, reschedule_jobs: the reminders of an order come once and when they
\* are due, also after an operator has moved its times.
RemindersSent == desk = "reminders" => RemindedInTime
=============================================================================
