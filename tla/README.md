# A verification of the COCO matching system

COCO is a marketplace: a *guest* orders the company of one or more *casts* for
some hours, pays with *credits* bought by card, and the casts are paid out in
money. `src/src/server/` holds the logic, `src/src/app/api/` the request handlers,
`src/src/worker/` the process that executes delayed jobs, `src/src/components/` and
`src/src/client/` the browser's side, and PostgreSQL (through Prisma) all of the
state. Request handlers and jobs run concurrently, every `await` is a point where
another one may run, and most handlers read a row, decide on it, and write it
later in a statement of its own.

This directory holds TLA+ modules that model the money, the orders, and what
members do, see and are told around them, TLC configurations that check them on
small instances, and proofs for TLAPS.

Source references below leave out the leading `src/src/server/` where no other
directory is named.

## 1. Inventory

| Component | State | Operations | Hard because | Correct when | Module |
|---|---|---|---|---|---|
| credit ledger (`services/credits.ts`) and trial expiry (`jobs/handlers.ts`) | `users.credit_balance`, `frozen_credits`, `credit_transactions` | book, freeze, unfreeze, `transaction()`, the daily expiry | interleaved transactions, locks on two users in the caller's order, foreign-key locks, rollback half-way | rows account for every change of a wallet; every transaction ends | CreditLedger, CreditRows |
| group order, its failure and cancellation (`services/meetings/selection.ts`, `finances.ts`, `app/api/meetings/[id]`) | `meetings`, `cast_attendances`, the card's conversion | enter, leave, set up the selection, select, match, withdraw, fail, cancel | casts and a timeout job at once; a status read before an `await` is acted on after it; a card charged inside a transaction | reserved once; scheduled orders staffed and reserved; a closed order stays closed; recruitment ends | GroupOrder |
| settlement (`services/meetings/lifecycle.ts`) | status, start and end times, ledger rows | arrive, start, finish, complete, recharge | casts, operators and admins at once; two rows locked in two orders; the card stays charged on rollback | billed once; paid; nothing of other orders released | Settlement |
| individual order (`lifecycle.ts`, `setup.ts`) | the same | propose, accept, refuse, timeout | the answer races the timeout job; each statement commits alone | answered and settled once; a proposal does not stay open | IndividualOrder |
| card registration and purchases (`payment-gateway.ts`, `app/api/financial`) | `users.creditcard_token`, `credit_cards`, `conversions` | register, buy, 3-D Secure callbacks | repeated and late callbacks; the user is found by a token that changes | booked once; captured money is booked; a card is valid when confirmed | CardPayment, CardCharges |
| payouts (`payouts.ts`) | `payout_requests`, balances | apply, hold, fast payout, process, cancel | check and act in different transactions | one open application; transferred or returned, never both | Payouts |
| gifts and roulette (`stickers.ts`) | gift rows, daily counters, rolls | give, roll, pay, campaign gifts | handed over and paid in two transactions | no debt; a roll paid once; milestone rewards add up | Gifts |
| rewards (`rewards.ts`) | counters, ledger rows, patron columns | steps of a settlement, reviews | counters shared by orders, under row locks of other settlements | each reward given once | Rewards |
| entries, double booking, teams (`selection.ts`, `model.ts`, `cast-score.ts`) | attendances of several orders | enter alone or as a team, leave, match | window arithmetic over orders; a leader who leaves a team | no cast in two orders at once; best whole teams | Entries |
| prices and costs (`model.ts`, `costs.ts`) | none | integer functions with a float product | rounding, night hours, early and late times | bill agrees with the estimate and is monotone | Pricing |
| reminders (`queues.ts`, `lifecycle.ts`, the reschedule route) | delayed jobs with ids | plan, move, remove, remind | an operator moves times while requests plan | each reminder comes once and when due | Reminders |
| conversations (`messages.ts`, `blockings.ts`) | rooms, unread rows, muting | send, read, mute, block | four rows per action | badges count what can be seen | Conversations |
| open chat page (`ConversationPage.tsx`, the socket) | messages shown, marks | fetch, page back, broadcast, read | answers out of order, broadcasts lost or early | shows what is there, and read only what was read | LiveChat |
| notices (`auto-send-message.ts`, `notifications.ts`, `jobs/handlers.ts`) | messages, alert jobs, devices | tell, alert by socket, LINE and push, prune devices | alerts after the transaction, retries, refusals meanwhile | members learn what concerns them, and nothing refused | Notices |
| order board and badge (`MeetingListPage.tsx`, `client/hooks.ts`, `lib/socket`) | board, badge, room of the socket | open, ring, ask, poll | rings for a place the cast has left; answers out of order | board and badge show what recruits | OrderBoard |
| timeline (`posts.ts`, the nightly job) | posts, likes, counters | post, like, unlike, delete, pay likes | a like taken back at midnight; a late job | a cast's like is paid once | Posts |
| rankings (`rankings.ts`) | visibility history, campaigns | rank, hide, show | who counts as hidden and when; names read after ranks | fair to periods, deadlines and wishes | Rankings |
| search and profiles (`profiles-shared.ts`, `SearchPage.tsx`) | answers kept by the screen, favourites, footprints | search, page, star, open a profile | kept answers, pages that shift | pages fit, stars and footprints are true | ProfileSearch |
| accounts (`users.ts`, `app/api/admin/users`) | e-mail, phone, level, discard | sign up, freeze, withdraw, restore, edit | checks before writes, outdated admin pages, prefixed addresses | an address or number belongs to one account | Accounts |
| order wizard (`OrderWizardPage.tsx`, `order-forms.ts`) | the form, the price list | edit, preview, confirm, set up | time and price list move under the form | what is ordered is what was confirmed | OrderForms |
| admin tables (`CrudPage.tsx`, `admin-crud.ts`) | any settings row, open forms | list, edit, save, sort, delete | conversions into a form and back | a row is what operators have made of it | SettingsTables |
| seed script (`prisma/seed.ts`) | everything | phases in order | two deployments, death and restart | no data twice, none missing | Seed |
| patrons (`jobs/handlers.ts` `patronWorker`) | first-met columns | use, warn, lapse | calendar months of different lengths | warned before the bond lapses | Patrons |
| receipts, histories, layout, mail texts | read-only | - | little | - | - |

Interactions: an order calls the ledger (freeze, release, book) and the card
gateway; the ledger shares the guest's two columns with every other order, gifts,
payouts and the expiry job; the queue calls the order's handlers, its reminders and
its alerts; settlement calls rewards, which call the ledger; messages of all of
them go through notices to conversations, sockets and devices. `PROJECT.json` lists
each component with its status, and the hazards one by one at their lines.

## 2. Modules

```
CreditLedger            what the ledger promises: atomic wallet transactions
  ^ implemented by (TLC and TLAPS)
CreditRows              credits.ts statement by statement, locks, expiry job
  ^ CreditRowsProofs
GroupOrder              one order from the request to the group chat
  ^ MCGroupOrder        ^ GroupOrderProofs
Settlement              one order from the group chat to the bill
  ^ MCSettlement        ^ SettlementProofs

RequestHandlers         handlers, their program counters, faults; no rows
  ^ RequestHandlersProofs
  |-- IndividualOrder, Payouts, CardPayment, Gifts      (CardCharges: amounts, gateway)
  |     ^ ServicesProofs
  |     ^ Services      composes the four      ^ MCServices
  |-- Conversations, LiveChat, Posts, Notices, OrderBoard, ProfileSearch,
  |   Rankings, Rewards, Entries, Reminders, Patrons, Accounts, OrderForms,
  |   SettingsTables, Seed; and Pricing, which has no handlers
        ^ Members       composes the sixteen   ^ MCMembers
            ^ MembersProofs, OperationsProofs, ScreensProofs
```

`GroupOrder` and `Settlement` use the ledger as the atomic transactions that
`CreditRows` implements: a ledger call is one step there, which the refinement
justifies. So do the modules below them.

### CreditLedger and CreditRows

`CreditRows` gives each process the statements of the ledger calls in the order of
`credits.ts`: `INSERT INTO credit_transactions` with its foreign key check per user
(`InsertFrom`, `InsertTo`), `SELECT ... FOR UPDATE` (`LockUser`), the check, the
`UPDATE` (`RefuseFreeze`, `UpdateFreeze`, `UpdateUnfreeze`, `UpdateCharged`,
`UpdateCredited`). `db` and `ledger` are what is committed; `work` and `rows` are what a
transaction has written and not committed; `held` and `share` are its row locks.
`Commit`, `Rollback` (an exception, the transaction's timeout, a death of the process)
and `DeadlockAbort` end a transaction. What PostgreSQL does (locks and their
conflicts, visibility at READ COMMITTED, deadlock detection) is part of the model
because the code relies on it.

`CreditLedger` is the abstract specification: in one step any number of wallets
change, each by exactly what the rows of that step say; frozen credits stay
non-negative, and only a booked charge may overdraw. `ImplementsLedger` is the
refinement, with `WalletOf` as its mapping.

### GroupOrder

One order, a set of casts, a set of processes. A handler is a program whose
counter is `at[p]`; everything it read and uses later is in `amount`, `chosen`,
`fate`, `back`, `fee`. An action is one database statement outside a transaction, one
gateway call, or a piece of code between two awaits. `setupCastSelection` is a
transaction that calls the gateway while it holds the order's row: `lock` is that row
lock, other handlers' `UPDATE`s wait for it (`Unlocked`), their reads do not; what the
transaction writes is applied at its end (`FreezeAndOpen`) or not at all.

| Actions | Code |
|---|---|
| `WishToAttend`, `PrepareAttendance`, `AlreadyIn`, `CountActive` | `wish_to_attend/route.ts`, `wishToAttendToMeeting` |
| `LockOrder` ... `FreezeAndOpen`, `FreezeRefused`, `RecordPreChargeFail` | `setupCastSelection`, `prepareMeetingFinances`, `buyCredits` |
| `FailRead` ... `SetFailed`, `SetDontTouch` | `handleFailedMeeting`, `revertPayment` |
| `CancelMeeting`, `ReadForFee` ... `BookFee` | `cancelMeeting` |
| `CancelRequest`, `DismissAll`, `SetWithdrawn` | `cancel_request/route.ts` |
| `WishToNotAttend`, `Leave` | `wish_to_not_attend/route.ts` |
| `SelectCast`, `AttendSelected`, `CountSelected` | `select_cast/.../route.ts`, `selectCast` |
| `AutoOpenMeetingWorker`, `WorkerCount`, `OpenOrder`, `MatchRead` ... `OpenConversation` | `jobs/handlers.ts`, `open/route.ts`, `autoOpenMeeting` |
| `SpendElsewhere` | whatever else moves the guest's balance |
| `Crash`, `MatchError`, `BookBackFails` | a process dies; a database error |

Casts are alike and have no teams here, so the choice by score is any choice of
the right size (`Entries` models the choice). The score threshold is off, as in the
configuration (`min_matching_score` is null), and so are deferred payment and orders
without a charge before they start. An order is cancelled here until it is scheduled
and in that status, not later.

### Settlement

The same style, from `scheduled` on. `arrived` and `ended` are the start and end times,
`bills` counts how often the order's ledger rows were booked. `completeMeeting` is one
transaction: `BookAttendances` takes the guest's row (`purse`),
`MarkMeetingCompleted` the order's (`lock`), `Commit` makes its effects visible. A
recharge takes the order's row first (`LockOrder`). The card charge in the middle is
visible at once and for good. The steps that follow the charge (rewards, in detail in
`Rewards`) succeed (`RewardAll`), raise an error of the application (`RewardRaises`,
which commits if the card was charged) or fail in the database (`RewardAborted`).

`completeMeeting` itself does not look at the status, except for a recharge; its callers
do or do not. The internal routes and `CompleteMeetingWorker` do (`OperatorFinish`,
`CompleteMeeting`). The admin's routes do not (`AdminFinish`, `AdminComplete`): the order's
page (`MeetingDetailPage.tsx:72-89`) shows a button for the status it has fetched, which
may be any the order has had (`shown`). `forced` records that the back office has settled
the order before its casts had finished, or pressed a button after it was settled.

### RequestHandlers and the modules on it

A handler is idle or at a label, the statement it executes next. `Begin` starts a
request, `Deliver` a job, a callback or a step of another machine, `Continue` goes to
the next label, `End` returns, `Die` ends a process between two statements, `Refused`
lets the database refuse one. `overlapped` becomes true when a handler starts while
another one is active, and stays true; `Undisturbed` says that no handler overlapped
and nothing failed. What a handler has read and uses later is a variable of the module,
indexed by handlers; what it has not read it cannot use.

Each module has the rows it is about as variables, a predicate `...Idle` for the rows
before the first request, one action per statement, and `...Next`.

| Module | Rows | Actions that begin something, and their code |
|---|---|---|
| `IndividualOrder` | `order`, `seat`, `reserved`; the guest's `spendable`, `frozen`; the card's `taken`, `booked`; the delayed job `closing` | proposals, `Accept` (`acceptIndividualMeeting`), refusals, withdrawal, `AutoOpenMeetingWorker`, cancellation |
| `Payouts` | `savings`, the month's earnings `recent` and `matured`, `apps`, transfers `sent`, returns `back` | applications of both forms, holds, release, `PATCH`, processing, cancellation, fast payout, `day` passing |
| `CardPayment` | `token`, `cardRow`, `enrolled` and `bought` at the gateway, `entries` | `RegisterCard`, `MakeCharge`, `RegistrationCallback` (`parres`), `BuyCallback` (`parres_buy`) |
| `Gifts` | `wallet`, `handed`/`sold`, `rolls`/`fees`/`prizes`, `today`/`earlier`/`rewarded` | `PurchaseSticker`, the roulette's roll, payment and discard, campaign gifts |
| `Conversations` | `rooms`, `muted`, `blocked`, `messages`, `unread` | sending in either direction, reading, muting, blocking, `follow_recommendation` |
| `LiveChat` | `lines`, `rowsOf`, the socket (`cable`, `online`), the open `page` | fetches, older pages, sends, broadcasts, disconnects |
| `Posts` | `author`, `likedAt`, `likes`, `earned`, `collected` | posting, liking, unliking, deleting, the nightly job |
| `Rewards` | `paid` by kind and member, `patron`, `firstMet`, `repeats`, row locks | settlements with their six reward steps, reviews |
| `Entries` | `times`, `role`, `leader`, `selection` | entering alone and as a team, leaving, selecting, matching |
| `Pricing` | `came`, `left`, `bill`, `share` | arriving, leaving and settling; `Charges` is `costs.ts`'s arithmetic |
| `Accounts` | `users`, operators' `shown` pages and `form`s | sign-up, codes, freezing, withdrawal, restoring, editing |
| `OrderForms` | `prices`, the `wizard` with its `draft`, `orders` | steps of the wizard, previews, the press of the button, set-up |
| `SettingsTables` | `filled` rows, `joined` rows, operators' `screen`s | loading, editing, saving, dragging, deleting |
| `Seed` | `seeded` phases, `accounts`, `pastOrders`, `wallet` | a run of `prisma/seed.ts`, phase by phase |
| `Rankings` | `ledgerDays`, `hides` and its history `changes`, `campaigns`, `withdrawn` | earning, hiding, withdrawing, asking for a page, days passing |
| `Notices` | `letters`, `alerts`, `devices`, refusals | events that tell somebody, the alert jobs, muting, devices |
| `ProfileSearch` | `visits`, `favorites`, `footprints`, the screen's `cache` | searching, paging, starring, opening a profile, what others change |
| `Reminders` | `timing`, the `queue` of jobs by id, `seat`, `arrivedAt` | scheduling, rescheduling, leaving, jobs, the clock |
| `Patrons` | `bond`, `lastUse`, `warning` | uses, the daily job, days passing |
| `OrderBoard` | `recruits`, `rings`, the cast's `place`, `room`, `board` and `badge` | openings, closings, rings, polls, reconnects, moves |

`Services` and `Members` compose them. The parts share the handlers and no rows; a
behaviour is about one desk (`desk`), so that one run checks all of them and none
multiplies the states of another. A `Members` property is that of its desk's module:

| Property | is | Property | is |
|---|---|---|---|
| `ChatBadgesRight` | `Conversations.BadgeCountsVisible` | `SettingsSaved` | `SettingsTables.SavedAsMeant` |
| `LikesPaid` | `Posts.LikePaidOnce` | `SeedRepeatable` | `Seed.SeededOnce` |
| `RewardsPaid` | `Rewards.RewardsFollowRules` | `RankingsFair` | `Rankings.RankedFairly` |
| `EntriesKept` | `Entries.EntriesHold` | `ScreensTellTruth` | `LiveChat.PageTellsTruth`, `ProfileSearch.SearchTellsTruth`, `OrderBoard.BoardTellsTruth` |
| `BillsFair` | `Pricing.FairBill` | `MembersTold` | `Notices.EverybodyTold`, `Patrons.WarnedBeforeLapse` |
| `AccountsSafe` | `Accounts.AccountsKeepApart` | `RemindersSent` | `Reminders.RemindedInTime` |
| `OrdersConfirmed` | `OrderForms.OrderedAsConfirmed` | | |

## 3. Runs

| Run | Question | Result |
|---|---|---|
| `credit_ledger` | two transactions with locks, rollbacks, deadlocks and the expiry job: is the ledger balanced, does it implement `CreditLedger`, does every transaction end? | holds |
| `trial_expiry` | are only trial credits written off ("the trial credits expire", `jobs/handlers.ts:588`)? | **violated**: credits bought after the job read its list are written off |
| `order_serial` | three casts for two places, one handler at a time, every request, fees, other orders: are scheduled orders staffed and reserved, failed ones released, the card's money booked? | holds |
| `order_races` | two handlers at once, one fault, the guest's balance changing: one reservation, no charge outside recruitment, no reopening, recruitment ends? | holds |
| `order_minimum` | "an order reserves its estimated cost as *frozen* credits before it starts" (`finances.ts:15-17`), for an order with a minimum | **violated**: matched at the minimum, it never passes the reservation |
| `order_leak` | "Frozen credits are always released" (`finances.ts:17-19`) | **violated**: a withdrawal racing the last cast leaves the credits frozen |
| `settle_serial` | three casts, every request of casts, operators and admins with outdated pages, one handler at a time: billed once unless `forced`, card money booked? | holds |
| `settle_races` | two handlers, a database error and a crash: only what was reserved is released, a settled order is paid, recharges only of failed orders, handlers return? | holds |
| `settle_twice` | "one ledger row per cast" (`lifecycle.ts:244-247`), for every order (`NeverBilledTwice`) | **violated**: after an operator's finish a late cast's finish settles again |
| `settle_lost` | a commit "even when a later step raised, so a successful charge was never lost" (`src/README.md:150-152`) | **violated**: after a database error the commit rolls back, the card stays charged |
| `services` | individual orders, payouts, card payments, gifts, each with two handlers and a fault: is an answered order settled and a reservation frozen, is there one open application, transferred or returned, is a purchase booked once and a card valid when confirmed, do gifts add up, does a proposal close? | holds |
| `members` | the sixteen desks of `Members`: is what members are shown, told and paid, and what operators save, what the rules say, also where requests interleave? | holds |

The five violations are described under `findings` in `PROJECT.json`, with the lines.

**Why some properties are checked one handler at a time.** `ScheduledIsReserved`,
`FailedIsReleased`, `ScheduledIsStaffed`, `TakenIsBooked` of `GroupOrder` and
`BilledOnce`, `TakenIsBooked` of `Settlement` do not hold for interleaved handlers: the
code does not guard them against a second handler, and the hazards in `PROJECT.json`
name the interleaving for each. The serial runs show that each sequence of whole
requests keeps them, which is what the code's structure does promise; they do not show
that the races are harmless, and the same holds of the properties of `Services` and
`Members` that ask for undisturbed requests. `BilledOnce` is not asked of an order that is
`forced`, since neither `finish/route.ts:44` nor the admin's routes look at the status, and
`order_serial` has no minimum below the number of casts: those are the violations above. `order_races` keeps `OtherFrozen` at 0:
with other orders, two handlers that fail the order at the same time release too
much (a listed hazard).

**What the conditions in the properties of `Services` and `Members` exclude.** Their
runs have two handlers that interleave and one fault; a property that the code cannot
keep then says so itself, as narrowly as it can:

| Condition | Excluded, because the code does not guard it |
|---|---|
| `~overlapped`, `Undisturbed` | another request between a check and the write that relies on it; a process that died between two of its writes |
| `faults = 0` (`LikePaidOnce`, `RewardsFollowRules`, `WarnedBeforeLapse`) | a nightly job, or a settlement, that died: neither is repeated |
| `~reopened` (payouts) | `PATCH` puts a closed application on hold; no page offers that |
| `fastOut = 0` | a fast payout takes this month's credits, which is its purpose |
| `~renewed` (card) | the token changed after the purchase was enrolled; nobody is found by it |
| `~followed` (chat) | `follow_recommendation` opens a second private room |
| `raced`, `recalled` (entries) | one cast entered by two requests at once; a team selected after the member had left |
| `behind` (chat page), `cut`, `silent` (order board) | what was lost with a broadcast: the socket was down, the page was loading, or nothing rings |
| `~outdated`, `stale` | written from a page or a list read before it changed |
| `~renewed`, `~crossed` (order wizard) | the price list changed, or the form was edited while its confirmation was loading |
| `opened < at + 4` (order wizard) | recruitment that begins twenty minutes or more after the order's time was checked, which nothing bounds: it may then end after the start |
| `Closed` by reason (search) | a profile closed first for one reason and then for the other: hidden profiles (`profiles-shared.ts:16-43`) and blocks (44-49) are read one after the other, so that a page may show it |
| `zone = 0` (tables) | a browser off UTC moves times: the form shows UTC digits and sends local time |
| `~torn`, `late`, `"failed"` (reminders) | a request that died or overlapped with an operator's; times moved when the lead had begun; a job two workers died of |
| `~overtaken` (patrons) | the patron used the service between the job's scan and the lapse |

Each is a variable that records that the case has happened, so that a behaviour is
judged up to there; everything else, interleaved or not, is checked.

**Bounds.** `MaxTx`, `MaxCalls`, `MaxStarted`, `MaxRequests`, `DeskRequests` bound the requests
of a behaviour, `MaxFaults`, `MaxErrors`, `MaxCrashes` its faults; every one is a guard of the
action that counts. `DeskConcurrent` bounds the requests of a behaviour in which some
overlap, and `DeskRequests` the others: sequences may be longer than races. Two
handlers are enough for the races, since each of them is between two actors; for what
is proved the number does not matter. Four requests in `order_races` let two casts enter,
someone cancel, and a withdrawal or a match run, beside the timeout job; eight in
`order_serial` let three casts enter, two leave or be selected, the guest open and an
operator cancel. Amounts are small but on both sides of each comparison: `Openings` and
`MCOpenings` have balances below, at and above the price, `Pack` does not divide the
difference, so that the card buys more than is missing.

The other bounds of `services`: half months up to `MaxDay` (earned in one, mature in the
next), one net amount and two recipients. Of `members`:

- posts: `MaxSlot` slots of two a day, so that likes fall on, before and after a midnight;
- rewards: four orders of two guests, two private ones, who invite each other; steps of two;
- entries: two orders that overlap at an end or lie in each other, three casts, one
  score negative;
- prices: whole and odd intervals, by day, at night and past midnight, with the block counts at which
  the float product may lose a credit (`Roundings`);
- accounts: `MaxAccounts` two, the fewest that can collide; order wizard: `MaxEdits` edits,
  `MaxTick` ticks, `PriceLists` with different menus, one proposal (`Proposals`);
- tables: five settings (`SettingsNames`) that between them have every kind of field;
  `FieldsTouched` those that are converted, `MaxTouched` at a time, `MaxRows` rows, two zones;
- seed: one pair of members (`SamplePairs`) and two orders (`SampleOrders`) for the script's
  ten and five;
- rankings: `MaxDay` days of two a month, `Questions` eight pages that between them meet every
  category and period rule, `Top` two places for three members;
- notices: four couples of member types (`NoticeCases`) with live and dead devices, the letters
  that are passed on or sent alone (`LetterKinds`), one more phone;
- search: four members on pages of two (`PageSize`), three filters (`Queries`) with limits at
  the ends of their scales, two days for the 24 hours of a footprint;
- reminders: one order (`OrderTimes`) and one move (`Moves`) of the selection's or the order's end
  by a tick, up to `MaxTime`;
- patrons: six months (`MonthLengths`) of three days and two, a first use on a last day
  (`FirstDays`), `MaxUses` further uses;
- order board: two orders, of one and of both places, one of them on the other tab. A
  disconnection counts as a fault and a poll as a request there.

Handlers are interchangeable, so `members` uses their symmetry; `services` states liveness and does
not. Deadlock is not checked because the bounds let a behaviour end; that nothing
waits for ever is stated as liveness.

**Fairness.** A handler that was started and does not wait for a lock goes on
(`WF` of `Step(p)`, and of `OrderStep(h)` for individual orders): Node runs it, and the
statement has a result. In `CreditRows` a transaction that is open commits or rolls back
(Prisma ends it after its timeout) and PostgreSQL's detector breaks deadlocks. The
delayed job is delivered to some worker and delivered again when the worker died
(BullMQ's stalled jobs), and the time that a proposal is open passes. No request, no
crash and no expiry is fair.

## 4. Proofs

`CreditRowsProofs`, for any users, processes, amounts and bounds, under the named
assumptions of `CreditRows` (amounts are positive, the trial credits a natural number, the
null user is not a user):

- `TypeCorrect`: `Spec => []TypeOK`, among it that frozen credits are never negative;
- `LedgerBalancedHolds`: `Spec => []LedgerBalanced`;
- `LedgerRefinement`: `Spec => ImplementsLedger`;
- `Invariance`: the inductive invariant `IInv` behind them.

`LedgerBalanced` speaks of committed rows only, and a commit copies private versions
of rows; so it is not inductive. `IInv` adds what a running transaction knows: two
transactions never hold the same user (`Exclusion`); the row a statement checks is its
transaction's current version (`FreshRead`); and a transaction's version of a row
differs from the committed one by exactly the ledger rows it has inserted, less what
the call it is in has inserted but not yet applied (`Pending`, with `ChargeDue` and
`CreditDue`). `Pending` for `p` survives other processes' commits because they cannot
hold the user `p` has locked. `LocalStep` handles every action that leaves the tables
alone, so that each action's proof is about one process. The refinement follows: a
commit, by `Pending`, is a step of `CreditLedger`, the expiry's `UPDATE` is its `Expire`,
and everything else stutters.

`GroupOrderProofs`, for any casts, handlers, faults and prices, under the assumptions
`ProcAssumption`, `MoneyAssumption` and `BoundAssumption` of `GroupOrder`:

- `TypeCorrect`: `Spec => []TypeOK`;
- `ChargedWhileRequested`: `Spec => ChargedOnlyWhileRequested`;
- `ClosedForGood`: `Spec => NeverReopened`;
- `ReservedOnce`: `Spec => []FrozenIsReserved`, assuming that `OtherFrozen = 0`;
- `NothingFrozenUnreserved`: without that assumption, frozen credits never exceed
  what is reserved.

None of them is inductive as it stands: the status of an order is changed by
handlers that look at it once, so that only the row lock explains why the status
checked by `LockOrder` is still there at `ChargeCard` and `FreezeAndOpen`. The
invariant says so (`UnderLock`); it also says that a handler on its way to fail the order
knows a status that exists (`FateKnown`) and releases a whole reservation
(`ReleaseKnown`), and that nothing is reserved before the selection opens
(`ReservedLate`). `Alone(p)` says what a step of `p` leaves to the other handlers;
with `OthersKnown` it is enough to look at `p` in each action, and all actions but the
reservation and the release are `Quiet`. `OtherFrozen = 0` is needed because two handlers
that fail the order at once release twice (a listed hazard).

With one handler (`Procs = {p}`), and any casts, prices, fees and requests:

- `StaffedSerially`: `[]ScheduledIsStaffed`, also when the handler is cut off or the job comes again;
- `ChargesRecordedSerially`: `[]TakenIsBooked`, if handlers end (`MaxFaults = 0`);
- `ReleasedSerially`: `[]FailedIsReleased`, if handlers end;
- `ReservedSerially`: `[]ScheduledIsReserved`, if handlers end, the guest has no debts and the
  minimum is the number of casts asked for (`order_minimum` shows why).

Their invariants say what the one handler knows at each label: what it has charged and
not booked (`MoneyKnown`), how many casts there are when it counts them (`StaffKnown`),
whether the selection is open and the credits reserved (`SelectionKnown`, `ReleasedKnown`,
`ReservationKnown`). A faultless handler cannot fail an order whose selection is open.

`SettlementProofs`, for any casts, handlers, faults, requests and amounts:

- `TypeCorrect`: `Spec => []TypeOK`;
- `ReleasedExactly`: `Spec => []FrozenIsReserved`, with any other orders;
- `PaidWhenCompleted`: `Spec => []CompletedIsPaid`;
- `RechargedOnlyWhenFailed`: `Spec => RechargeOfFailedOnly`;
- `ChargeRecorded`: `[]TakenIsBooked` for settlements and recharges that race, with raising
  rewards and deadlocks, if neither a database error nor a crash hits a transaction
  that has charged (`settle_lost` shows that it must not);
- `BilledOnceSerially`: `[]BilledOnce` for one handler with all requests and faults. Its
  invariant says that a handler on its way to a bill finds the order unbilled, unless it
  is `forced`; `settle_twice` shows why that is excluded.

The invariant says which of the two row locks a settlement holds where
(`RowsLocked`), that a recharge holds the order's row with the status it checked
(`RechargeChecked`), and that what the settlement has decided to release and to
charge still fits the balance and the reservation (`Covers`), which others cannot
change meanwhile. That the charge covers the bill rests on `RoundUpCovers`: rounding up
to packs never yields less than what is missing.

`ServicesProofs`, for any handlers, requests, faults and amounts, about the specifications
`OrderSpec`, `CardSpec`, `GiftSpec` and `PayoutSpec` of the single modules:

- `OrderTypes`, `OrderReservedIsFrozen`, `OrderAnsweredIsSettled`: `[]OrderTypeOK`,
  `[]ReservedIsFrozen` (with all races and faults), `[]AnsweredIsSettled`;
- `CardTypes`, `CardBookedOnce`, `CardCapturedIsBooked`, `CardValidIsConfirmed`: `[]CardTypeOK`,
  `[]BookedOnce`, `[]CapturedIsBooked`, `[]CardIsConfirmed`;
- `PayoutTypes`, `PayoutOneOpen`, `PayoutTransferredOrReturned`, `PayoutPayable`:
  `[]PayoutTypeOK`, `[]OneOpenApplication`, `[]TransferredOrReturned`, `[]PayableIsMatured`;
- `GiftsBooked`: `[]GiftsAddUp`;
- `OrderInvariant`, `CardInvariant`, `PayoutInvariant`: the inductive invariants.

Their properties are about the rows when no handler is active, and say nothing about
the statements in between. `RequestHandlersProofs` has the argument they share: as long as
nothing has overlapped there is at most one active handler, a step leaves it the only
one, and what it knows about the rows cannot change under it. Each invariant then says
what the rows are at every label of that one handler (`Place` for individual orders,
`CardPlace` and `BuyPlace` for cards, `Looked` for payouts) and, for all handlers, what
those that overlap still know (`KnowsFailure`, `KnowsTurn`, `KnowsPlan`). Every action has
a lemma of its own that shows the parts it can disturb (`Shows`, `CardShows`, `PlanShown`
with `LoneShown`).

`PayableIsMatured` is about a sum over all applications ever made, `GiftsAddUp` about
sums over rolls and handed-over gifts. `RequestHandlersProofs` proves the lemmas on sums
over finite sets that these and the desks need (`SumRemove`, `SumUpdate`, `SumSame`,
`SumInt`, `RunningTotals`). The library's induction theorems take an operator that no
installed prover can instantiate; so these lemmas use that a non-empty set of naturals
has a least member: of the subsets for which a fact failed, one would be smallest.

`MembersProofs`, `OperationsProofs` and `ScreensProofs`, for any members, handlers, requests,
faults and rows, about the runs of `Members` in which the desk's requests arrive:

- `MembersProofs`: `MembersAccounts`, `MembersChats`, `MembersEntries`, `MembersRewards`,
  `MembersLikes`, `MembersRankings`, `MembersOrders`: `[]AccountsSafe`, `[]ChatBadgesRight`,
  `[]EntriesKept`, `[]RewardsPaid`, `[]LikesPaid`, `[]RankingsFair`, `[]OrdersConfirmed`;
  and `MembersBills`: `[]BillsFair`, if `ProlongationDearer`;
- `OperationsProofs`: `MembersReminders`, `MembersAreTold`: `[]RemindersSent`, `[]MembersTold`
  (letters and alerts, and the end of a patron's bond);
- `ScreensProofs`: `MembersScreens`, `MembersSettings`, `MembersSeed`: `[]ScreensTellTruth` (the
  open chat, the search, the order board), `[]SettingsSaved`, `[]SeedRepeatable`.

They rest on the named assumptions of the desks, which TLC evaluates in the run `members`:
bounds are naturals and the sets of rows of the right kind, and where a proof counts, finite;
no handler is called `"nothing"`; a case of `NoticeCases` does not list a phone that is still
to be registered; the first days of a patron lie in the calendar (`CalendarAssumption`).

Each desk has its inductive invariant, a lemma per action, and a step that the other
desks leave its rows alone:

| Invariant | What it adds to the property |
|---|---|
| `AccountsIInv` | what a request has checked or shown still holds when it writes (`AccountFacts`); who has withdrawn is discarded, and nobody else's address carries the prefix (`Withdrawn`) |
| `ChatIInv` | whose unread rows a message on its way has written and whose not (`ChatFacts`) |
| `EntriesIInv` | a request between its check and its write knows of no conflict (`NoConflict`); leaders lead (`LeadersLead`); who has no row has no leader |
| `RewardsIInv` | under its row locks a settlement has read what is still true; steps and turnover already paid are quotients, capped by the rules; a first meeting is the first place in `settled` at which the pair occurs |
| `PostsIInv` | midnights collected lie before now, so that a new like belongs to a later one (`PastLikes`); what a run has still to pay is the sum of what it has read (`PostsUnderWay`) |
| `SeedIInv` | only the run that drew id 1 goes on; it is somewhere in its phases with their rows written once, or through, or dead |
| `TablesIInv` | a form shows the row as it was listed except in what was touched (`ScreenHolds`); ids from `nextId` on are unused; two banners share a position only while one handler is between the two writes of a move (`PositionsApart`) |
| `RankIInv` | the history of settings agrees with the settings, and with what was wished for each day, unless someone is between the two writes (`HistoryHolds`); last month's scores are those of its rows (`ClosingHolds`); a page under way has read what is still so if nothing overlapped (`ReadCalmly`) |
| `RemIInv` | a running job has one worker, and no tick passes while it is due (`WorkersHold`); an operator who moves the times is alone (`OperatorAlone`); a cast who has arrived has a job, done or due at their end less the lead, or someone is about to add it (`CastJobs`); so has the selection (`SelectionJobs`) |
| `FormIInv` | one request is under way at a time, and is of the wizard's step; what is sent and previewed is the draft, unless it was edited meanwhile (`crossed`) or the list changed; an order is the one that was shown; one is set up, and then the page is left |
| `NoticeIInv` | a job that is carried is of a letter somebody has written; who a letter is about was told before it is passed on (`ToldFirst`); without faults a letter is passed on or still left to write (`PassingOn`); the dead devices that remain and the jobs that have met one are together no more than there were; an alert somebody waits for is queued, carried or has arrived (`Underway`) |
| `PatronIInv` | one job runs a day, and knows its row; on each day since the last use whose job is through, the warning that was due has been sent and the two months were not over (`BondsKept`) |
| `LiveIInv` | what is marked read was served; a message that is not committed has been broadcast, or the page is known to be behind; an open page has each message or will hear of it (`Heard`), and likewise of its mark |
| `SearchIInv` | a search or page with the present stamp has read what still holds, and the pages of an older one were cut from one list (`OldPages`); who has been closed for one reason since before the request is not past that check; a look that counts is told or about to be told |
| `BoardIInv` | the socket's room is the cast's place, or everything is to be asked for again; the list and its badge are right, or something will make the page ask: a ring on its way, a poll, a request under way |

Where a reference definition is a fold (`EarnedBy`, the credits per like, a score), the proof takes the
running totals from the lemmas on sums. `Entries` states the best teams by the sets of whole
teams that fit, which needs no recursion. `Patrons` ends its months by a recursive function
(`EndOf`); that it grows, and that every day has one month, is proved without induction: of
the months for which it failed, one would be the first. The proof attempts corrected
two promises: TLC then found, in a longer run, the page that shows a profile closed twice; and
`OrderedAsConfirmed` had held for late recruitment only because `MaxTick` was small.

`BillsFair` is about single steps of arithmetic, and its invariant (`PriceIInv`) says only that
the bill is that of the times. What it takes is one lemma: who comes later and leaves earlier is
not charged more (`BillMonotone`), from which staying on, coming later and the comparison with
the estimate follow. Where the longer attendance enters the prolongation and the shorter one
does not, two part intervals are floored instead of one, and each may lose another credit in
the float product; so it holds only if the prolongation makes up for that
(`ProlongationDearer`: an interval costs at least two credits for each of its blocks more; TLC finds
bills that shrink for equal prices of 5 and two blocks an interval). The seeded ranks and proposed
prices (`order-forms.ts:144`) prolong at 1.3 times the base, in thousands of credits, which is
far more; `CrudPage` lets an operator enter any price, and nothing compares the two. The night
needs attendances of less than a day (`NightMonotone`), because only times of day are compared.

Only model-checked is liveness (`EveryTransactionEnds`, `RecruitmentEnds`, `EveryHandlerReturns`,
`RequestCloses`), which is out of reach of TLAPS.

The modules of `Members` carry no type invariant: that of each proved desk is part of its
invariant (`AccountsTyped`, `ChatTyped`, ...), and is not checked again by a run.

## 5. Notes on the models

- A failing database statement in `handleFailedMeeting` is treated as a death of the
  process with redelivery of the job; the worker's `catch` would swallow the error. The
  states reached are the same, except that the job would be done.
- A new attendance row refers to its order, so its foreign key check waits for a
  `FOR UPDATE` of the order's row; an `UPDATE` of an existing attendance does not
  (`PrepareAttendance`).
- `GroupOrder` and `Settlement` have one order. What other orders, gifts or payouts do to
  the guest's balance is `SpendElsewhere`, and `OtherFrozen` is what they have reserved.
- The card gateway is external. What `payment-gateway.ts` makes of its answers is modelled:
  a charge or an enrolment is taken or refused, a capture that is asked for again names
  the same order. `authenticate3ds` is called by both callbacks, and its verdict is not
  looked at; only that of the payment is.
- `CreditRows`: a row's category matters only to the trial's expiry, which looks past those of
  gifts and of operators (`handlers.ts:543-559`): `used` are the users with a row of another.
- `Entries`: its orders have no minimum of their own. `FinalCastIds` picks
  everybody when nobody is in a team and too few are left (`cast-score.ts:64-69`).
- `Posts`: the `created_at` of a like and its commit are one step.
- `Pricing`: group orders only, without selection surcharge and fixed prices. The
  product `trunc((b / 6) * c)` of floats may lose a credit; for which counts of blocks is a
  set (`Roundings`), so that nothing depends on a float's digits.
- `Rewards`: one rule of each policy; the row locks of inviters are left out.
- `LiveChat`: the page that was opened stays open, the partner's page is left out, and the
  broadcast job with its event is one step.
- `Accounts`: a LINE id is found as an e-mail address is; start credits, messages and changes
  of the user type are left out; the number of a guest who withdrew stays taken.
- `OrderForms`: a tick is five minutes; area, length and fixed prices are left out.
- `SettingsTables`: an operator does one thing at a time.
- `Seed`: the rows of a phase are one step; the sample messages' texts are left out.
- `Rankings`: days stand for instants, every row earns at most once a day.
- `Notices`: texts and the operators' mail are left out; fetching the devices and pruning a
  dead one is one step of a push; the flash of a new order goes to all screens.
- `ProfileSearch`: what members fill in is fixed and their attributes are traits; an answer
  kept for ten seconds may be shown at any later time.
- `Reminders`: jobs that are due are taken before the next tick, and removing the old ones is
  one step. Reminders of start and arrival are switched off in the code. A job whose
  worker has died is handed out once more and then has failed (the queue's default), so that
  what it was to do may not happen: `RemindersSent` says so.
- Devices, alerts on their way and the rows of a result page are sets, because nothing that is
  promised depends on their order.
- `Patrons`: one patron. `OrderBoard`: joining a room is one step; availability and page
  numbers are left out.

What reading the code for these models showed besides the findings:

- `notifications.ts:91` sends an event that is meant to open the review dialog; the client
  (`src/src/client/hooks.ts`) has no case for it.
- A reminder that was sent keeps its id for a week, so that the one for an extended order
  is dropped; when an operator moves the times within the lead, a late cast gets none.
- A patron whose last use was at a month's end gets the second warning on several days.
- A socket's room is chosen when it connects and is not changed when the cast is moved;
  rings go to it all the same, also for orders of guests who block the cast; an order that
  its guest closes rings nobody.
- `profiles/ranking/route.ts:57` splits an unset filter into one template with id 0.

## 6. Not modelled

- Receipts, histories and lists of an admin: queries over rows that other modules write, and their
  layout. They have no state and take no decision.
- Texts: mail, SMS, LINE messages, the announcements to many, help pages. No code reads
  them back; what decides whether and when they go out is in `Notices` and `Reminders`.
- Friend relations and reminders before the start: switched off in the configuration.
- Pictures and uploads: what is stored is read by browsers only.
- Screens that show one answer and send one request, and changes of one's own profile.
- The company's running balance and the CSV of transfers (a listed hazard for the former).
- `schema.prisma` and `api-types.ts`: declarations. The rows of the models are theirs.

## 7. What could follow

1. The selection surcharge, fixed prices and final discounts in `Pricing`.
2. Abstract specifications for the individual order and for payouts, with the races the code
   leaves open as steps of their own.
3. Two orders of one guest in `GroupOrder`, in place of `OtherFrozen`.
