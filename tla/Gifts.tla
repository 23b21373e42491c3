-------------------------------- MODULE Gifts --------------------------------
(***************************************************************************)
(* Gifts between a guest and a cast (services/stickers.ts and the routes   *)
(* under conversations/[id]/stickers): gifts a guest buys, the roulette    *)
(* whose prize is a gift, and the gifts a cast hands out in a campaign.    *)
(*                                                                         *)
(* A bought gift is handed over before it is paid for, a prize after, and  *)
(* a campaign gift is rewarded after it was handed over; each of these is  *)
(* a transaction of its own.                                               *)
(***************************************************************************)
EXTENDS RequestHandlers, CardCharges, Functions

CONSTANTS
    GiftPrice,    \* price of the gift a guest buys
    RollFee,      \* fee of the roulette
    GiftOpenings, \* spendable credits the guest may start with
    Reward,       \* cast_reward_amount of the campaign
    Milestone,    \* milestone_gift_threshold; 0 switches it off
    DailyLimit,   \* cast_daily_limit of the campaign
    Recipients    \* guests a cast can hand campaign gifts to

ASSUME GiftAssumption ==
    /\ GiftPrice \in Nat \ {0} /\ RollFee \in Nat /\ GiftOpenings \subseteq Int
    /\ Reward \in Nat /\ Milestone \in Nat /\ DailyLimit \in Nat
    /\ IsFiniteSet(Recipients)

VARIABLES
    wallet,   \* users.credit_balance of the guest
    handed,   \* gifts the guest has handed over
    sold,     \* ledger rows that pay for one of them
    rolls,    \* rolls[i]: the i-th row of roulette_rolls
    fees,     \* fees[i]: ledger rows that pay the fee of the i-th roll
    prizes,   \* prizes[i]: gifts handed over as the prize of the i-th roll
    today,    \* today[r]: campaign gifts r was given today
    earlier,  \* campaign gifts of the days before
    rewarded, \* credits the cast was rewarded with
    gift      \* gift[h]: what handler h has read

giftVars == <<wallet, handed, sold, rolls, fees, prizes, today, earlier, rewarded, gift>>

Rolls == 1..MaxRequests
NoGift == [n |-> 0, to |-> "nobody"]

GiftIdle ==
    /\ handed = 0 /\ sold = 0
    /\ rolls = [i \in Rolls |-> "none"]
    /\ fees = [i \in Rolls |-> 0] /\ prizes = [i \in Rolls |-> 0]
    /\ today = [r \in Recipients |-> 0] /\ earlier = 0 /\ rewarded = 0
    /\ gift = [h \in Handlers |-> NoGift]

GiftInit == HandlersInit /\ wallet \in GiftOpenings /\ GiftIdle

-----------------------------------------------------------------------------
(* Helpers *)

Hold(h, n, r) == gift' = [gift EXCEPT ![h] = [n |-> n, to |-> r]]

GiftDone(h) == End(h) /\ Hold(h, 0, "nobody")

\* What a step that is about one of the three leaves alone.
SalesSame    == UNCHANGED <<handed, sold>>
RouletteSame == UNCHANGED <<rolls, fees, prizes>>
CampaignSame == UNCHANGED <<today, earlier, rewarded>>
GiftReads    == SalesSame /\ RouletteSame /\ CampaignSame /\ UNCHANGED wallet

HandedToday == FoldFunction(LAMBDA m, n : m + n, 0, today)

-----------------------------------------------------------------------------
(* purchaseSticker *)

PurchaseSticker(h) == Begin(h, "topUp") /\ GiftReads /\ UNCHANGED gift

\* The balance is read once: refused in debt, otherwise the rest is charged.
PrepareStickerFinances(h) ==
    /\ at[h] = "topUp"
    /\ IF wallet < 0 THEN GiftDone(h)
       ELSE IF wallet >= GiftPrice
       THEN Continue(h, "give") /\ UNCHANGED gift
       ELSE Continue(h, "gatewayTopUp") /\ Hold(h, Charged(GiftPrice - wallet), "nobody")
    /\ GiftReads

TopUpAccepted(h) ==
    /\ at[h] = "gatewayTopUp" /\ "taken" \in CardAnswers(gift[h].n)
    /\ Continue(h, "creditTopUp")
    /\ GiftReads /\ UNCHANGED gift

TopUpRefused(h) ==
    /\ at[h] = "gatewayTopUp" /\ "refused" \in CardAnswers(gift[h].n)
    /\ GiftDone(h) /\ GiftReads

CreditTopUp(h) ==
    /\ at[h] = "creditTopUp"
    /\ wallet' = wallet + gift[h].n
    /\ Continue(h, "give")
    /\ SalesSame /\ RouletteSame /\ CampaignSame /\ UNCHANGED gift

\* giveSticker: the message and the gift in one transaction.
GiveSticker(h) ==
    /\ at[h] = "give"
    /\ handed' = handed + 1
    /\ Continue(h, "sell")
    /\ RouletteSame /\ CampaignSame /\ UNCHANGED <<wallet, sold, gift>>

\* The price is charged whatever the balance is by now.
CreateStickerTransactions(h) ==
    /\ at[h] = "sell"
    /\ wallet' = wallet - GiftPrice
    /\ sold' = sold + 1
    /\ GiftDone(h)
    /\ RouletteSame /\ CampaignSame /\ UNCHANGED handed

-----------------------------------------------------------------------------
(* The roulette *)

\* rouletteInit: only who can pay the fee gets a roll, or pays for one.
OpenRoulette(h) ==
    /\ wallet >= RollFee
    /\ Begin(h, "findRoll") /\ GiftReads /\ UNCHANGED gift

PayForPrize(h) ==
    /\ wallet >= RollFee
    /\ Begin(h, "pickRoll") /\ GiftReads /\ UNCHANGED gift

\* Mutant of FindRoll: every visit rolls again.
FindRollAgain(h) ==
    /\ at[h] = "findRoll"
    /\ Continue(h, "newRoll") /\ UNCHANGED gift
    /\ GiftReads

\* buildOrFetchRouletteRoll: a pending roll is shown again, ...
FindRoll(h) ==
    /\ at[h] = "findRoll"
    /\ IF \E i \in Rolls : rolls[i] = "pending"
       THEN GiftDone(h)
       ELSE Continue(h, "newRoll") /\ UNCHANGED gift
    /\ GiftReads

\* ... otherwise there is a new one.
CreateRoll(h) ==
    /\ at[h] = "newRoll"
    /\ LET i == CHOOSE j \in Rolls : rolls[j] = "none" /\ \A k \in 1..j - 1 : rolls[k] # "none"
       IN  rolls' = [rolls EXCEPT ![i] = "pending"]
    /\ GiftDone(h)
    /\ SalesSame /\ CampaignSame /\ UNCHANGED <<wallet, fees, prizes>>

\* payForRoulettePrize takes any pending roll; then it pays, ...
PickRoll(h) ==
    /\ at[h] = "pickRoll"
    /\ \/ \E i \in Rolls :
            /\ rolls[i] = "pending"
            /\ Continue(h, "payRoll") /\ Hold(h, i, "nobody")
       \/ /\ \A i \in Rolls : rolls[i] # "pending"
          /\ GiftDone(h)
    /\ GiftReads

PayRoll(h) ==
    /\ at[h] = "payRoll"
    /\ wallet' = wallet - RollFee
    /\ fees' = [fees EXCEPT ![gift[h].n] = @ + 1]
    /\ Continue(h, "prize")
    /\ SalesSame /\ CampaignSame /\ UNCHANGED <<rolls, prizes, gift>>

\* ... hands the prize over ...
GivePrize(h) ==
    /\ at[h] = "prize"
    /\ prizes' = [prizes EXCEPT ![gift[h].n] = @ + 1]
    /\ Continue(h, "closeRoll")
    /\ SalesSame /\ CampaignSame /\ UNCHANGED <<wallet, rolls, fees, gift>>

\* ... and closes the roll.
CloseRoll(h) ==
    /\ at[h] = "closeRoll"
    /\ rolls' = [rolls EXCEPT ![gift[h].n] = "done"]
    /\ GiftDone(h)
    /\ SalesSame /\ CampaignSame /\ UNCHANGED <<wallet, fees, prizes>>

-----------------------------------------------------------------------------
(* Campaign gifts: purchaseEventGift *)

PurchaseEventGift(h) ==
    /\ \E r \in Recipients : Hold(h, 0, r)
    /\ Begin(h, "countToday")
    /\ GiftReads

CheckDailyLimit(h) ==
    /\ at[h] = "countToday"
    /\ IF HandedToday >= DailyLimit
       THEN GiftDone(h)
       ELSE Continue(h, "recipientToday") /\ UNCHANGED gift
    /\ GiftReads

CheckRecipient(h) ==
    /\ at[h] = "recipientToday"
    /\ IF today[gift[h].to] > 0
       THEN GiftDone(h)
       ELSE Continue(h, "giveEvent") /\ UNCHANGED gift
    /\ GiftReads

GiveEventSticker(h) ==
    /\ at[h] = "giveEvent"
    /\ today' = [today EXCEPT ![gift[h].to] = @ + 1]
    /\ Continue(h, "reward")
    /\ SalesSame /\ RouletteSame /\ UNCHANGED <<wallet, earlier, rewarded, gift>>

\* Past the milestone double, and on it the lump sum as well.
RewardFor(n) ==
    IF Milestone = 0 \/ n < Milestone THEN Reward
    ELSE IF n = Milestone THEN Reward + Reward * Milestone ELSE 2 * Reward

\* createEventGiftReward counts all gifts there are when it runs.
CreateEventGiftReward(h) ==
    /\ at[h] = "reward"
    /\ rewarded' = rewarded + RewardFor(earlier + HandedToday)
    /\ GiftDone(h)
    /\ SalesSame /\ RouletteSame /\ UNCHANGED <<wallet, today, earlier>>

DayPasses ==
    /\ HandedToday > 0
    /\ earlier' = earlier + HandedToday
    /\ today' = [r \in Recipients |-> 0]
    /\ SalesSame /\ RouletteSame /\ UNCHANGED <<handlerVars, wallet, rewarded, gift>>

-----------------------------------------------------------------------------
\* The guest's credits are spent on something else meanwhile.
SpendGiftMoney(h) ==
    /\ wallet > 0
    /\ Begin(h, "idle")
    /\ wallet' = wallet - 1
    /\ SalesSame /\ RouletteSame /\ CampaignSame /\ UNCHANGED gift

GiftDie(h) == Die(h) /\ Hold(h, 0, "nobody") /\ GiftReads

GiftNext ==
    \/ \E h \in Handlers :
          \/ PurchaseSticker(h) \/ PrepareStickerFinances(h) \/ TopUpAccepted(h)
          \/ TopUpRefused(h) \/ CreditTopUp(h) \/ GiveSticker(h) \/ CreateStickerTransactions(h)
          \/ OpenRoulette(h) \/ FindRoll(h) \/ CreateRoll(h)
          \/ PayForPrize(h) \/ PickRoll(h) \/ PayRoll(h) \/ GivePrize(h) \/ CloseRoll(h)
          \/ PurchaseEventGift(h) \/ CheckDailyLimit(h) \/ CheckRecipient(h)
          \/ GiveEventSticker(h) \/ CreateEventGiftReward(h)
          \/ SpendGiftMoney(h) \/ GiftDie(h)
    \/ DayPasses

GiftSpec == GiftInit /\ [][GiftNext]_<<handlerVars, giftVars>>

-----------------------------------------------------------------------------
(* Properties *)

\* finances.ts:342-365, stickers-shared.ts:48-55: unless requests overlap, what
\* is handed over has been paid for from credits the guest had, and a gift or a
\* roll never makes a debt, whichever of the requests are cut off.
GiftLeavesNoDebt ==
    ~overlapped =>
        /\ handed > 0 \/ (\E i \in Rolls : fees[i] > 0) => wallet >= 0
        /\ AtRest => handed - sold \in 0..faults

\* stickers.ts:392-393, 441-481: a roll that is pending is not paid for, and
\* there is one at most, so nobody rolls again; a closed one was paid for once and
\* its prize was handed over once.
RollPaidOnce ==
    Undisturbed =>
        /\ \A i, j \in Rolls : rolls[i] = "pending" /\ rolls[j] = "pending" => i = j
        /\ \A i \in Rolls :
              fees[i] = prizes[i] /\ fees[i] = IF rolls[i] = "done" THEN 1 ELSE 0

\* stickers.ts:300-305: the rewards of one gift at a time add up to the single
\* reward below the milestone, and to the double one for every gift from there on.
MilestoneTotal ==
    Undisturbed =>
        LET n == earlier + HandedToday
        IN  rewarded = IF Milestone = 0 \/ n < Milestone THEN n * Reward ELSE 2 * n * Reward

\* All that gifts and rolls cost and give back is booked once.
GiftsAddUp == GiftLeavesNoDebt /\ RollPaidOnce /\ MilestoneTotal
=============================================================================
