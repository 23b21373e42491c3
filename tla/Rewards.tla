------------------------------- MODULE Rewards -------------------------------
(***************************************************************************)
(* What a settled order sets off (server/services/rewards.ts, called in    *)
(* this order at the end of completeMeeting), and the rewards of reviews.  *)
(*                                                                         *)
(* How often somebody has been paid follows from counting completed orders *)
(* and ledger rows.  Settlements run concurrently; what makes the counts   *)
(* right is that booking an order updates the balances of its guest and    *)
(* its casts, which locks their rows until the commit.  One rule of each   *)
(* policy applies to everybody, and a cast of an order costs one unit.     *)
(***************************************************************************)
EXTENDS RequestHandlers, Sequences

CONSTANTS
    Orders,     \* orders to be settled
    Guests,
    RewardCasts,
    OwnerOf,    \* OwnerOf[m]: the guest of order m
    CastsOf,    \* CastsOf[m]: its casts that are not out
    Private,    \* orders of category individual
    InviterOf,  \* InviterOf[u]: who invited u, or "nobody"
    StepEach, StepLimit, \* fixed_steps: each and limit
    TurnEach, TurnLimit, \* fixed_turnover: each and limit
    ShareLimit           \* relative_turnover: limit

Participants == Guests \cup RewardCasts

ASSUME RewardAssumption ==
    /\ OwnerOf \in [Orders -> Guests] /\ CastsOf \in [Orders -> (SUBSET RewardCasts) \ {{}}]
    /\ Private \subseteq Orders /\ \A m \in Private : Cardinality(CastsOf[m]) = 1
    /\ InviterOf \in [Participants -> Participants \cup {"nobody"}]
    /\ StepEach \in Nat \ {0} /\ TurnEach \in Nat \ {0}
    /\ StepLimit \in Nat /\ TurnLimit \in Nat /\ ShareLimit \in Nat
    /\ IsFiniteSet(RewardCasts) /\ "nobody" \notin Participants /\ "free" \notin Handlers

VARIABLES
    settled,    \* completed orders, in the order of their commits
    lock,       \* lock[u]: the settlement that has updated the row of user u
    paid,       \* paid[k][u]: payouts of kind k about participant u
    patron,     \* patron[c]: users.first_privately_met_user_id of cast c
    firstMet,   \* firstMet[g]: users.first_privately_met_user_id of guest g
    repeats,    \* repeats[c]: users.individual_repeat_count
    reviewed,   \* reviews: order, reviewer and reviewee
    reviews,    \* reviews[u]: number of reviews of u
    work        \* work[h]: what handler h settles or reviews, and has read

rewardVars == <<settled, lock, paid, patron, firstMet, repeats, reviewed, reviews, work>>

InviterKinds == {"inviterSteps", "inviterTurns", "inviterShares"}
Kinds == {"steps", "turns", "patron", "firstCast", "review"} \cup InviterKinds
NoWork == [order |-> "none", rest |-> {}, done |-> {}, paid |-> [k \in {} |-> 0],
           by |-> "nobody", of |-> "nobody"]

RewardsIdle ==
    /\ settled = <<>>
    /\ lock = [u \in Participants |-> "free"]
    /\ paid = [k \in Kinds |-> [u \in Participants |-> 0]]
    /\ patron = [c \in RewardCasts |-> "nobody"]
    /\ firstMet = [g \in Guests |-> "nobody"]
    /\ repeats = [c \in RewardCasts |-> 0]
    /\ reviewed = {} /\ reviews = [u \in Participants |-> 0]
    /\ work = [h \in Handlers |-> NoWork]

RewardsInit == HandlersInit /\ RewardsIdle

-----------------------------------------------------------------------------
(* Counting *)

Members(m) == {OwnerOf[m]} \cup CastsOf[m]

Done == {settled[i] : i \in 1..Len(settled)}

\* Completed orders of u, and what they came to.
OrdersOf(u, S) == {m \in S : u \in Members(m)}
Turnover(u, S) ==
    IF u \in RewardCasts THEN Cardinality(OrdersOf(u, S))
    ELSE Cardinality(UNION {{m} \X CastsOf[m] : m \in OrdersOf(u, S)})

\* fixed_steps: one payout when the n-th order completes a step.
StepDue(n) == IF n % StepEach = 0 /\ n \div StepEach <= StepLimit THEN 1 ELSE 0

\* fixed_turnover: as many as the turnover entitles to, the limit allows, and
\* have not been paid before.
TurnsDue(t, before) ==
    Cardinality({k \in 1..t \div TurnEach : k > before /\ k <= TurnLimit})

-----------------------------------------------------------------------------
(* Settling an order *)

Work(h, w) == work' = [work EXCEPT ![h] = w]

RewardDone(h) ==
    /\ End(h) /\ Work(h, NoWork)
    /\ lock' = [u \in Participants |-> IF lock[u] = h THEN "free" ELSE lock[u]]

PaymentsSame == UNCHANGED <<paid, patron, firstMet, repeats>>
ReviewsSame  == UNCHANGED <<reviewed, reviews>>

\* An order is settled by one handler only; Settlement is about the others.
CompleteMeeting(h) ==
    /\ Begin(h, "book")
    /\ \E m \in Orders \ Done :
          /\ \A g \in Handlers : work[g].order # m
          /\ Work(h, [NoWork EXCEPT !.order = m, !.rest = CastsOf[m]])
    /\ PaymentsSame /\ ReviewsSame /\ UNCHANGED <<settled, lock>>

Mine(h, u) == lock[u] \in {h, "free"}

\* Mutant of CreateMeetingTransactions: booking does not wait for the rows.
CreateMeetingTransactionsAnyway(h) ==
    /\ at[h] = "book"
    /\ Continue(h, "count") /\ UNCHANGED <<work, lock>>
    /\ PaymentsSame /\ ReviewsSame /\ UNCHANGED settled

\* One ledger row for each cast: the guest's balance, then the cast's.
CreateMeetingTransactions(h) ==
    /\ at[h] = "book"
    /\ \E c \in work[h].rest :
          /\ Mine(h, OwnerOf[work[h].order]) /\ Mine(h, c)
          /\ lock' = [lock EXCEPT ![OwnerOf[work[h].order]] = h, ![c] = h]
          /\ Work(h, [work[h] EXCEPT !.rest = @ \ {c}])
          /\ Continue(h, IF work[h].rest = {c} THEN "count" ELSE "book")
    /\ PaymentsSame /\ ReviewsSame /\ UNCHANGED settled

\* The order is marked completed, and the counts are read: committed orders and
\* this one, and the payouts recorded so far.
CountOrders(h) ==
    /\ at[h] = "count"
    /\ Work(h, [work[h] EXCEPT !.done = Done \cup {work[h].order}, !.paid = paid])
    /\ Continue(h, "reward")
    /\ PaymentsSame /\ ReviewsSame /\ UNCHANGED <<settled, lock>>

\* Casts of order m who have no patron yet.
New(m) == {c \in CastsOf[m] : patron[c] = "nobody"}

\* The cast the guest of order m met first in private, m included.
FirstCast(m) ==
    IF firstMet[OwnerOf[m]] = "nobody" /\ m \in Private
    THEN CHOOSE c \in CastsOf[m] : TRUE
    ELSE firstMet[OwnerOf[m]]

Steps(w, u) == StepDue(Cardinality(OrdersOf(u, w.done)))
Turns(w, k, u) == TurnsDue(Turnover(u, w.done), w.paid[k][u])

\* rewardInviters: payouts of kind k to who invited u.
InviterPayouts(w, k, u) ==
    IF InviterOf[u] = "nobody" THEN 0
    ELSE CASE k = "inviterSteps" -> Steps(w, u)
           [] k = "inviterTurns" -> Turns(w, k, u)
           [] k = "inviterShares" /\ w.paid[k][u] < ShareLimit -> 1
           [] OTHER -> 0

\* Payouts of kind k about u by the first n of rewardUsage, rewardAttendance,
\* rewardInviters, rewardPatron and rewardCast.
Payouts(w, n, k, u) ==
    LET m        == w.order
        rewarded == (n >= 1 /\ u = OwnerOf[m]) \/ (n >= 2 /\ u \in CastsOf[m])
    IN  CASE k = "steps" /\ rewarded -> Steps(w, u)
          [] k = "turns" /\ rewarded -> Turns(w, k, u)
          [] k \in InviterKinds /\ n >= 3 /\ u \in Members(m) -> InviterPayouts(w, k, u)
          [] k = "patron" /\ n >= 4 /\ u \in CastsOf[m] /\ New(m) = {} -> 1
          [] k = "firstCast" /\ n >= 5 /\ u = OwnerOf[m] /\ FirstCast(m) # "nobody" -> 1
          [] OTHER -> 0

\* rewardPatron stops at the first new cast it finds, in no particular order.
RewardPatron(m, n) ==
    IF n >= 4 /\ New(m) # {}
    THEN \E c \in New(m) : patron' = [patron EXCEPT ![c] = OwnerOf[m]]
    ELSE UNCHANGED patron

UpdateCastRepeatCounts(w, n) ==
    LET m == w.order
        previous == {e \in (Private \cap w.done) \ {m} :
                        OwnerOf[e] = OwnerOf[m] /\ CastsOf[e] = CastsOf[m]}
    IN  repeats' = [c \in RewardCasts |->
            repeats[c] + IF n >= 6 /\ m \in Private /\ c \in CastsOf[m] /\ previous # {}
                         THEN 1 ELSE 0]

\* The order is committed with what the first n interactors wrote.
CommitRewards(h, n) ==
    LET w == work[h]
    IN  /\ settled' = Append(settled, w.order)
        /\ paid' = [k \in Kinds |-> [u \in Participants |-> paid[k][u] + Payouts(w, n, k, u)]]
        /\ RewardPatron(w.order, n)
        /\ firstMet' = [firstMet EXCEPT ![OwnerOf[w.order]] =
                           IF n >= 5 THEN FirstCast(w.order) ELSE @]
        /\ UpdateCastRepeatCounts(w, n)
        /\ lock' = [u \in Participants |-> IF lock[u] = h THEN "free" ELSE lock[u]]
        /\ Work(h, NoWork)
        /\ ReviewsSame

Reward(h) == at[h] = "reward" /\ End(h) /\ CommitRewards(h, 6)

\* One of them raises after the card was charged: the rest is committed.
RewardRaises(h) ==
    /\ at[h] = "reward"
    /\ Refused(h, "idle")
    /\ \E n \in 0..5 : CommitRewards(h, n)

\* h waits for a row that g has updated.
WaitsFor(h, g) ==
    /\ at[h] = "book"
    /\ \E u \in {OwnerOf[work[h].order]} \cup work[h].rest : lock[u] = g

\* The database ends a deadlock of two settlements by aborting one of them.
SettlementAborted(h) ==
    /\ \E g \in Handlers \ {h} : WaitsFor(h, g) /\ WaitsFor(g, h)
    /\ RewardDone(h)
    /\ PaymentsSame /\ ReviewsSame /\ UNCHANGED settled

-----------------------------------------------------------------------------
(* Reviews *)

\* The review route: participants of a completed order review each other, but
\* no cast another cast.
Review(h) ==
    /\ Begin(h, "findReview")
    /\ \E m \in Done : \E r, u \in Members(m) :
          /\ r # u /\ ~(r \in RewardCasts /\ u \in RewardCasts)
          /\ Work(h, [NoWork EXCEPT !.order = m, !.by = r, !.of = u])
    /\ PaymentsSame /\ ReviewsSame /\ UNCHANGED <<settled, lock>>

\* Nobody reviews the same participant of an order twice.
FindReview(h) ==
    /\ at[h] = "findReview"
    /\ IF <<work[h].order, work[h].by, work[h].of>> \in reviewed
       THEN RewardDone(h)
       ELSE Continue(h, "createReview") /\ UNCHANGED <<work, lock>>
    /\ PaymentsSame /\ ReviewsSame /\ UNCHANGED settled

CreateReview(h) ==
    /\ at[h] = "createReview"
    /\ reviewed' = reviewed \cup {<<work[h].order, work[h].by, work[h].of>>}
    /\ reviews' = [reviews EXCEPT ![work[h].of] = @ + 1]
    /\ Continue(h, "payReview")
    /\ PaymentsSame /\ UNCHANGED <<settled, lock, work>>

\* rewardForReviews, in no transaction: all reviews there are by now are counted.
RewardForReviews(h) ==
    /\ at[h] = "payReview"
    /\ paid' = [paid EXCEPT !["review"][work[h].of] = @ + StepDue(reviews[work[h].of])]
    /\ RewardDone(h)
    /\ ReviewsSame /\ UNCHANGED <<settled, patron, firstMet, repeats>>

\* What was not committed is rolled back.
RewardDie(h) ==
    /\ Die(h)
    /\ Work(h, NoWork)
    /\ lock' = [u \in Participants |-> IF lock[u] = h THEN "free" ELSE lock[u]]
    /\ PaymentsSame /\ ReviewsSame /\ UNCHANGED settled

-----------------------------------------------------------------------------
RewardsNext ==
    \E h \in Handlers :
        \/ CompleteMeeting(h) \/ CreateMeetingTransactions(h) \/ CountOrders(h) \/ Reward(h)
        \/ RewardRaises(h) \/ SettlementAborted(h)
        \/ Review(h) \/ FindReview(h) \/ CreateReview(h) \/ RewardForReviews(h)
        \/ RewardDie(h)

RewardsSpec == RewardsInit /\ [][RewardsNext]_<<handlerVars, rewardVars>>

-----------------------------------------------------------------------------
(* Properties *)

\* The payouts of a fixed_steps and of a fixed_turnover rule by then.
StepsUpTo(n) == Cardinality({k \in 1..StepLimit : k * StepEach <= n})
TurnsUpTo(t) == Cardinality({k \in 1..TurnLimit : k * TurnEach <= t})
SharesUpTo(n) == IF n < ShareLimit THEN n ELSE ShareLimit

\* The places in settled of the orders that satisfy P.
Places(P(_)) == {i \in 1..Len(settled) : P(settled[i])}

\* rewards.ts:373-380, 474-477, 614-618: the guest of a cast's first order is the
\* cast's patron if no other cast of it was new, and nobody replaces a patron; the
\* first private cast of a guest is paid for every order from there on; a repeat
\* is a private order after another one of the same two.
FirstMeetingsCount ==
    faults = 0 =>
        /\ \A c \in RewardCasts :
              LET mine == Places(LAMBDA m : c \in CastsOf[m])
              IN  /\ patron[c] # "nobody" => \E i \in mine : OwnerOf[settled[i]] = patron[c]
                  /\ \A i \in mine : (\A j \in mine : i <= j) /\ CastsOf[settled[i]] = {c}
                                        => patron[c] = OwnerOf[settled[i]]
                  /\ mine # {} => paid["patron"][c] < Cardinality(mine)
                  /\ repeats[c] = Cardinality({i \in mine : settled[i] \in Private /\
                        \E j \in mine : j < i /\ settled[j] \in Private
                                         /\ OwnerOf[settled[j]] = OwnerOf[settled[i]]})
        /\ \A g \in Guests :
              LET private == Places(LAMBDA m : OwnerOf[m] = g /\ m \in Private)
                  since   == Places(LAMBDA m : OwnerOf[m] = g)
              IN  /\ (firstMet[g] = "nobody") = (private = {})
                  /\ \A i \in private : (\A j \in private : i <= j) =>
                        /\ CastsOf[settled[i]] = {firstMet[g]}
                        /\ paid["firstCast"][g] = Cardinality({j \in since : j >= i})

\* rewards.ts:20-35: however settlements interleave, every participant and every
\* inviter has been paid what the rules give for the orders and the turnover so
\* far, no step left out and none paid twice; the same for reviews that are
\* written one after the other.
RewardsFollowRules ==
    faults = 0 =>
        /\ \A u \in Participants :
              LET n == Cardinality(OrdersOf(u, Done))
                  t == Turnover(u, Done)
                  invited(x) == IF InviterOf[u] = "nobody" THEN 0 ELSE x
              IN  /\ paid["steps"][u] = StepsUpTo(n)
                  /\ paid["turns"][u] = TurnsUpTo(t)
                  /\ paid["inviterSteps"][u] = invited(StepsUpTo(n))
                  /\ paid["inviterTurns"][u] = invited(TurnsUpTo(t))
                  /\ paid["inviterShares"][u] = invited(SharesUpTo(n))
                  /\ Undisturbed => paid["review"][u] = StepsUpTo(reviews[u])
        /\ Undisturbed => \A u \in Participants :
              reviews[u] = Cardinality({r \in reviewed : r[3] = u})
        /\ FirstMeetingsCount
=============================================================================
