------------------------------- MODULE Services -------------------------------
(***************************************************************************)
(* The services whose requests follow the same pattern and share no rows:  *)
(* individual orders, payouts, card payments and gifts.  They run in the   *)
(* same handlers; a behaviour is about the requests of one desk, so that   *)
(* what is checked of each of them needs one run.                          *)
(***************************************************************************)
EXTENDS IndividualOrder, Payouts, CardPayment, Gifts

CONSTANT DeskRequests \* bound: DeskRequests[d] requests arrive at desk d

Desks == {"order", "payout", "card", "gift"}

ASSUME DeskAssumption == DeskRequests \in [Desks -> 0..MaxRequests]

VARIABLE desk \* the service whose requests arrive

servicesVars == <<handlerVars, orderVars, payoutVars, cardVars, giftVars, desk>>

Opening(d, openings) == IF desk = d THEN openings ELSE {0}

ServicesInit ==
    /\ desk \in Desks
    /\ HandlersInit
    /\ spendable \in Opening("order", OrderOpenings) /\ OrderIdle
    /\ savings \in Opening("payout", PayoutOpenings) /\ PayoutIdle
    /\ tokens \in Opening("card", {0, 1}) /\ CardIdle
    /\ wallet \in Opening("gift", GiftOpenings) /\ GiftIdle

At(d) == desk = d /\ UNCHANGED desk

AtOrders   == At("order")  /\ UNCHANGED <<payoutVars, cardVars, giftVars>>
AtPayouts  == At("payout") /\ UNCHANGED <<orderVars, cardVars, giftVars>>
AtPayments == At("card")   /\ UNCHANGED <<orderVars, payoutVars, giftVars>>
AtGifts    == At("gift")   /\ UNCHANGED <<orderVars, payoutVars, cardVars>>

ServicesNext ==
    /\ \/ AtOrders   /\ OrderNext
       \/ AtPayouts  /\ PayoutNext
       \/ AtPayments /\ CardNext
       \/ AtGifts    /\ GiftNext
    /\ begun' <= DeskRequests[desk]

\* A handler of an order that has started runs on, the time the order was asked
\* for passes, and the queue delivers the delayed job.
ServicesFairness ==
    /\ WF_servicesVars(AtOrders /\ TimePasses)
    /\ \A h \in Handlers : WF_servicesVars(AtOrders /\ OrderStep(h))
    /\ WF_servicesVars(AtOrders /\ \E h \in Handlers : AutoOpenMeetingWorker(h))

ServicesSpec == ServicesInit /\ [][ServicesNext]_servicesVars /\ ServicesFairness
=============================================================================
