----------------------------- MODULE CardPayment -----------------------------
(***************************************************************************)
(* A guest registers a credit card and buys points with 3-D Secure         *)
(* (the routes financial/credit_card, charge, parres and parres_buy,       *)
(* services/buy-credits.ts and payment-gateway.ts).                        *)
(*                                                                         *)
(* A card is a token that users.creditcard_token holds, marked as pending  *)
(* until the gateway calls back.  A purchase is enrolled under the token   *)
(* of the moment; the gateway's callback captures it, looks up the user by *)
(* that token, and books it unless its order number is booked already.     *)
(* The gateway may call back again, also while the first call is handled.  *)
(***************************************************************************)
EXTENDS RequestHandlers

VARIABLES
    token,    \* users.creditcard_token
    cardRow,  \* credit_cards.status
    tokens,   \* tokens generated so far, numbered
    enrolled, \* tokens whose registration the gateway has accepted
    bought,   \* bought[i]: the i-th purchase at the gateway
    entries,  \* entries[i]: conversions recorded with its order number
    renewed,  \* the token has changed while a purchase was open
    turn      \* turn[h]: the registration or the purchase h is about

cardVars == <<token, cardRow, tokens, enrolled, bought, entries, renewed, turn>>

Purchases == 1..MaxRequests
NoToken == [id |-> 0, pending |-> FALSE]
NoPurchase == [state |-> "none", sendId |-> NoToken]
Token == [id : Nat, pending : BOOLEAN]
Turn == [id : Nat, sendId : Token]
NoTurn == [id |-> 0, sendId |-> NoToken]

CardLabels == {"idle", "newToken", "enrollCard", "findPending",
               "setToken", "setValid", "enrollBuy", "capture", "findUser", "look", "bookBuy"}

CardTypeOK ==
    /\ at \in [Handlers -> CardLabels]
    /\ token \in Token /\ cardRow \in {"none", "invalid", "valid"}
    /\ tokens \in Nat /\ enrolled \subseteq Nat \ {0}
    /\ bought \in [Purchases -> [state : {"none", "enrolled", "captured"}, sendId : Token]]
    /\ entries \in [Purchases -> Nat]
    /\ renewed \in BOOLEAN
    /\ turn \in [Handlers -> Turn]

\* A guest without a card, or with one that is confirmed.
CardIdle ==
    /\ token = [id |-> tokens, pending |-> FALSE]
    /\ cardRow = IF tokens = 0 THEN "none" ELSE "valid"
    /\ enrolled = 1..tokens
    /\ bought = [i \in Purchases |-> NoPurchase]
    /\ entries = [i \in Purchases |-> 0]
    /\ renewed = FALSE
    /\ turn = [h \in Handlers |-> NoTurn]

CardInit == HandlersInit /\ tokens \in {0, 1} /\ CardIdle

-----------------------------------------------------------------------------
(* Helpers *)

Take(h, i, t) == turn' = [turn EXCEPT ![h] = [id |-> i, sendId |-> t]]

CardDone(h) == End(h) /\ turn' = [turn EXCEPT ![h] = NoTurn]

InProgress == \E i \in Purchases : bought[i].state # "none" /\ entries[i] = 0

SetToken(t) ==
    /\ token' = t
    /\ renewed' = (renewed \/ InProgress)

KeepToken == UNCHANGED <<token, renewed>>

\* enroll3ds: the gateway takes the enrolment or leaves things as they were.
Enroll3ds(before, after) == {before, after}

\* payment3ds captures the money.  Asked again it names the same order.
Payment3ds(p) == [state |-> "captured", sendId |-> p.sendId]

-----------------------------------------------------------------------------
(* Registering a card *)

\* The row of the card is written first, ...
RegisterCard(h) ==
    /\ Begin(h, "newToken")
    /\ cardRow' = "invalid"
    /\ KeepToken /\ UNCHANGED <<tokens, enrolled, bought, entries, turn>>

\* ... then a new token, pending, replaces the user's ...
NewToken(h) ==
    /\ at[h] = "newToken"
    /\ tokens' = tokens + 1
    /\ SetToken([id |-> tokens + 1, pending |-> TRUE])
    /\ Take(h, tokens + 1, NoToken)
    /\ Continue(h, "enrollCard")
    /\ UNCHANGED <<cardRow, enrolled, bought, entries>>

\* ... and the gateway accepts the enrolment under that token, or refuses it.
EnrollCard(h) ==
    /\ at[h] = "enrollCard"
    /\ enrolled' \in Enroll3ds(enrolled, enrolled \cup {turn[h].id})
    /\ CardDone(h)
    /\ KeepToken /\ UNCHANGED <<cardRow, tokens, bought, entries>>

\* The gateway calls parres.  Its answer to "payment" carries the token.
RegistrationCallback(h) ==
    /\ \E t \in enrolled : Take(h, t, NoToken)
    /\ Deliver(h, "findPending") /\ UNCHANGED begun
    /\ KeepToken /\ UNCHANGED <<cardRow, tokens, enrolled, bought, entries>>

\* Mutant of FindPending: whoever waits for a confirmation is found.
FindPendingAny(h) ==
    /\ at[h] = "findPending"
    /\ IF token.pending
       THEN Continue(h, "setToken") /\ UNCHANGED turn
       ELSE CardDone(h)
    /\ KeepToken /\ UNCHANGED <<cardRow, tokens, enrolled, bought, entries>>

FindPending(h) ==
    /\ at[h] = "findPending"
    /\ IF token = [id |-> turn[h].id, pending |-> TRUE]
       THEN Continue(h, "setToken") /\ UNCHANGED turn
       ELSE CardDone(h)
    /\ KeepToken /\ UNCHANGED <<cardRow, tokens, enrolled, bought, entries>>

ConfirmToken(h) ==
    /\ at[h] = "setToken"
    /\ SetToken([id |-> turn[h].id, pending |-> FALSE])
    /\ Continue(h, "setValid")
    /\ UNCHANGED <<cardRow, tokens, enrolled, bought, entries, turn>>

ConfirmCard(h) ==
    /\ at[h] = "setValid"
    /\ cardRow' = "valid"
    /\ CardDone(h)
    /\ KeepToken /\ UNCHANGED <<tokens, enrolled, bought, entries>>

-----------------------------------------------------------------------------
(* Buying points *)

\* Only that there is a token is checked, not that it is confirmed.
MakeCharge(h) ==
    /\ token.id # 0
    /\ Begin(h, "enrollBuy")
    /\ Take(h, 0, token)
    /\ KeepToken /\ UNCHANGED <<cardRow, tokens, enrolled, bought, entries>>

\* The purchase is enrolled under the token, or refused.
EnrollPurchase(h) ==
    /\ at[h] = "enrollBuy"
    /\ LET i == CHOOSE j \in Purchases :
                    /\ bought[j].state = "none"
                    /\ \A k \in 1..j - 1 : bought[k].state # "none"
       IN  bought' \in Enroll3ds(bought, [bought EXCEPT ![i] = [state  |-> "enrolled",
                                                                sendId |-> turn[h].sendId]])
    /\ CardDone(h)
    /\ KeepToken /\ UNCHANGED <<cardRow, tokens, enrolled, entries>>

\* The gateway calls parres_buy, once or more often.
BuyCallback(h) ==
    /\ \E i \in Purchases :
          /\ bought[i].state # "none"
          /\ Take(h, i, bought[i].sendId)
    /\ Deliver(h, "capture") /\ UNCHANGED begun
    /\ KeepToken /\ UNCHANGED <<cardRow, tokens, enrolled, bought, entries>>

Capture(h) ==
    /\ at[h] = "capture"
    /\ bought' = [bought EXCEPT ![turn[h].id] = Payment3ds(bought[turn[h].id])]
    /\ Continue(h, "findUser")
    /\ KeepToken /\ UNCHANGED <<cardRow, tokens, enrolled, entries, turn>>

CaptureRefused(h) ==
    /\ at[h] = "capture"
    /\ CardDone(h)
    /\ KeepToken /\ UNCHANGED <<cardRow, tokens, enrolled, bought, entries>>

\* Mutant of FindUser: only a pending token is looked up.
FindUserPending(h) ==
    /\ at[h] = "findUser"
    /\ IF token = [id |-> turn[h].sendId.id, pending |-> TRUE]
       THEN Continue(h, "look") /\ UNCHANGED turn
       ELSE CardDone(h)
    /\ KeepToken /\ UNCHANGED <<cardRow, tokens, enrolled, bought, entries>>

\* With the mark of a pending token put before the answer's, then as it is.  A
\* purchase enrolled under a pending token has the mark already.
FindUser(h) ==
    /\ at[h] = "findUser"
    /\ LET s == turn[h].sendId
       IN  IF token = s \/ (~s.pending /\ token = [id |-> s.id, pending |-> TRUE])
           THEN Continue(h, "look") /\ UNCHANGED turn
           ELSE CardDone(h)
    /\ KeepToken /\ UNCHANGED <<cardRow, tokens, enrolled, bought, entries>>

\* Mutant of FindBooked: the order number is not looked up.
FindBookedNever(h) ==
    /\ at[h] = "look"
    /\ Continue(h, "bookBuy") /\ UNCHANGED turn
    /\ KeepToken /\ UNCHANGED <<cardRow, tokens, enrolled, bought, entries>>

FindBooked(h) ==
    /\ at[h] = "look"
    /\ IF entries[turn[h].id] > 0 THEN CardDone(h) ELSE Continue(h, "bookBuy") /\ UNCHANGED turn
    /\ KeepToken /\ UNCHANGED <<cardRow, tokens, enrolled, bought, entries>>

\* buyCredits3d: the ledger row, the conversion and the balance.
BuyCredits3d(h) ==
    /\ at[h] = "bookBuy"
    /\ entries' = [entries EXCEPT ![turn[h].id] = @ + 1]
    /\ CardDone(h)
    /\ KeepToken /\ UNCHANGED <<cardRow, tokens, enrolled, bought>>

CardDie(h) ==
    /\ Die(h)
    /\ turn' = [turn EXCEPT ![h] = NoTurn]
    /\ KeepToken /\ UNCHANGED <<cardRow, tokens, enrolled, bought, entries>>

-----------------------------------------------------------------------------
CardNext ==
    \E h \in Handlers :
        \/ RegisterCard(h) \/ NewToken(h) \/ EnrollCard(h)
        \/ RegistrationCallback(h) \/ FindPending(h) \/ ConfirmToken(h) \/ ConfirmCard(h)
        \/ MakeCharge(h) \/ EnrollPurchase(h)
        \/ BuyCallback(h) \/ Capture(h) \/ CaptureRefused(h) \/ FindUser(h)
        \/ FindBooked(h) \/ BuyCredits3d(h)
        \/ CardDie(h)

CardSpec == CardInit /\ [][CardNext]_<<handlerVars, cardVars>>

-----------------------------------------------------------------------------
(* Properties *)

\* parres_buy/route.ts:60-63: as long as callbacks do not overlap, a purchase
\* is booked once, however often the gateway calls and whatever the guest does.
BookedOnce == ~overlapped => \A i \in Purchases : entries[i] <= 1

\* buy-credits.ts:147-150: money that was captured is booked, unless the guest's
\* token changed after the purchase was enrolled: then nobody is found by it.
CapturedIsBooked ==
    Undisturbed /\ ~renewed =>
        \A i \in Purchases : bought[i].state = "captured" => entries[i] > 0

\* credit_card/route.ts:66, parres/route.ts:43-47: a card is valid when the token
\* of the latest registration is confirmed, and only then; the callback of an
\* earlier registration confirms nothing.
CardIsConfirmed ==
    Undisturbed =>
        /\ (cardRow = "valid") = (token.id # 0 /\ ~token.pending)
        /\ token.id = tokens
=============================================================================
