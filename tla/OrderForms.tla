------------------------------ MODULE OrderForms ------------------------------
(***************************************************************************)
(* The wizard with which a guest orders casts                              *)
(* (components/screens/meetings/OrderWizardPage.tsx, services/             *)
(* order-forms.ts, meetings/setup.ts, the routes meetings/new, confirm and *)
(* POST /meetings): the form, the confirmation, which prices the order and *)
(* writes nothing, and the creation, which sends the form a second time.   *)
(* One visit of one guest; operators change the price list meanwhile.      *)
(* Area, length, preferences and the message travel along and are left out.*)
(***************************************************************************)
EXTENDS RequestHandlers, Sequences

CONSTANTS
    Ranks,       \* the price list
    BranchOf,    \* BranchOf[r]: the branch that offers it
    PriceLists,  \* bound: the base prices, and which menus a guest may offer more for
    Proposals,   \* bound: what guests offer
    HeadCounts,       \* numbers of casts that can be asked for
    Delays,      \* "in so many minutes", in ticks of five minutes
    Times,       \* bound: times of day the guest asks for
    MaxTick,     \* bound: the time that passes
    MaxEdits     \* bound: changes of the form

ASSUME FormAssumption ==
    /\ Ranks # {} /\ "none" \notin Ranks /\ HeadCounts # {}
    /\ Proposals \subseteq Nat \ {0} /\ HeadCounts \subseteq Nat \ {0}
    /\ Delays \subseteq Nat /\ Times \subseteq Nat
    /\ PriceLists \subseteq [Ranks -> [base : Nat, proposable : BOOLEAN]]
    /\ MaxTick \in Nat /\ MaxEdits \in Nat

VARIABLES
    tick,      \* the clock
    prices,    \* prices[r]: base price, and whether a guest may offer more
    revision,  \* how often the price list has changed
    owes,      \* the guest's balance has become negative
    wizard,    \* the step, a request under way, the options loaded, the preview
    draft,     \* the fields of the form
    edits,     \* changes of the form so far
    sent,      \* sent[h]: the form handler h has received, and what it has made of it
    orders     \* the orders written, each with what was shown and when it was set up

formVars == <<tick, prices, revision, owes, wizard, draft, edits, sent, orders>>

MinDelay == 6
NoRank == "none"

DefaultDraft(b) ==
    [branch |-> b, rank |-> NoRank, needed |-> CHOOSE n \in HeadCounts : \A m \in HeadCounts : n <= m,
     minimum |-> 0, price |-> 0, mode |-> "delay", when |-> MinDelay]
NoPreview == [at |-> 0, rank |-> NoRank, needed |-> 0, minimum |-> 0, base |-> 0, start |-> 0,
              mode |-> "delay"]
NotSent == [for |-> "confirm", body |-> DefaultDraft("none"), at |-> 0]
NoOptions == <<>>

FormsIdle ==
    /\ tick = 0 /\ revision = 0 /\ owes = FALSE /\ edits = 0
    /\ wizard = [step |-> "form", busy |-> FALSE, options |-> NoOptions, preview |-> NoPreview,
                 crossed |-> FALSE]
    /\ draft = DefaultDraft(CHOOSE b \in {BranchOf[r] : r \in Ranks} : TRUE)
    /\ sent = [h \in Handlers |-> NotSent]
    /\ orders = <<>>

FormsInit == HandlersInit /\ prices \in PriceLists /\ FormsIdle

-----------------------------------------------------------------------------
(* Helpers *)

Server == <<prices, revision, owes, orders>>
Client == <<wizard, draft, edits>>

Tell(h, s) == sent' = [sent EXCEPT ![h] = s]
FormDone(h) == End(h) /\ Tell(h, NotSent)

Loaded == wizard.options # NoOptions

Proposable(r) == Loaded /\ r # NoRank /\ wizard.options[r].proposable

\* The price the form shows while it is filled in: any proposal counts.
LocalEstimate ==
    IF ~Loaded \/ draft.rank = NoRank THEN 0
    ELSE draft.needed * (IF draft.price # 0 THEN draft.price ELSE wizard.options[draft.rank].base)

\* What the form sends: a proposal only for a menu that takes one.
Payload == [draft EXCEPT !.price = IF Proposable(draft.rank) THEN draft.price ELSE 0]

\* An equal number says nothing.
NormaliseOrderForm(d) == [d EXCEPT !.minimum = IF d.minimum = d.needed THEN 0 ELSE d.minimum]

StartOf(d, t) == IF d.mode = "delay" THEN t + d.when ELSE d.when

\* The recruitment closes the sooner, the sooner the order starts.
ComputeRequestEndTime(start, t) ==
    LET left == start - t
    IN  t + IF left <= 6 THEN 2 ELSE IF left <= 24 THEN 3 ELSE IF left <= 72 THEN 6
            ELSE IF left <= 144 THEN 12 ELSE IF left <= 288 THEN 48
            ELSE IF left <= 864 THEN 96 ELSE 288

-----------------------------------------------------------------------------
(* The form *)

\* The options are loaded, and again whenever the orders are refreshed.
LoadOptions ==
    /\ wizard.step # "left"
    /\ wizard' = [wizard EXCEPT !.options = prices]
    /\ draft' = [draft EXCEPT !.rank =
                    IF draft.rank = NoRank
                    THEN CHOOSE r \in Ranks : BranchOf[r] = draft.branch ELSE draft.rank]
    /\ UNCHANGED <<handlerVars, tick, Server, edits, sent>>

\* The fields stay open while a request is under way.
Edit(d) ==
    /\ wizard.step = "form" /\ edits < MaxEdits /\ d # draft
    /\ edits' = edits + 1
    /\ draft' = d
    /\ UNCHANGED <<handlerVars, tick, Server, sent>>

Crosses(w) == [w EXCEPT !.crossed = w.crossed \/ w.busy]

\* A menu is chosen, and the proposal cleared.
ChooseRank(r) ==
    /\ Loaded /\ BranchOf[r] = draft.branch
    /\ Edit([draft EXCEPT !.rank = r, !.price = 0])
    /\ wizard' = Crosses(wizard)

\* Another branch: its options are loaded, and the first menu taken; a proposal stays.
ChooseBranch(b) ==
    /\ Loaded
    /\ Edit([draft EXCEPT !.branch = b, !.rank = NoRank])
    /\ wizard' = [Crosses(wizard) EXCEPT !.options = NoOptions]

FillIn ==
    /\ \/ \E n \in HeadCounts : Edit([draft EXCEPT !.needed = n])
       \/ \E n \in 0..draft.needed : Edit([draft EXCEPT !.minimum = n])
       \/ Proposable(draft.rank) /\ \E p \in Proposals : Edit([draft EXCEPT !.price = p])
       \/ \E d \in Delays : Edit([draft EXCEPT !.mode = "delay", !.when = d])
       \/ \E t \in Times : Edit([draft EXCEPT !.mode = "absolute", !.when = t])
    /\ wizard' = Crosses(wizard)

Submit(h, kind) ==
    /\ Begin(h, "validate")
    /\ ~wizard.busy /\ draft.rank # NoRank
    /\ wizard' = [wizard EXCEPT !.busy = TRUE]
    /\ Tell(h, [for |-> kind, body |-> Payload, at |-> tick])
    /\ UNCHANGED <<tick, Server, draft, edits>>

\* The browser lets no proposal below the base price it knows pass.
Confirm(h) ==
    /\ wizard.step = "form"
    /\ Payload.price # 0 => Payload.price >= wizard.options[draft.rank].base
    /\ Submit(h, "confirm")

Create(h) == wizard.step = "confirm" /\ Submit(h, "create")

BackToForm ==
    /\ wizard.step = "confirm" /\ ~wizard.busy
    /\ wizard' = [wizard EXCEPT !.step = "form", !.crossed = FALSE]
    /\ UNCHANGED <<handlerVars, tick, Server, draft, edits, sent>>

-----------------------------------------------------------------------------
(* The server *)

\* The page shows the error, and the button works again.
RefuseForm(h) ==
    /\ FormDone(h)
    /\ wizard' = [wizard EXCEPT !.busy = FALSE]
    /\ UNCHANGED <<tick, Server, draft, edits>>

\* Mutant of Valid: a start that has come too close is not refused.
ValidLate(d, t) ==
    /\ d.minimum <= d.needed
    /\ prices[d.rank].proposable /\ d.price # 0 => d.price >= prices[d.rank].base

Valid(d, t) ==
    /\ d.minimum <= d.needed
    /\ StartOf(d, t) >= t + MinDelay
    /\ prices[d.rank].proposable /\ d.price # 0 => d.price >= prices[d.rank].base

\* A proposal for a menu that takes none any more is dropped silently.
ValidateOrderForm(h) ==
    /\ at[h] = "validate"
    /\ LET d == NormaliseOrderForm(sent[h].body)
       IN  IF owes \/ ~Valid(d, tick) THEN RefuseForm(h)
           ELSE /\ Tell(h, [sent[h] EXCEPT
                       !.at = tick,
                       !.body = [d EXCEPT !.when = StartOf(d, tick),
                                          !.price = IF prices[d.rank].proposable THEN d.price ELSE 0]])
                /\ Continue(h, "build")
                /\ UNCHANGED <<tick, Server, Client>>

\* The order as it would be written; the base price is read once more.
BuildGroupMeeting(h) ==
    LET d == sent[h].body
    IN  [at |-> sent[h].at, rank |-> d.rank, needed |-> d.needed, minimum |-> d.minimum,
         base |-> IF d.price # 0 THEN d.price ELSE prices[d.rank].base, start |-> d.when,
         mode |-> d.mode]

ShowPreview(h) ==
    /\ at[h] = "build" /\ sent[h].for = "confirm"
    /\ wizard' = [wizard EXCEPT !.step = "confirm", !.busy = FALSE,
                                !.preview = BuildGroupMeeting(h)]
    /\ FormDone(h)
    /\ UNCHANGED <<tick, Server, draft, edits>>

InsertMeeting(h) ==
    /\ at[h] = "build" /\ sent[h].for = "create"
    /\ orders' = Append(orders, [row |-> BuildGroupMeeting(h), opened |-> 0, closes |-> 0,
                                 shown |-> wizard.preview, renewed |-> revision # 0,
                                 crossed |-> wizard.crossed])
    /\ Continue(h, "setUp")
    /\ UNCHANGED <<tick, prices, revision, owes, Client, sent>>

\* Recruitment begins, and the page is left.  A guest who owes by now is
\* refused, and the order stays as it is.
SetUpMeeting(h) ==
    /\ at[h] = "setUp"
    /\ IF owes THEN RefuseForm(h)
       ELSE /\ orders' = [orders EXCEPT
                    ![Len(orders)].opened = tick,
                    ![Len(orders)].closes =
                        ComputeRequestEndTime(orders[Len(orders)].row.start, tick)]
            /\ wizard' = [wizard EXCEPT !.step = "left", !.busy = FALSE]
            /\ FormDone(h)
            /\ UNCHANGED <<tick, prices, revision, owes, draft, edits>>

-----------------------------------------------------------------------------
(* Meanwhile *)

FormTick ==
    /\ tick < MaxTick /\ tick' = tick + 1
    /\ UNCHANGED <<handlerVars, Server, Client, sent>>

\* An operator changes the price list.
ChangePrices ==
    /\ revision = 0 /\ revision' = 1
    /\ prices' \in PriceLists \ {prices}
    /\ UNCHANGED <<handlerVars, tick, owes, orders, Client, sent>>

\* The bill of another order cannot be paid.
Bill ==
    /\ ~owes /\ owes' = TRUE
    /\ UNCHANGED <<handlerVars, tick, prices, revision, orders, Client, sent>>

\* A handler dies; the page shows an error, and the guest may press again.
FormDie(h) ==
    /\ Die(h) /\ Tell(h, NotSent)
    /\ wizard' = [wizard EXCEPT !.busy = FALSE]
    /\ UNCHANGED <<tick, Server, draft, edits>>

FormsNext ==
    \/ \E h \in Handlers :
          \/ Confirm(h) \/ Create(h) \/ ValidateOrderForm(h) \/ ShowPreview(h) \/ InsertMeeting(h)
          \/ SetUpMeeting(h) \/ FormDie(h)
    \/ LoadOptions \/ FillIn \/ BackToForm \/ FormTick \/ Bill \/ ChangePrices
    \/ \E r \in Ranks : ChooseRank(r) \/ ChooseBranch(BranchOf[r])

FormsSpec == FormsInit /\ [][FormsNext]_<<handlerVars, formVars>>

-----------------------------------------------------------------------------
(* Properties *)

\* An order nobody is going to set up any more.
Left(i) == orders[i].closes = 0 /\ ~(i = Len(orders) /\ \E h \in Handlers : at[h] = "setUp")

\* OrderWizardPage.tsx:30-35 and :81 ("so the form can price itself live"),
\* order-forms.ts:96-117: an order is the one the guest has confirmed: as many
\* casts at the price shown, unless the price list has changed meanwhile or the
\* form was edited while its confirmation was loading, at the time shown, or
\* later by just the time the guest took; however late it is written, casts had
\* half an hour when it was checked, and recruitment ends before it starts, if it
\* has begun within twenty minutes of the check; and there is one, unless a
\* handler has died or a debt stopped it half-way.
OrderedAsConfirmed ==
    /\ \A i \in DOMAIN orders :
          LET o == orders[i].row
              p == orders[i].shown
          IN  /\ ~orders[i].crossed =>
                    /\ o.rank = p.rank /\ o.needed = p.needed /\ o.minimum = p.minimum
                    /\ ~orders[i].renewed => o.base = p.base
                    /\ o.start - p.start = IF o.mode = "delay" THEN o.at - p.at ELSE 0
              /\ o.minimum < o.needed
              /\ o.start >= o.at + MinDelay
              /\ orders[i].opened < o.at + 4 => orders[i].closes < o.start
    /\ Cardinality({i \in DOMAIN orders : ~Left(i)}) <= 1
    /\ \A i \in DOMAIN orders : Left(i) => faults > 0 \/ owes
    /\ wizard.step = "confirm" /\ ~wizard.crossed /\ revision = 0 =>
          \/ wizard.preview.needed * wizard.preview.base = LocalEstimate
          \/ draft.price # 0 /\ ~Proposable(draft.rank)
=============================================================================
