------------------------------- MODULE Notices -------------------------------
(***************************************************************************)
(* What members are told, by the operators' account and by each other, and *)
(* how it reaches them (services/auto-send-message.ts and its callers,     *)
(* services/notifications.ts, systemMessageToUser and messageRecipients in *)
(* services/messages.ts, messageBroadcastWorker and meetingBroadcastWorker *)
(* in jobs/handlers.ts, jobs/queues.ts).                                   *)
(*                                                                         *)
(* There are two members, of whom b may have invited a.  A letter is a     *)
(* message in a room, with an alert if it is broadcast: a job sends that   *)
(* to the socket, to the devices and to LINE.  What a text says is left    *)
(* out, and so is the mail to the operators, which is switched off.        *)
(***************************************************************************)
EXTENDS RequestHandlers, Sequences

CONSTANTS
    NoticeCases,   \* [type, invited, devices, dead]: the members there may be, and a's devices
    LetterKinds,   \* what may happen to them
    Phones         \* other devices that a may register and forget

ASSUME NoticeAssumption ==
    \A c \in NoticeCases :
        /\ c.invited \in BOOLEAN
        /\ IsFiniteSet(c.dead) /\ Phones \cap (c.devices \cup c.dead) = {}

Invitee == "a"
Inviter == "b"
Couple == {Invitee, Inviter}

VARIABLES
    people,     \* [type, invited, devices, dead]: who the two are
    devices,    \* users.device_ids of a
    wanted,     \* the devices a has registered and not forgotten
    letters,    \* the messages; state is "writing" until the transaction commits
    news,       \* an order of the guest among them: "none", "requested" or "closed"
    alerts,     \* the jobs: the letters whose alert is due, and 0 for the order.  The two of
                \* an order are one when both are queued: then neither has anything to tell
    refusals,   \* the pairs of a member and a way in which it refuses alerts
    averse,     \* members who have ever refused one
    delivered,  \* what went out, by job
    wrong,      \* somebody was alerted who had refused since before the job began
    notice      \* notice[h]: the letters and the job handler h is at

noticeVars ==
    <<people, devices, wanted, letters, news, alerts, refusals, averse, delivered, wrong, notice>>

TypeOf(u) == people.type[u]
IsGuest(u) == TypeOf(u) \in {"customer", "inviter"}
IsCast(u) == TypeOf(u) = "cast"
OtherOne(u) == IF u = Invitee THEN Inviter ELSE Invitee

NoNotice == [kind |-> "none", event |-> 0, left |-> <<>>, job |-> -1, to |-> {}, quiet |-> {},
             list |-> {}, tried |-> {}, firm |-> {}]
NothingSent == [web |-> 0, line |-> 0, pushed |-> {}]

NoticesIdle ==
    /\ devices = people.devices /\ wanted = people.devices
    /\ letters = <<>> /\ news = "none" /\ alerts = {}
    /\ refusals = {} /\ averse = {}
    /\ delivered = [i \in {0} |-> NothingSent] /\ wrong = FALSE
    /\ notice = [h \in Handlers |-> NoNotice]

NoticesInit == HandlersInit /\ people \in NoticeCases /\ NoticesIdle

-----------------------------------------------------------------------------
(* Who is told what *)

Letter(to, from, alert) ==
    [to |-> to, from |-> from, about |-> "nobody", alert |-> alert, state |-> "writing",
     event |-> 0, kind |-> "none"]

\* systemMessageToUser
Inform(u) == <<Letter(u, "system", FALSE)>>
Alert(u) == <<Letter(u, "system", TRUE)>>

\* systemMessageToAdmin: a text the operators pass on to u by hand, or just read.
PassOn(u) == <<[Letter("admin", "system", FALSE) EXCEPT !.about = u]>>
Remind == PassOn("nobody")

TellAndPassOn(u) == Inform(u) \o PassOn(u)

\* The rows of a raw query have no field inviteeUserType, so no rule is ever found.
TargetRewardingRule == "none"

\* An inviter is told what the invitation is worth, a customer only if it is known.
RegistrationMessage(u) ==
    Inform(u) \o
    (IF u = Inviter \/ ~people.invited \/ TypeOf(u) # "customer" THEN <<>>
     ELSE CASE TypeOf(Inviter) = "customer" ->
                 Inform(u) \o IF TargetRewardingRule = "none" THEN <<>> ELSE Inform(Inviter)
            [] TypeOf(Inviter) = "inviter" -> Inform(u) \o Inform(Inviter)
            [] OTHER                       -> Inform(u) \o TellAndPassOn(Inviter))

InviteMeetingMessage(u) ==
    CASE ~IsCast(Inviter) -> Inform(Inviter)
      [] IsGuest(u)       -> TellAndPassOn(Inviter)
      [] OTHER            -> TellAndPassOn(Inviter) \o TellAndPassOn(u)

\* Guests are thanked for five stars, a cast is answered, and operators decide
\* whether a cast hears what a guest wrote.
ReceiveReviewMessage(u, stars) ==
    IF IsGuest(u)
    THEN (IF stars = 5 THEN Inform(u) ELSE <<>>) \o Inform(OtherOne(u)) \o Remind
    ELSE Remind

InviterTurnoverMessage == Alert(Inviter)
InformParticipantOfInvitationShareBonus(u) == Inform(u)
InformParticipantOfMissingInvitationShareBonus(u) == Inform(u)

\* Both learn of an invitation's share.
InviterReward(u) ==
    IF people.invited /\ u = Invitee
    THEN InviterTurnoverMessage \o InformParticipantOfInvitationShareBonus(u)
    ELSE InformParticipantOfMissingInvitationShareBonus(u)

MeetingCompleteAttendanceForCast(u) == TellAndPassOn(u)
ReviewServiceFeeResetMessage(u) == TellAndPassOn(u)
FirstMeetingSendMessage(u) == TellAndPassOn(u)
FirstMeetingEndSendMessage(u) == TellAndPassOn(u)

PatronMessage(cast) == Alert(cast) \o Alert(OtherOne(cast)) \o Remind

\* What is told when something of kind k happens to u.
Letters(k, u) ==
    CASE k = "registered"   -> RegistrationMessage(u)
      [] k = "invitedOrder" -> InviteMeetingMessage(u)
      [] k = "shares"       -> InviterReward(u)
      [] k = "badReview"    -> ReceiveReviewMessage(u, 1)
      [] k = "goodReview"   -> ReceiveReviewMessage(u, 5)
      [] k = "patron"       -> PatronMessage(u)
      [] k = "chat"         -> <<Letter(OtherOne(u), u, TRUE)>>
      [] k = "paid"         -> MeetingCompleteAttendanceForCast(u)
      [] k = "feeUp"        -> ReviewServiceFeeResetMessage(u)
      [] k = "firstOrder"   -> FirstMeetingSendMessage(u)
      [] OTHER              -> FirstMeetingEndSendMessage(u)

\* "paid", "feeUp", "firstOrder" and "firstEnd" are told to casts.
Happens(k, u) ==
    CASE k = "registered"   -> TRUE
      [] k = "invitedOrder" -> u = Invitee /\ people.invited
      [] k \in {"badReview", "goodReview", "patron"} ->
            IsCast(u) # IsCast(OtherOne(u)) /\ (k = "patron" => IsCast(u))
      [] k \in {"shares", "chat"} -> TRUE
      [] OTHER -> IsCast(u)

\* These are told in the transaction that settles the order.
Settling == {"invitedOrder", "shares", "paid", "patron"}

-----------------------------------------------------------------------------
(* Writing *)

Handling(h, n) == notice' = [notice EXCEPT ![h] = n]
NoticeDone(h) == End(h) /\ Handling(h, NoNotice)

MembersSame == UNCHANGED <<people, devices, wanted, refusals, averse>>
LettersSame == UNCHANGED <<letters, news>>
AlertsSame  == UNCHANGED <<alerts, delivered, wrong>>

\* The letters of one event have its number.
Happen(h) ==
    /\ \E k \in LetterKinds, u \in Couple :
          /\ Happens(k, u) /\ Letters(k, u) # <<>>
          /\ Begin(h, IF k \in Settling THEN "writeAll" ELSE "write")
          /\ Handling(h, [NoNotice EXCEPT !.kind = k, !.event = begun', !.left = Letters(k, u)])
    /\ MembersSame /\ LettersSame /\ AlertsSame

Write(h, ls, state) ==
    /\ letters' = letters \o [i \in DOMAIN ls |->
          [ls[i] EXCEPT !.state = state, !.event = notice[h].event, !.kind = notice[h].kind]]
    /\ delivered' = [i \in 0..Len(letters') |->
          IF i \in DOMAIN delivered THEN delivered[i] ELSE NothingSent]
    /\ UNCHANGED <<news, wrong>>

\* Each message is a transaction, after which its alert is queued.
WriteLetter(h) ==
    /\ at[h] = "write"
    /\ LET letter == Head(notice[h].left)
           rest   == Tail(notice[h].left)
       IN  /\ Write(h, <<letter>>, "there")
           /\ IF rest = <<>> /\ ~letter.alert THEN NoticeDone(h)
              ELSE /\ Continue(h, IF letter.alert THEN "enqueue" ELSE "write")
                   /\ Handling(h, [notice[h] EXCEPT !.left = rest, !.job = Len(letters')])
    /\ MembersSame /\ UNCHANGED alerts

EnqueueAlert(h) ==
    /\ at[h] = "enqueue"
    /\ alerts' = alerts \cup {notice[h].job}
    /\ NoticeDone(h)
    /\ MembersSame /\ LettersSame /\ UNCHANGED <<delivered, wrong>>

\* Within a longer transaction alerts are queued before ...
WriteAll(h) ==
    /\ at[h] = "writeAll"
    /\ LET ls == notice[h].left
       IN  /\ Write(h, ls, "writing")
           /\ alerts' = alerts \cup {Len(letters) + i : i \in {p \in DOMAIN ls : ls[p].alert}}
    /\ Continue(h, "commit")
    /\ MembersSame /\ UNCHANGED notice

Settle(h, state) ==
    letters' = [i \in DOMAIN letters |->
                  IF letters[i].event = notice[h].event /\ letters[i].state = "writing"
                  THEN [letters[i] EXCEPT !.state = state] ELSE letters[i]]

\* ... it commits.
Commit(h) ==
    /\ at[h] = "commit"
    /\ Settle(h, "there")
    /\ NoticeDone(h)
    /\ MembersSame /\ AlertsSame /\ UNCHANGED news

\* Casts are told of an order, and once more when it has failed or is taken.
ChangeOrder(h) ==
    /\ \E u \in Couple : IsGuest(u) /\ IsCast(OtherOne(u))
    /\ news # "closed"
    /\ news' = IF news = "none" THEN "requested" ELSE "closed"
    /\ Begin(h, "enqueue")
    /\ Handling(h, [NoNotice EXCEPT !.job = 0])
    /\ MembersSame /\ AlertsSame /\ UNCHANGED letters

-----------------------------------------------------------------------------
(* What members refuse, and their devices *)

\* A member blocks the other one, or switches the LINE messages off, and undoes it.
Refuse(h) ==
    /\ Begin(h, "idle")
    /\ \E u \in Couple, way \in {"block", "silence"} :
          IF <<u, way>> \in refusals
          THEN /\ refusals' = refusals \ {<<u, way>>}
               /\ notice' = [g \in Handlers |-> [notice[g] EXCEPT !.firm = @ \ {<<u, way>>}]]
               /\ UNCHANGED averse
          ELSE /\ refusals' = refusals \cup {<<u, way>>}
               /\ averse' = averse \cup {u}
               /\ UNCHANGED notice
    /\ LettersSame /\ AlertsSame /\ UNCHANGED <<people, devices, wanted>>

\* The list is read with the session, and ...
ChangeDevices(h) ==
    /\ \E way \in {"register", "forget"}, d \in Phones :
          /\ way = "forget" => d \in devices
          /\ Begin(h, way)
          /\ Handling(h, [NoNotice EXCEPT !.list = devices, !.tried = {d}])
    /\ MembersSame /\ LettersSame /\ AlertsSame

\* ... written back, with one device more ...
RegisterDevice(h) ==
    /\ at[h] = "register"
    /\ devices' = notice[h].list \cup notice[h].tried
    /\ wanted' = wanted \cup notice[h].tried
    /\ NoticeDone(h)
    /\ LettersSame /\ AlertsSame /\ UNCHANGED <<people, refusals, averse>>

\* ... or less.
ForgetDevice(h) ==
    /\ at[h] = "forget"
    /\ devices' = notice[h].list \ notice[h].tried
    /\ wanted' = wanted \ notice[h].tried
    /\ NoticeDone(h)
    /\ LettersSame /\ AlertsSame /\ UNCHANGED <<people, refusals, averse>>

-----------------------------------------------------------------------------
(* The worker *)

\* An alert is delivered, for the first time or again.
TakeAlert(h) ==
    /\ Deliver(h, "resolve") /\ UNCHANGED begun
    /\ \E job \in alerts :
          /\ alerts' = alerts \ {job}
          /\ Handling(h, [NoNotice EXCEPT !.job = job, !.firm = refusals])
    /\ MembersSame /\ LettersSame /\ UNCHANGED <<delivered, wrong>>

Refusing(way) == {u \in Couple : <<u, way>> \in refusals}

\* Mutant of Recipients: members who have blocked the sender are alerted as well.
RecipientsAndBlockers(job) ==
    IF job = 0 THEN {u \in Couple : IsCast(u)}
    ELSE Couple \cap {letters[job].to}

\* An order goes to casts, unless they or the guest have blocked the other, a message to
\* the other member in the room, unless it ignores the room, as it does after blocking.
Recipients(job) ==
    IF job = 0 THEN {u \in Couple : IsCast(u) /\ Refusing("block") = {}}
    ELSE (Couple \cap {letters[job].to}) \
           IF letters[job].from = "system" THEN {} ELSE Refusing("block")

\* A message that is not there is passed over, and of an order that is closed
\* nobody is told but the open screens.
Resolve(h) ==
    /\ at[h] = "resolve"
    /\ LET job == notice[h].job
           out == IF job = 0 THEN news # "requested" ELSE letters[job].state # "there"
       IN  IF out THEN NoticeDone(h)
           ELSE /\ Continue(h, "web")
                /\ Handling(h, [notice[h] EXCEPT
                      !.to    = Recipients(job),
                      !.quiet = IF job = 0 THEN {} ELSE Refusing("silence"),
                      !.list  = IF Invitee \in Recipients(job) THEN devices ELSE {}])
    /\ MembersSame /\ LettersSame /\ AlertsSame

\* Who refuses the alert of the job, by rs, and a LINE message if line.
Refusers(rs, job, line) ==
    {u \in Couple :
        IF job = 0 THEN \E v \in Couple : <<v, "block">> \in rs
        ELSE \/ letters[job].from # "system" /\ <<u, "block">> \in rs
             \/ line /\ <<u, "silence">> \in rs}

Reaches(h, us, line) ==
    wrong' = (wrong \/ us \cap Refusers(notice[h].firm, notice[h].job, line) # {})

\* The flash of a new order goes to the screens of all casts of its levels.
SendWebMessage(h) ==
    /\ at[h] = "web"
    /\ LET n == notice[h]
       IN  IF n.job = 0 THEN UNCHANGED <<delivered, wrong>>
           ELSE /\ delivered' = [delivered EXCEPT ![n.job].web = @ + Cardinality(n.to)]
                /\ Reaches(h, n.to, FALSE)
    /\ Continue(h, IF notice[h].to = {} THEN "line" ELSE "push")
    /\ MembersSame /\ LettersSame /\ UNCHANGED <<alerts, notice>>

\* One device after the other, of those read before.  A dead one is taken out of them,
\* which brings back the one that was taken out before it.
SendPushMessage(h) ==
    /\ at[h] = "push"
    /\ LET n == notice[h]
       IN  \/ /\ n.tried = n.list
             /\ Continue(h, "line") /\ UNCHANGED <<devices, delivered, wrong, notice>>
          \/ \E d \in n.list \ n.tried :
                /\ Continue(h, "push")
                /\ Handling(h, [n EXCEPT !.tried = @ \cup {d}])
                /\ delivered' = [delivered EXCEPT ![n.job].pushed = @ \cup {d}]
                /\ Reaches(h, {Invitee}, FALSE)
                /\ devices' = IF d \in people.dead THEN n.list \ {d} ELSE devices
    /\ LettersSame /\ UNCHANGED <<people, wanted, refusals, averse, alerts>>

\* To the sender and to who has switched them off there are no LINE messages.  One
\* that is refused is only logged.
SendSnsMessage(h) ==
    /\ at[h] = "line"
    /\ LET n  == notice[h]
           us == n.to \ n.quiet
       IN  /\ delivered' = [delivered EXCEPT ![n.job].line = @ + Cardinality(us)]
           /\ Reaches(h, us, TRUE)
    /\ NoticeDone(h)
    /\ MembersSame /\ LettersSame /\ UNCHANGED alerts

\* What is not committed is rolled back, but not the jobs it has queued.  A job that
\* throws, as it does when the token of the push service cannot be had, or whose worker
\* dies, is run again from the start.
NoticeDie(h) ==
    /\ Die(h)
    /\ IF at[h] = "commit" THEN Settle(h, "gone") ELSE UNCHANGED letters
    /\ IF at[h] \in {"resolve", "web", "push", "line"}
       THEN alerts' = alerts \cup {notice[h].job} ELSE UNCHANGED alerts
    /\ Handling(h, NoNotice)
    /\ MembersSame /\ UNCHANGED <<news, delivered, wrong>>

NoticesNext ==
    \E h \in Handlers :
        \/ Happen(h) \/ WriteLetter(h) \/ EnqueueAlert(h) \/ WriteAll(h) \/ Commit(h)
        \/ ChangeOrder(h) \/ Refuse(h) \/ ChangeDevices(h) \/ RegisterDevice(h) \/ ForgetDevice(h)
        \/ TakeAlert(h) \/ Resolve(h) \/ SendWebMessage(h) \/ SendPushMessage(h)
        \/ SendSnsMessage(h) \/ NoticeDie(h)

NoticesSpec == NoticesInit /\ [][NoticesNext]_<<handlerVars, noticeVars>>

-----------------------------------------------------------------------------
(* Properties *)

\* Nobody is alerted who had refused it before the job began and ever since, ...
RefusalsHold == ~wrong

\* ... nor of a message that is not, or not yet, there, ...
AlertsAreOfMessages ==
    \A i \in DOMAIN letters : letters[i].state # "there" => delivered[i] = NothingSent

\* ... and the operators are asked to pass on to a cast only what the cast has been told.
PassedOnIsTold ==
    \A i \in DOMAIN letters :
        letters[i].about # "nobody" =>
            \E j \in 1..(i - 1) :
                /\ letters[j].to = letters[i].about
                /\ letters[j].event = letters[i].event /\ letters[j].state = letters[i].state

PassedOn == {"invitedOrder", "paid", "feeUp", "firstOrder", "firstEnd"}
Alive(ds) == ds \ people.dead
Steady == Alive(people.devices \cap wanted)

\* Left alone, an alert reaches who has never refused one, once by socket and LINE and on
\* every device, an order that is still open as well, and what casts are told is passed on.
AlertsArrive ==
    Undisturbed /\ alerts = {} =>
        /\ \A i \in DOMAIN letters :
              /\ letters[i].alert /\ letters[i].to \notin averse =>
                    /\ delivered[i].web = 1 /\ delivered[i].line = 1
                    /\ letters[i].to = Invitee => Steady \subseteq delivered[i].pushed
              /\ letters[i].kind \in PassedOn /\ letters[i].to \in Couple
                 /\ IsCast(letters[i].to) =>
                    \E j \in DOMAIN letters :
                        letters[j].event = letters[i].event /\ letters[j].about = letters[i].to
        /\ news = "requested" /\ averse = {} =>
              /\ delivered[0].line = 1
              /\ IsCast(Invitee) => Steady \subseteq delivered[0].pushed

\* One request or job at a time, no device is lost that a still has, and every push that
\* meets dead ones removes one of them.
DevicesKept ==
    ~overlapped =>
        /\ Alive(devices) = Alive(wanted)
        /\ AtRest =>
             LET met == {i \in DOMAIN delivered : delivered[i].pushed \cap people.dead # {}}
                 left == devices \cap people.dead
             IN  left # {} => Cardinality(left) + Cardinality(met) <= Cardinality(people.dead)

\* Members learn what concerns them, and nothing they have refused (auto-send-message.ts,
\* notifications.ts, messageBroadcastWorker and meetingBroadcastWorker).
EverybodyTold ==
    RefusalsHold /\ AlertsAreOfMessages /\ PassedOnIsTold /\ AlertsArrive /\ DevicesKept
=============================================================================
