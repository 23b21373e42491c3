------------------------------- MODULE LiveChat -------------------------------
(***************************************************************************)
(* What a viewer sees of the open room shared with a partner, and how it   *)
(* gets there (components/screens/chat/ConversationPage.tsx,               *)
(* client/hooks.ts, client/socket.ts, server/realtime,                     *)
(* messageBroadcastWorker and informReadWorker in jobs/handlers.ts,        *)
(* GET /conversations/:id).  The partner's own page is left out.           *)
(*                                                                         *)
(* The page is what the last request it waited for has brought.  It asks   *)
(* again when a broadcast arrives and a moment after it has sent something *)
(* itself; nothing else tells it that the room has changed.  A broadcast   *)
(* is a job and then a socket event; one step stands for both, at the time *)
(* the event arrives.                                                      *)
(***************************************************************************)
EXTENDS RequestHandlers, Sequences

\* A page that waits for no request waits for "nothing".
ASSUME LiveAssumption == "nothing" \notin Handlers

VARIABLES
    lines,    \* lines[i]: who sent the i-th message, and whether it is committed
    rowsOf,   \* rowsOf[i]: the members with an unread row of it
    cable,    \* broadcasts on their way to the viewer: the messages they are about
    online,   \* the viewer's socket is connected
    page,     \* messages shown, own ones marked as read, the request waited for
    timers,   \* messages the viewer has sent and not asked for yet
    request,  \* request[h]: what handler h has read
    served,   \* messages a request of the partner has read
    behind    \* messages whose broadcast the viewer has lost and not read since

liveVars == <<lines, rowsOf, cable, online, page, timers, request, served, behind>>

Talkers == {"viewer", "partner"}
Other(u) == IF u = "viewer" THEN "partner" ELSE "viewer"
NoPage == [loaded |-> FALSE, shown |-> {}, read |-> {}, awaits |-> "nothing"]
NoRequest == [user |-> "viewer", ids |-> {}, seen |-> {}, new |-> {}]

LiveIdle ==
    /\ lines = <<>> /\ rowsOf = <<>> /\ cable = {}
    /\ online = TRUE /\ page = NoPage /\ timers = 0
    /\ request = [h \in Handlers |-> NoRequest]
    /\ served = {} /\ behind = {}

LiveInit == HandlersInit /\ LiveIdle

-----------------------------------------------------------------------------
(* Helpers *)

There == {i \in DOMAIN lines : lines[i].state = "there"}

RoomSame == UNCHANGED <<lines, rowsOf>>
PageSame == UNCHANGED <<page, timers, served, behind>>

Ask(h, r) == request' = [request EXCEPT ![h] = r]

LiveDone(h) == End(h) /\ Ask(h, NoRequest)

Lose(ids) == behind' = behind \cup ids

\* u asks for the page, and the server reads the messages; a request of the
\* viewer that is still running is not waited for any more.
Fetch(h, u) ==
    /\ Ask(h, [NoRequest EXCEPT !.user = u, !.ids = There])
    /\ IF u = "viewer"
       THEN /\ page' = [page EXCEPT !.awaits = h]
            /\ behind' = behind \ There
            /\ UNCHANGED served
       ELSE served' = served \cup There /\ UNCHANGED <<page, behind>>

-----------------------------------------------------------------------------
(* Messages *)

\* The draft is cleared, the message handed to the socket, a timer started.
Send(h) ==
    /\ Begin(h, "post")
    /\ \E u \in Talkers :
          /\ u = "viewer" => page.loaded
          /\ timers' = IF u = "viewer" THEN timers + 1 ELSE timers
          /\ Ask(h, [NoRequest EXCEPT !.user = u])
    /\ RoomSame /\ UNCHANGED <<cable, online, page, served, behind>>

\* The message and its unread row are committed, maybe after the timer has run, ...
CreateMessage(h) ==
    /\ at[h] = "post"
    /\ LET u == request[h].user
           i == Len(lines) + 1
       IN  /\ lines' = Append(lines, [from |-> u, state |-> "there"])
           /\ rowsOf' = Append(rowsOf, {Other(u)})
           /\ Ask(h, [request[h] EXCEPT !.new = {i}])
           /\ IF u = "viewer" /\ timers = 0 THEN Lose({i}) ELSE UNCHANGED behind
    /\ Continue(h, "announce")
    /\ UNCHANGED <<cable, online, page, timers, served>>

\* ... and then its broadcast is queued; it does not go to the sender.
EnqueueMessageBroadcast(h) ==
    /\ at[h] = "announce"
    /\ cable' = IF request[h].user = "viewer" THEN cable ELSE cable \cup {request[h].new}
    /\ LiveDone(h)
    /\ RoomSame /\ PageSame /\ UNCHANGED online

\* A system message written in a longer transaction, whose broadcast is queued
\* at once, before ...
CreateSystemMessage(h) ==
    /\ Begin(h, "commit")
    /\ LET i == Len(lines) + 1
       IN  /\ lines' = Append(lines, [from |-> "system", state |-> "writing"])
           /\ rowsOf' = Append(rowsOf, {})
           /\ Ask(h, [NoRequest EXCEPT !.new = {i}])
           /\ cable' = cable \cup {{i}}
    /\ PageSame /\ UNCHANGED online

\* ... the transaction ends.
CommitSystemMessage(h) ==
    /\ at[h] = "commit"
    /\ \E i \in request[h].new, s \in {"there", "gone"} :
          /\ lines' = [lines EXCEPT ![i].state = s]
          /\ rowsOf' = [rowsOf EXCEPT ![i] = IF s = "there" THEN Talkers ELSE {}]
    /\ LiveDone(h)
    /\ PageSame /\ UNCHANGED <<cable, online>>

-----------------------------------------------------------------------------
(* The page *)

OpenPage(h) ==
    /\ Begin(h, "count")
    /\ \/ ~page.loaded /\ page.awaits = "nothing" /\ Fetch(h, "viewer")
       \/ Fetch(h, "partner")
    /\ RoomSame /\ UNCHANGED <<cable, online, timers>>

\* The timer of a message the viewer has sent.
RefetchAfterSend(h) ==
    /\ timers > 0 /\ timers' = timers - 1
    /\ Deliver(h, "count") /\ UNCHANGED begun
    /\ Fetch(h, "viewer")
    /\ RoomSame /\ UNCHANGED <<cable, online>>

\* Own messages without an unread row are read; those of the other one are new.
CountUnread(h) ==
    /\ at[h] = "count"
    /\ LET u == request[h].user
           ids == request[h].ids
       IN  Ask(h, [request[h] EXCEPT
                      !.seen = {i \in ids : lines[i].from = u /\ rowsOf[i] = {}},
                      !.new = {i \in ids : lines[i].from = Other(u) /\ u \in rowsOf[i]}])
    /\ Continue(h, "deleteRows")
    /\ RoomSame /\ PageSame /\ UNCHANGED <<cable, online>>

DeletesRows(h, ids) ==
    LET u == request[h].user
    IN  /\ at[h] = "deleteRows"
        /\ rowsOf' = [i \in DOMAIN lines |-> IF i \in ids THEN rowsOf[i] \ {u} ELSE rowsOf[i]]
        /\ cable' = IF u = "viewer" \/ request[h].new = {} THEN cable
                    ELSE cable \cup {request[h].new}
        /\ Continue(h, "answer")
        /\ PageSame /\ UNCHANGED <<lines, online, request>>

\* The unread rows of the page, and the job that tells their senders.
DeleteUnread(h) == DeletesRows(h, request[h].ids)

Answer(h) ==
    /\ at[h] = "answer"
    /\ page' = IF page.awaits = h
               THEN [loaded |-> TRUE, shown |-> request[h].ids, read |-> request[h].seen,
                     awaits |-> "nothing"]
               ELSE page
    /\ LiveDone(h)
    /\ RoomSame /\ UNCHANGED <<cable, online, timers, served, behind>>

-----------------------------------------------------------------------------
(* Broadcasts *)

\* The job finds its messages, and the socket is there for the event.
Arrives(e) == online /\ \A i \in e : lines[i].state = "there"

\* Nobody hears of it.  Without a page there is nothing to refresh, and a page
\* that is waiting for its first answer does not ask a second time.
BroadcastLost(e) ==
    /\ Arrives(e) => ~page.loaded
    /\ IF Arrives(e) /\ page.awaits = "nothing" THEN UNCHANGED behind ELSE Lose(e)
    /\ cable' = cable \ {e}
    /\ RoomSame /\ UNCHANGED <<handlerVars, online, page, timers, request, served>>

\* The page asks again, whatever it was waiting for.
BroadcastReceived(h, e) ==
    /\ Arrives(e) /\ page.loaded
    /\ Deliver(h, "count") /\ UNCHANGED begun
    /\ Fetch(h, "viewer")
    /\ cable' = cable \ {e}
    /\ RoomSame /\ UNCHANGED <<online, timers>>

\* The socket is lost and comes back; what was broadcast meanwhile is not repeated.
Reconnect ==
    /\ online' = ~online
    /\ RoomSame /\ PageSame /\ UNCHANGED <<handlerVars, cable, request>>

\* A handler dies: its transaction rolls back, its request is not answered.
LiveDie(h) ==
    /\ Die(h) /\ Ask(h, NoRequest)
    /\ lines' = IF at[h] = "commit"
                THEN [i \in DOMAIN lines |->
                         IF i \in request[h].new THEN [lines[i] EXCEPT !.state = "gone"]
                         ELSE lines[i]]
                ELSE lines
    /\ page' = IF page.awaits = h THEN [page EXCEPT !.awaits = "nothing"] ELSE page
    /\ UNCHANGED <<rowsOf, cable, online, timers, served, behind>>

-----------------------------------------------------------------------------
LiveNext ==
    \/ \E h \in Handlers :
          \/ Send(h) \/ CreateMessage(h) \/ EnqueueMessageBroadcast(h)
          \/ CreateSystemMessage(h) \/ CommitSystemMessage(h)
          \/ OpenPage(h) \/ RefetchAfterSend(h) \/ CountUnread(h) \/ DeleteUnread(h) \/ Answer(h)
          \/ \E e \in cable : BroadcastReceived(h, e)
          \/ LiveDie(h)
    \/ \E e \in cable : BroadcastLost(e)
    \/ Reconnect

LiveSpec == LiveInit /\ [][LiveNext]_<<handlerVars, liveVars>>

-----------------------------------------------------------------------------
(* Properties *)

Quiet == AtRest /\ faults = 0 /\ cable = {} /\ timers = 0

\* ConversationPage.tsx:35-51, :306 ("once the partner's unread row was gone"):
\* a message is marked as read only if the partner's page has been given it,
\* however requests overlap; and when nothing is under way, an open page lacks
\* a message, or a mark, only if the broadcast of it was lost: the socket was
\* down, the page was loading for the first time, the message was committed
\* after its broadcast, or later than its sender's page asked again.
PageTellsTruth ==
    /\ page.read \subseteq served
    /\ Quiet /\ page.loaded =>
          /\ There \ page.shown \subseteq behind
          /\ {i \in page.shown : lines[i].from = "viewer" /\ rowsOf[i] = {}} \ page.read
                \subseteq behind
=============================================================================
