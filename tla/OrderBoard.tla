------------------------------ MODULE OrderBoard ------------------------------
(***************************************************************************)
(* How a cast hears of orders: MeetingBroadcastWorker and the rooms of the *)
(* sockets (server/realtime/socket.ts), the order board (GET /meetings)    *)
(* and the badge on its tab (GET /me/counters), as one cast sees them.     *)
(*                                                                         *)
(* A socket's room is chosen when it connects, and a ring makes the page   *)
(* ask for the board and the badge again.  The badge is asked for every    *)
(* minute besides, the board is not.  With live settings every cast of an  *)
(* order's branch and level is rung, available or not.                     *)
(***************************************************************************)
EXTENDS RequestHandlers

CONSTANTS
    BoardOrders,
    BoardPlaces, \* pairs of a branch and a cast level
    PlacesOf,    \* PlacesOf[o]: the order's branch with the levels of its rank
    Unwanted,    \* orders of guests who block the cast or whom the cast blocks
    LaterOrders  \* orders that start after tomorrow's early morning

ASSUME BoardAssumption ==
    /\ IsFiniteSet(BoardOrders) /\ BoardPlaces # {} /\ "nothing" \notin Handlers
    /\ PlacesOf \in [BoardOrders -> SUBSET BoardPlaces]
    /\ Unwanted \subseteq BoardOrders /\ LaterOrders \subseteq BoardOrders

VARIABLES
    recruits, \* recruits[o]: "new", "open", "closed"
    place,    \* the cast's branch and level
    room,     \* the room of the cast's socket, or "none"
    rings,    \* orders with a MeetingBroadcastWorker job
    bell,     \* rings on their way to the socket
    tab,      \* the tab that is open: "available" or "later"
    board,    \* what the tab shows, the request waited for
    badge,    \* the count shown, the request waited for
    asks,     \* what the page is to ask for: "board", "badge"
    look,     \* look[h]: what handler h has read
    cut,      \* what has not been asked for since a ring may have been missed
    silent    \* what has not been asked for since an order was closed without a ring

boardVars == <<recruits, tab, place, room, rings, bell, board, badge, asks, look, cut, silent>>

BoardTabs == {"available", "later"}
Parts == {"board", "badge"}
NoLook == [order |-> "none", place |-> "none", total |-> 0, found |-> {}, open |-> FALSE]

BoardIdle ==
    /\ recruits = [o \in BoardOrders |-> "new"]
    /\ room = place
    /\ rings = {} /\ bell = {}
    /\ board = [loaded |-> FALSE, shown |-> {}, total |-> 0, awaits |-> "nothing"]
    /\ badge = [count |-> 0, loaded |-> FALSE, awaits |-> "nothing"]
    /\ asks = Parts
    /\ look = [h \in Handlers |-> NoLook]
    /\ cut = {} /\ silent = {}

BoardInit == HandlersInit /\ place \in BoardPlaces /\ tab \in BoardTabs /\ BoardIdle

-----------------------------------------------------------------------------
(* What a cast of place p may see *)

\* Orders whose recruitment has begun, and of the week before, whatever their status.
AvailableFor(p) ==
    {o \in BoardOrders \ Unwanted : recruits[o] # "new" /\ p \in PlacesOf[o]}

InTab(S) == IF tab = "later" THEN S \cap LaterOrders ELSE S \ LaterOrders

Open(S) == {o \in S : recruits[o] = "open"}

Look(h, l) == look' = [look EXCEPT ![h] = l]
LookDone(h) == End(h) /\ Look(h, NoLook)

PageStays == UNCHANGED <<board, badge, asks>>
RingsSame == UNCHANGED <<room, rings, bell>>

-----------------------------------------------------------------------------
(* Orders *)

\* setUpMeeting opens the recruitment, then queues the broadcast.
PublishOrder(h) ==
    /\ Begin(h, "queueRing")
    /\ \E o \in BoardOrders :
          /\ recruits[o] = "new"
          /\ recruits' = [recruits EXCEPT ![o] = "open"]
          /\ Look(h, [NoLook EXCEPT !.order = o])
    /\ PageStays /\ RingsSame /\ UNCHANGED <<place, cut, silent>>

\* The job that closes a recruitment queues a broadcast; the guest who chooses or
\* cancels does not.
CloseOrder(h) ==
    \E o \in BoardOrders, job \in BOOLEAN :
        /\ recruits[o] = "open"
        /\ Begin(h, IF job THEN "queueRing" ELSE "idle")
        /\ recruits' = [recruits EXCEPT ![o] = "closed"]
        /\ Look(h, IF job THEN [NoLook EXCEPT !.order = o] ELSE NoLook)
        /\ silent' = IF job THEN silent ELSE Parts
        /\ PageStays /\ RingsSame /\ UNCHANGED <<place, cut>>

EnqueueMeetingBroadcast(h) ==
    /\ at[h] = "queueRing"
    /\ rings' = rings \cup {look[h].order}
    /\ LookDone(h)
    /\ PageStays /\ UNCHANGED <<recruits, place, room, bell, cut, silent>>

\* MeetingBroadcastWorker reads the order, ...
MeetingBroadcastWorker(h) ==
    \E o \in rings :
        /\ Deliver(h, "ring") /\ UNCHANGED begun
        /\ rings' = rings \ {o}
        /\ Look(h, [NoLook EXCEPT !.order = o, !.open = recruits[o] = "open"])
        /\ PageStays /\ UNCHANGED <<recruits, place, room, bell, cut, silent>>

\* ... and rings in the rooms of its branch and levels: new_request if it was
\* open, else request_canceled.  The order's guest is not looked at.
BroadcastRing(h) ==
    /\ at[h] = "ring"
    /\ bell' = IF room \in PlacesOf[look[h].order]
               THEN bell \cup {IF look[h].open THEN "new_request" ELSE "request_canceled"} ELSE bell
    /\ LookDone(h)
    /\ PageStays /\ UNCHANGED <<recruits, place, room, rings, cut, silent>>

-----------------------------------------------------------------------------
(* The socket *)

\* A fault: rings on their way are lost.
Disconnect ==
    /\ room # "none" /\ faults < MaxFaults
    /\ faults' = faults + 1
    /\ room' = "none" /\ bell' = {} /\ cut' = Parts
    /\ PageStays /\ UNCHANGED <<at, begun, overlapped, recruits, place, rings, look, silent>>

\* The cast's branch and level are read and their room is joined, in one step; the
\* page asks for nothing.
RejoinRoom ==
    /\ room = "none" /\ room' = place
    /\ PageStays /\ UNCHANGED <<handlerVars, recruits, place, rings, bell, look, cut, silent>>

\* An operator moves the cast; the socket stays in its room.
MoveCast(h) ==
    /\ Begin(h, "idle")
    /\ place' \in BoardPlaces \ {place}
    /\ cut' = Parts
    /\ PageStays /\ RingsSame /\ UNCHANGED <<recruits, look, silent>>

-----------------------------------------------------------------------------
(* The page *)

\* Mutant of RingReceived: only the badge is asked for again.
RingReceivedBadge ==
    \E b \in bell :
        /\ bell' = bell \ {b}
        /\ asks' = asks \cup {"badge"}
        /\ UNCHANGED <<handlerVars, recruits, place, room, rings, board, badge, look, cut, silent>>

\* Either ring makes the page ask again for both.
RingReceived ==
    \E b \in bell :
        /\ bell' = bell \ {b}
        /\ asks' = Parts
        /\ UNCHANGED <<handlerVars, recruits, place, room, rings, board, badge, look, cut, silent>>

\* refetchInterval: a minute has passed.  It counts as a request for the bound.
PollCounters ==
    /\ begun < MaxRequests /\ begun' = begun + 1
    /\ "badge" \notin asks /\ badge.loaded /\ badge.awaits = "nothing"
    /\ asks' = asks \cup {"badge"}
    /\ UNCHANGED <<at, faults, overlapped, recruits, place, room, rings, bell, board, badge,
                    look, cut, silent>>

\* Heard of from now on, if the socket is in the cast's room.
Asked(part) ==
    /\ cut' = IF room = place THEN cut \ {part} ELSE cut
    /\ silent' = silent \ {part}

\* A request replaces the one that is running.  It reads the cast first, ...
AskOrderBoard(h) ==
    /\ "board" \in asks /\ asks' = asks \ {"board"}
    /\ Deliver(h, "countBoard") /\ UNCHANGED begun
    /\ Look(h, [NoLook EXCEPT !.place = place])
    /\ board' = [board EXCEPT !.awaits = h]
    /\ Asked("board")
    /\ RingsSame /\ UNCHANGED <<recruits, place, badge>>

\* ... counts the orders, ...
CountBoard(h) ==
    /\ at[h] = "countBoard"
    /\ Look(h, [look[h] EXCEPT !.total = Cardinality(InTab(AvailableFor(look[h].place)))])
    /\ Continue(h, "findBoard")
    /\ PageStays /\ RingsSame /\ UNCHANGED <<recruits, place, cut, silent>>

\* ... finds which they are (twice, to know first whether there are any) ...
FindBoard(h) ==
    /\ at[h] = "findBoard"
    /\ Look(h, [look[h] EXCEPT !.found = InTab(AvailableFor(look[h].place))])
    /\ Continue(h, "readBoard")
    /\ PageStays /\ RingsSame /\ UNCHANGED <<recruits, place, cut, silent>>

\* ... and reads those of the page as they are by then.
ReadBoard(h) ==
    /\ at[h] = "readBoard"
    /\ board' = IF board.awaits = h
                THEN [board EXCEPT !.loaded = TRUE, !.total = look[h].total, !.awaits = "nothing",
                          !.shown = {[order |-> o, status |-> recruits[o]] : o \in look[h].found}]
                ELSE board
    /\ LookDone(h)
    /\ RingsSame /\ UNCHANGED <<recruits, place, badge, asks, cut, silent>>

AskCounters(h) ==
    /\ "badge" \in asks /\ asks' = asks \ {"badge"}
    /\ Deliver(h, "countBadge") /\ UNCHANGED begun
    /\ Look(h, [NoLook EXCEPT !.place = place])
    /\ badge' = [badge EXCEPT !.awaits = h]
    /\ Asked("badge")
    /\ RingsSame /\ UNCHANGED <<recruits, place, board>>

CountBadge(h) ==
    /\ at[h] = "countBadge"
    /\ badge' = IF badge.awaits = h
                THEN [count |-> Cardinality(Open(AvailableFor(look[h].place))),
                      loaded |-> TRUE, awaits |-> "nothing"]
                ELSE badge
    /\ LookDone(h)
    /\ RingsSame /\ UNCHANGED <<recruits, place, board, asks, cut, silent>>

\* A job is handed to another worker; nothing else is tried again.
BoardDie(h) ==
    /\ Die(h)
    /\ rings' = IF at[h] = "ring" THEN rings \cup {look[h].order} ELSE rings
    /\ cut' = IF at[h] = "ring" THEN cut ELSE Parts
    /\ Look(h, NoLook)
    /\ board' = IF board.awaits = h THEN [board EXCEPT !.awaits = "nothing"] ELSE board
    /\ badge' = IF badge.awaits = h THEN [badge EXCEPT !.awaits = "nothing"] ELSE badge
    /\ UNCHANGED <<recruits, place, room, bell, asks, silent>>

-----------------------------------------------------------------------------
BoardNext ==
    /\ UNCHANGED tab
    /\ \/ Disconnect \/ RejoinRoom \/ RingReceived \/ PollCounters
       \/ \E h \in Handlers :
           \/ PublishOrder(h) \/ CloseOrder(h) \/ EnqueueMeetingBroadcast(h)
           \/ MeetingBroadcastWorker(h) \/ BroadcastRing(h)
           \/ MoveCast(h)
           \/ AskOrderBoard(h) \/ CountBoard(h) \/ FindBoard(h) \/ ReadBoard(h)
           \/ AskCounters(h) \/ CountBadge(h) \/ BoardDie(h)

BoardSpec == BoardInit /\ [][BoardNext]_<<handlerVars, boardVars>>

-----------------------------------------------------------------------------
(* Properties *)

\* hooks.ts:79-115, socket.ts:16-24: when nothing is under way, the board and the
\* badge, each if asked for since a ring can have been missed or the cast was
\* moved, show every order of the cast's branch and level whose recruitment has
\* begun, and tell truly which recruit, unless one was closed with no ring since.
BoardTellsTruth ==
    LET mine == {o \in BoardOrders \ Unwanted : recruits[o] # "new" /\ place \in PlacesOf[o]}
    IN  AtRest /\ rings = {} /\ bell = {} /\ asks = {} =>
            /\ board.loaded /\ "board" \notin cut =>
                  /\ {b.order : b \in board.shown} = {o \in mine : (o \in LaterOrders) = (tab = "later")}
                  /\ board.total = Cardinality(board.shown)
                  /\ "board" \notin silent => \A b \in board.shown : b.status = recruits[b.order]
            /\ badge.loaded /\ {"badge"} \cap (cut \cup silent) = {} =>
                  badge.count = Cardinality({o \in mine : recruits[o] = "open"})
=============================================================================
