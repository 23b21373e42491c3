---------------------------- MODULE Conversations ----------------------------
(***************************************************************************)
(* The chat rooms a viewer shares with a partner, and the viewer's unread  *)
(* messages (server/services/messages.ts, conversations.ts, blockings.ts   *)
(* and the routes under conversations and blockings).                      *)
(*                                                                         *)
(* There is one group room, with the partner and others in it, and as many *)
(* private rooms as the routes create.  A message's unread row says        *)
(* whether it is ignored; it is decided from the blockings and the muting  *)
(* that were read before the row is written.                               *)
(***************************************************************************)
EXTENDS RequestHandlers, Sequences

VARIABLES
    rooms,    \* private rooms of the two, by age
    active,   \* the one updated last
    muted,    \* rooms in which the viewer's speaker row is ignoring
    blocked,  \* the viewer blocks the partner
    messages, \* messages[i]: room and sender of the i-th message
    unread,   \* unread[i]: the viewer's unread row of it
    followed, \* follow_recommendation has opened a room
    chat      \* chat[h]: what handler h has read, and who sends messages yet

chatVars == <<rooms, active, muted, blocked, messages, unread, followed, chat>>

Group == 0
Pair == {"viewer", "partner"}
Senders == Pair \cup {"other", "system"}
NoChat == [room |-> Group, senders |-> <<>>, ignored |-> FALSE, ids |-> {}]

ChatIdle ==
    /\ rooms = 0 /\ active = 0 /\ muted = {}
    /\ blocked = FALSE /\ followed = FALSE
    /\ messages = <<>> /\ unread = <<>>
    /\ chat = [h \in Handlers |-> NoChat]

ChatInit == HandlersInit /\ ChatIdle

-----------------------------------------------------------------------------
(* Helpers *)

Note(h, c) == chat' = [chat EXCEPT ![h] = c]

ChatDone(h) == End(h) /\ Note(h, NoChat)

RoomsSame    == UNCHANGED <<rooms, active, followed>>
MessagesSame == UNCHANGED <<messages, unread>>
BlockSame    == UNCHANGED <<muted, blocked>>

Sent == DOMAIN messages

-----------------------------------------------------------------------------
(* Private rooms *)

\* POST /conversations, by either of the two: a room there is, muted or not, ...
LikeProfile(h) ==
    /\ Begin(h, "findRoom")
    /\ \E u \in Pair, intro \in BOOLEAN :
          Note(h, [NoChat EXCEPT !.senders = <<u, "system">> \o IF intro THEN <<u>> ELSE <<>>])
    /\ RoomsSame /\ MessagesSame /\ BlockSame

FindConversation(h) ==
    /\ at[h] = "findRoom"
    /\ IF rooms > 0
       THEN ChatDone(h)
       ELSE Continue(h, "newRoom") /\ UNCHANGED chat
    /\ RoomsSame /\ MessagesSame /\ BlockSame

\* ... or else a new one, with a marker, a notice and an introduction in it.
CreatePrivateConversation(h) ==
    /\ at[h] = "newRoom"
    /\ rooms' = rooms + 1 /\ active' = rooms + 1
    /\ Note(h, [chat[h] EXCEPT !.room = rooms + 1])
    /\ Continue(h, "readBlockers")
    /\ MessagesSame /\ BlockSame /\ UNCHANGED followed

\* Either of the two picks whom to follow; nobody looks for a room there is.
FollowRecommendation(h) ==
    /\ followed' = TRUE
    /\ Begin(h, "newRoom")
    /\ \E u \in Pair : Note(h, [NoChat EXCEPT !.senders = <<u>>])
    /\ MessagesSame /\ BlockSame /\ UNCHANGED <<rooms, active>>

-----------------------------------------------------------------------------
(* Messages *)

SendMessage(h) ==
    /\ Begin(h, "readBlockers")
    /\ \E r \in 0..rooms, s \in Senders :
          /\ s = "other" => r = Group
          /\ Note(h, [NoChat EXCEPT !.room = r, !.senders = <<s>>])
    /\ RoomsSame /\ MessagesSame /\ BlockSame

\* createMessage: speakers and blockings are read, ...
ReadBlockers(h) ==
    /\ at[h] = "readBlockers"
    /\ Note(h, [chat[h] EXCEPT !.ignored = chat[h].room \in muted
                                            \/ (blocked /\ Head(chat[h].senders) = "partner")])
    /\ Continue(h, "fanOut")
    /\ RoomsSame /\ MessagesSame /\ BlockSame

\* ... then the message, its unread row and the room are written and committed.
AddUnreadMessages(h) ==
    /\ at[h] = "fanOut"
    /\ LET s == Head(chat[h].senders)
       IN  /\ messages' = Append(messages, [room |-> chat[h].room, from |-> s])
           /\ unread' = Append(unread, IF s = "viewer" THEN "none"
                                       ELSE IF chat[h].ignored THEN "ignored" ELSE "counted")
    /\ active' = IF chat[h].room = Group THEN active ELSE chat[h].room
    /\ IF Len(chat[h].senders) > 1
       THEN /\ Note(h, [chat[h] EXCEPT !.senders = Tail(chat[h].senders)])
            /\ Continue(h, "readBlockers")
       ELSE ChatDone(h)
    /\ BlockSame /\ UNCHANGED <<rooms, followed>>

\* GET /conversations/:id: the messages of the room are read, ...
ShowConversation(h) ==
    /\ \E r \in 0..rooms :
          Note(h, [NoChat EXCEPT !.ids = {i \in Sent : messages[i].room = r}])
    /\ Begin(h, "deleteRead")
    /\ RoomsSame /\ MessagesSame /\ BlockSame

\* ... and their unread rows deleted, the ignored ones excepted.
DeleteRead(h) ==
    /\ at[h] = "deleteRead"
    /\ unread' = [i \in Sent |->
                     IF i \in chat[h].ids /\ unread[i] = "counted" THEN "none" ELSE unread[i]]
    /\ ChatDone(h)
    /\ RoomsSame /\ BlockSame /\ UNCHANGED messages

-----------------------------------------------------------------------------
(* Blocking *)

\* The unread rows of the partner's messages and of the private room updated last.
Concerned == {i \in Sent : messages[i].from = "partner" \/ (rooms > 0 /\ messages[i].room = active)}

Flag(s) == unread' = [i \in Sent |->
                         IF i \in Concerned /\ unread[i] # "none" THEN s ELSE unread[i]]

\* The blocking is looked for first; there can be one only (a unique index).
BlockUser(h) ==
    /\ ~blocked /\ Begin(h, "block")
    /\ RoomsSame /\ MessagesSame /\ BlockSame /\ UNCHANGED chat

CreateBlocking(h) ==
    /\ at[h] = "block"
    /\ IF blocked
       THEN BlockSame /\ UNCHANGED unread
       ELSE /\ blocked' = TRUE
            /\ muted' = IF rooms > 0 THEN muted \cup {active} ELSE muted
            /\ Flag("ignored")
    /\ ChatDone(h)
    /\ RoomsSame /\ UNCHANGED messages

UnblockUser(h) ==
    /\ blocked /\ Begin(h, "unblock")
    /\ RoomsSame /\ MessagesSame /\ BlockSame /\ UNCHANGED chat

\* Mutant of DestroyBlocking: the private room stays muted.
DestroyBlockingStaysMuted(h) ==
    /\ at[h] = "unblock"
    /\ IF ~blocked
       THEN BlockSame /\ UNCHANGED unread
       ELSE /\ blocked' = FALSE
            /\ UNCHANGED muted
            /\ Flag("counted")
    /\ ChatDone(h)
    /\ RoomsSame /\ UNCHANGED messages

\* A second removal of the same row raises, and rolls back.
DestroyBlocking(h) ==
    /\ at[h] = "unblock"
    /\ IF ~blocked
       THEN BlockSame /\ UNCHANGED unread
       ELSE /\ blocked' = FALSE
            /\ muted' = IF rooms > 0 THEN muted \ {active} ELSE muted
            /\ Flag("counted")
    /\ ChatDone(h)
    /\ RoomsSame /\ UNCHANGED messages

ChatDie(h) == Die(h) /\ Note(h, NoChat) /\ RoomsSame /\ MessagesSame /\ BlockSame

-----------------------------------------------------------------------------
ChatNext ==
    \E h \in Handlers :
        \/ LikeProfile(h) \/ FindConversation(h) \/ CreatePrivateConversation(h)
        \/ FollowRecommendation(h)
        \/ SendMessage(h) \/ ReadBlockers(h) \/ AddUnreadMessages(h) \/ ShowConversation(h) \/ DeleteRead(h)
        \/ BlockUser(h) \/ CreateBlocking(h) \/ UnblockUser(h) \/ DestroyBlocking(h)
        \/ ChatDie(h)

ChatSpec == ChatInit /\ [][ChatNext]_<<handlerVars, chatVars>>

-----------------------------------------------------------------------------
(* Properties *)

\* messages.ts:54-57, blockings.ts:7-11: the unread badge counts no message of a
\* blocked user or of a muted room, and leaves no other one out, whatever was
\* blocked, sent and unblocked before, one request at a time.  A second private
\* room, which only follow_recommendation opens, is not muted with the first one.
BadgeCountsVisible ==
    ~overlapped /\ ~followed =>
        /\ rooms <= 1
        /\ ~blocked => muted = {}
        /\ \A i \in Sent : unread[i] # "none" =>
              (unread[i] = "ignored") = (messages[i].room \in muted
                                          \/ (blocked /\ messages[i].from = "partner"))
=============================================================================
