---------------------------- MODULE ScreensProofs ----------------------------
(***************************************************************************)
(* Proofs about the desks of Members whose rows are looked at or entered   *)
(* on a screen, and about the script that fills the first ones: the open   *)
(* chat, the profile search, the order board, the settings tables, the     *)
(* seed data.  For each the inductive invariant of its rows, its handlers  *)
(* and its screen, and at the end the theorems that Members keeps what     *)
(* these desks promise.                                                    *)
(***************************************************************************)
EXTENDS Members, RequestHandlersProofs
-----------------------------------------------------------------------------
(* The open chat *)

LiveLabels == {"idle", "post", "announce", "commit", "count", "deleteRows", "answer"}
Fetching == {"count", "deleteRows", "answer"}
Numbers == DOMAIN lines

Lines == [from : {"viewer", "partner", "system"}, state : {"there", "writing", "gone"}]
Requests == [user : Talkers, ids : SUBSET Nat, seen : SUBSET Nat, new : SUBSET Nat]
PageShapes ==
    [loaded : BOOLEAN, shown : SUBSET Nat, read : SUBSET Nat, awaits : Handlers \cup {"nothing"}]

LiveTyped ==
    /\ at \in [Handlers -> LiveLabels]
    /\ lines \in Seq(Lines)
    /\ rowsOf \in Seq(SUBSET Talkers) /\ Len(rowsOf) = Len(lines)
    /\ page \in PageShapes
    /\ timers \in Nat /\ faults \in Nat
    /\ request \in [Handlers -> Requests]

\* Nobody has an unread row of a message of their own.
NoOwnRows == \A i \in Numbers : lines[i].from \notin rowsOf[i]

\* What is marked as read has been given to the partner, ...
ReadIsServed ==
    /\ \A i \in Numbers : lines[i].from = "viewer" /\ rowsOf[i] = {} => i \in served
    /\ page.read \subseteq served

\* ... also by requests that are running.
RequestsServed ==
    \A h \in Handlers :
        at[h] \in Fetching =>
            /\ request[h].ids \subseteq There
            /\ request[h].user = "partner" => request[h].ids \subseteq served
            /\ request[h].user = "viewer" => request[h].seen \subseteq served

\* What the page shows is there.
ShownExist == page.shown \subseteq Numbers

\* The page waits only for a request that is running.
PageAwaited ==
    \A h \in Handlers : page.awaits = h => at[h] \in Fetching /\ request[h].user = "viewer"

\* A system message is written by one handler.
Writing ==
    \A h \in Handlers : at[h] = "commit" =>
        /\ \A i \in request[h].new : i \in Numbers /\ lines[i] = [from |-> "system", state |-> "writing"]
        /\ \A g \in Handlers \ {h} : at[g] = "commit" => request[g].new \cap request[h].new = {}

\* A broadcast of message i is on its way.
Announced(i) == \E e \in cable : i \in e

\* A message that is not committed has been broadcast or is not heard of.
WritingAnnounced ==
    \A i \in Numbers : lines[i].state = "writing" => i \in behind \/ Announced(i)

\* What the partner deletes a row of is told to the viewer.
DeletesTold ==
    \A h \in Handlers :
        at[h] = "deleteRows" /\ request[h].user = "partner" =>
            \A i \in request[h].ids :
                lines[i].from = "viewer" /\ "partner" \in rowsOf[i] => i \in request[h].new

\* The messages the page has, or is going to have when it is answered.
Given(i) == IF page.awaits = "nothing" THEN i \in page.shown ELSE i \in request[page.awaits].ids

\* The page knows message i, or it will hear of it, or that is lost.
Heard(i) ==
    \/ Given(i) \/ i \in behind \/ Announced(i)
    \/ lines[i].from = "viewer" /\ timers > 0
    \/ \E h \in Handlers : at[h] = "announce" /\ request[h].user = "partner" /\ i \in request[h].new

\* The same of the mark of a message that the partner has read.
Marked(i) ==
    \/ i \in behind \/ Announced(i)
    \/ IF page.awaits = "nothing" THEN i \in page.read
       ELSE at[page.awaits] = "count" \/ i \in request[page.awaits].seen

\* As long as no handler has died, an open page knows all, or is going to.
LivePageKept ==
    faults = 0 /\ (page.loaded \/ page.awaits # "nothing") =>
        /\ \A i \in There : Heard(i)
        /\ \A i \in Numbers :
              lines[i].from = "viewer" /\ rowsOf[i] = {} /\ Given(i) => Marked(i)

\* The inductive invariant of the open chat.
LiveIInv ==
    /\ LiveTyped /\ NoOwnRows /\ ReadIsServed /\ RequestsServed /\ ShownExist /\ PageAwaited 
    /\ Writing /\ WritingAnnounced /\ DeletesTold /\ LivePageKept

\* What the invariant says of quiet moments is the property.
LEMMA LiveIInvTruth ==
  ASSUME LiveIInv
  PROVE  PageTellsTruth
<1> SUFFICES ASSUME Quiet, page.loaded
             PROVE  /\ There \ page.shown \subseteq behind
                    /\ {i \in page.shown : lines[i].from = "viewer" /\ rowsOf[i] = {}} \ page.read
                          \subseteq behind
  BY DEF PageTellsTruth, LiveIInv, ReadIsServed
<1>1. \A h \in Handlers : at[h] = "idle"
  BY DEF Quiet, AtRest, Idle
<1>2. page.awaits = "nothing"
  BY <1>1 DEF LiveIInv, LiveTyped, PageShapes, PageAwaited, Fetching
<1>3. faults = 0 /\ cable = {} /\ timers = 0
  BY DEF Quiet
<1>4. /\ \A i \in There : Heard(i)
      /\ \A i \in Numbers : lines[i].from = "viewer" /\ rowsOf[i] = {} /\ Given(i) => Marked(i)
  BY <1>3 DEF LiveIInv, LivePageKept
<1>5. \A i : ~Announced(i)
  BY <1>3 DEF Announced
<1>6. \A i \in There : i \in page.shown \/ i \in behind
  BY <1>1, <1>2, <1>3, <1>4, <1>5 DEF Heard, Given
<1>7. ASSUME NEW i \in page.shown, lines[i].from = "viewer", rowsOf[i] = {}
      PROVE  i \in page.read \/ i \in behind
  <2>1. i \in Numbers
    BY DEF LiveIInv, ShownExist
  <2> QED
    BY <1>2, <1>4, <1>5, <1>7, <2>1 DEF Given, Marked
<1> QED
  BY <1>6, <1>7

\* At the start there are no messages.
LEMMA LiveInitOK ==
  ASSUME HandlersInit, LiveIdle
  PROVE  LiveIInv
<1>1. at = [h \in Handlers |-> "idle"] /\ faults = 0
  BY DEF HandlersInit, Idle
<1>2. lines = <<>> /\ rowsOf = <<>> /\ DOMAIN lines = {}
  BY DEF LiveIdle
<1>3. LiveTyped
  BY <1>1, <1>2 DEF LiveTyped, LiveIdle, LiveLabels, Lines, NoPage, PageShapes, NoRequest, Requests, Talkers
<1>4. NoOwnRows /\ ReadIsServed /\ ShownExist /\ WritingAnnounced
  BY <1>2 DEF NoOwnRows, ReadIsServed, ShownExist, WritingAnnounced, Numbers, LiveIdle, NoPage
<1>5. RequestsServed /\ Writing /\ DeletesTold
  BY <1>1 DEF RequestsServed, Writing, DeletesTold, Fetching
<1>6. PageAwaited /\ LivePageKept
  BY LiveAssumption DEF PageAwaited, LivePageKept, LiveIdle, NoPage
<1> QED
  BY <1>3, <1>4, <1>5, <1>6 DEF LiveIInv

-----------------------------------------------------------------------------
\* A step of handler h, which goes to l with the request r.
LiveMove(h, l, r) ==
    at' = [at EXCEPT ![h] = l] /\ request' = [request EXCEPT ![h] = r]

LEMMA LiveMoves ==
  ASSUME LiveTyped, NEW h \in Handlers, NEW l \in LiveLabels, NEW r \in Requests, LiveMove(h, l, r)
  PROVE  /\ at' \in [Handlers -> LiveLabels] /\ request' \in [Handlers -> Requests]
         /\ at'[h] = l /\ request'[h] = r
         /\ \A g \in Handlers \ {h} : at'[g] = at[g] /\ request'[g] = request[g]
BY DEF LiveMove, LiveTyped

\* Deliver and Begin move an idle handler, Continue and Die one at a statement.
LEMMA LiveHandlerSteps ==
  ASSUME NEW h \in Handlers, NEW l
  PROVE  /\ (Begin(h, l) \/ Deliver(h, l)) =>
               at[h] = "idle" /\ at' = [at EXCEPT ![h] = l] /\ faults' = faults
         /\ Continue(h, l) => at' = [at EXCEPT ![h] = l] /\ faults' = faults
         /\ End(h) => at' = [at EXCEPT ![h] = "idle"] /\ faults' = faults
         /\ Die(h) => at[h] # "idle" /\ at' = [at EXCEPT ![h] = "idle"] /\ faults' = faults + 1
BY DEF Begin, Deliver, Continue, End, Die, Refused, Goto

\* The messages are numbered from 1 on.
LEMMA LineFacts ==
  ASSUME LiveTyped
  PROVE  /\ Len(lines) \in Nat /\ Numbers = 1..Len(lines) /\ DOMAIN rowsOf = Numbers
         /\ There \subseteq Numbers /\ Numbers \subseteq Nat
         /\ \A i \in Numbers : /\ lines[i] \in Lines /\ rowsOf[i] \in SUBSET Talkers
                               /\ lines[i].from \in {"viewer", "partner", "system"}
<1>1. lines \in Seq(Lines) /\ rowsOf \in Seq(SUBSET Talkers) /\ Len(rowsOf) = Len(lines)
  BY DEF LiveTyped
<1>2. Len(lines) \in Nat /\ Numbers = 1..Len(lines) /\ DOMAIN rowsOf = 1..Len(rowsOf)
  BY <1>1 DEF Numbers
<1>3. \A i \in Numbers : lines[i] \in Lines /\ rowsOf[i] \in SUBSET Talkers
  BY <1>1, <1>2
<1>4. There \subseteq Numbers
  BY DEF There, Numbers
<1> QED
  BY <1>1, <1>2, <1>3, <1>4 DEF Lines

-----------------------------------------------------------------------------
\* A handler asks for the page and reads the messages that are there.
LEMMA FetchOK ==
  ASSUME LiveIInv, NEW h \in Handlers, NEW u \in Talkers, Fetch(h, u),
         at[h] = "idle", at' = [at EXCEPT ![h] = "count"], faults' = faults,
         lines' = lines, rowsOf' = rowsOf, timers' \in Nat,
         u = "partner" => cable' = cable /\ timers' = timers,
         \A e \in cable \ cable' : \A i \in e : lines[i].state = "there"
  PROVE  LiveIInv'
<1> DEFINE r == [NoRequest EXCEPT !.user = u, !.ids = There]
<1>t. LiveTyped
  BY DEF LiveIInv
<1>n. There \subseteq Numbers /\ Numbers \subseteq Nat
  BY <1>t, LineFacts
<1>1. /\ r \in Requests /\ r.user = u /\ r.ids = There /\ r.seen = {}
  BY <1>n DEF NoRequest, Requests
<1>2. request' = [request EXCEPT ![h] = r]
  BY DEF Fetch, Ask
<1> HIDE DEF r
<1>3. /\ at' \in [Handlers -> LiveLabels] /\ request' \in [Handlers -> Requests]
      /\ at'[h] = "count" /\ request'[h].user = u /\ request'[h].ids = There
      /\ request'[h].seen = {}
      /\ \A g \in Handlers \ {h} : at'[g] = at[g] /\ request'[g] = request[g]
  BY <1>1, <1>2, <1>t DEF LiveTyped, LiveLabels
<1>4. /\ page'.loaded = page.loaded /\ page'.shown = page.shown /\ page'.read = page.read
      /\ page' \in PageShapes
      /\ u = "viewer" => page'.awaits = h /\ behind' = behind \ There /\ served' = served
      /\ u = "partner" => page' = page /\ behind' = behind /\ served' = served \cup There
  BY <1>t DEF Fetch, LiveTyped, PageShapes
<1>5. Numbers' = Numbers /\ There' = There
  BY DEF Numbers, There
<1>6. LiveTyped'
  BY <1>3, <1>4, <1>t DEF LiveTyped
<1>7. NoOwnRows' /\ ShownExist'
  BY <1>4, <1>5 DEF LiveIInv, NoOwnRows, ShownExist
<1>8. ReadIsServed'
  BY <1>4, <1>5 DEF LiveIInv, ReadIsServed, Talkers
<1>9. RequestsServed'
  BY <1>3, <1>4, <1>5 DEF LiveIInv, RequestsServed, Talkers, Fetching
<1>10. PageAwaited'
  BY <1>3, <1>4 DEF LiveIInv, PageAwaited, Talkers, Fetching
<1>11. Writing'
  BY <1>3, <1>5 DEF LiveIInv, Writing
<1>12. \A i \in Numbers : (lines[i].state = "writing" /\ Announced(i)) => Announced(i)'
  BY DEF Announced
<1>13. WritingAnnounced'
  BY <1>4, <1>5, <1>12 DEF LiveIInv, WritingAnnounced, Talkers, There
<1>14. DeletesTold'
  BY <1>3 DEF LiveIInv, DeletesTold
<1>15. LivePageKept'
  <2>1. CASE u = "viewer"
    <3>1. \A i : Given(i)' <=> i \in There
      BY <1>3, <1>4, <2>1, LiveAssumption DEF Given
    <3>2. \A i : Marked(i)'
      BY <1>3, <1>4, <2>1, LiveAssumption DEF Marked
    <3> QED
      BY <3>1, <3>2, <1>5 DEF LivePageKept, Heard
  <2>2. CASE u = "partner"
    <3>1. /\ page' = page /\ behind' = behind /\ cable' = cable /\ timers' = timers
      BY <2>2, <1>4
    <3>2. page.awaits # h
      BY DEF LiveIInv, PageAwaited, Fetching
    <3>3. \A g \in Handlers : page.awaits = g => at'[g] = at[g] /\ request'[g] = request[g]
      BY <3>2, <1>3
    <3>4. page.awaits \in Handlers \cup {"nothing"}
      BY <1>t DEF LiveTyped, PageShapes
    <3>5. \A i : Given(i)' = Given(i) /\ Marked(i)' = Marked(i)
      BY <3>1, <3>3, <3>4 DEF Given, Marked, Announced
    <3>6. \A i : Heard(i) => Heard(i)'
      BY <3>1, <3>5, <1>3 DEF Heard, Announced
    <3> QED
      BY <3>1, <3>5, <3>6, <1>5 DEF LiveIInv, LivePageKept
  <2> QED
    BY <2>1, <2>2 DEF Talkers
<1> QED
  BY <1>6, <1>7, <1>8, <1>9, <1>10, <1>11, <1>13, <1>14, <1>15 DEF LiveIInv
-----------------------------------------------------------------------------
\* A step of a handler that is not fetching, neither before nor after, and writes nothing.
LEMMA PageAside ==
  ASSUME LiveIInv, NEW h \in Handlers,
         lines' = lines, rowsOf' = rowsOf, page' = page, behind' = behind, served' = served,
         faults' = faults, cable \subseteq cable', timers' \in Nat, timers <= timers',
         at' \in [Handlers -> LiveLabels], request' \in [Handlers -> Requests],
         \A g \in Handlers \ {h} : at'[g] = at[g] /\ request'[g] = request[g],
         at[h] \notin Fetching, at'[h] \notin Fetching \cup {"commit"},
         at[h] = "announce" /\ request[h].user = "partner" => request[h].new \in cable'
  PROVE  LiveIInv'
<1>t. LiveTyped
  BY DEF LiveIInv
<1>1. Numbers' = Numbers /\ There' = There
  BY DEF Numbers, There
<1>2. LiveTyped'
  BY <1>t DEF LiveTyped
<1>3. NoOwnRows' /\ ReadIsServed' /\ ShownExist'
  BY <1>1 DEF LiveIInv, NoOwnRows, ReadIsServed, ShownExist
<1>4. RequestsServed' /\ PageAwaited'
  BY <1>1 DEF LiveIInv, RequestsServed, PageAwaited
<1>5. Writing' /\ DeletesTold'
  BY <1>1 DEF LiveIInv, Writing, DeletesTold, Fetching
<1>6. \A i : Announced(i) => Announced(i)'
  BY DEF Announced
<1>7. WritingAnnounced'
  BY <1>1, <1>6 DEF LiveIInv, WritingAnnounced
<1>8. \A g \in Handlers : page.awaits = g => at'[g] = at[g] /\ request'[g] = request[g]
  BY DEF LiveIInv, PageAwaited
<1>9. page.awaits \in Handlers \cup {"nothing"}
  BY <1>t DEF LiveTyped, PageShapes
<1>10. \A i : Given(i)' = Given(i) /\ (Marked(i) => Marked(i)')
  BY <1>6, <1>8, <1>9 DEF Given, Marked
<1>11. ASSUME NEW i, Heard(i)
       PROVE  Heard(i)'
  <2>1. CASE Given(i) \/ i \in behind \/ Announced(i)
    BY <2>1, <1>6, <1>10 DEF Heard
  <2>2. CASE lines[i].from = "viewer" /\ timers > 0
    BY <2>2, <1>t DEF Heard, LiveTyped
  <2>3. CASE \E g \in Handlers :
               at[g] = "announce" /\ request[g].user = "partner" /\ i \in request[g].new
    <3>1. PICK g \in Handlers :
             at[g] = "announce" /\ request[g].user = "partner" /\ i \in request[g].new
      BY <2>3
    <3>2. CASE g = h
      BY <3>1, <3>2 DEF Heard, Announced
    <3>3. CASE g # h
      BY <3>1, <3>3 DEF Heard
    <3> QED
      BY <3>2, <3>3
  <2> QED
    BY <1>11, <2>1, <2>2, <2>3 DEF Heard
<1>12. LivePageKept'
  BY <1>1, <1>10, <1>11 DEF LiveIInv, LivePageKept
<1> QED
  BY <1>2, <1>3, <1>4, <1>5, <1>7, <1>12 DEF LiveIInv

\* A message is on its way to the server.
LEMMA SendOK ==
  ASSUME LiveIInv, NEW h \in Handlers, Send(h)
  PROVE  LiveIInv'
<1>t. LiveTyped
  BY DEF LiveIInv
<1>1. PICK u \in Talkers : /\ timers' = (IF u = "viewer" THEN timers + 1 ELSE timers)
                           /\ request' = [request EXCEPT ![h] = [NoRequest EXCEPT !.user = u]]
  BY DEF Send, Ask
<1>2. /\ lines' = lines /\ rowsOf' = rowsOf /\ page' = page /\ behind' = behind /\ served' = served
      /\ cable' = cable
  BY DEF Send, RoomSame
<1>3. at[h] = "idle" /\ at' = [at EXCEPT ![h] = "post"] /\ faults' = faults
  BY LiveHandlerSteps DEF Send
<1>4. [NoRequest EXCEPT !.user = u] \in Requests
  BY DEF NoRequest, Requests
<1>5. /\ at' \in [Handlers -> LiveLabels] /\ request' \in [Handlers -> Requests]
      /\ at'[h] = "post"
      /\ \A g \in Handlers \ {h} : at'[g] = at[g] /\ request'[g] = request[g]
  BY <1>1, <1>3, <1>4, <1>t DEF LiveTyped, LiveLabels
<1>6. timers' \in Nat /\ timers <= timers'
  BY <1>1, <1>t DEF LiveTyped
<1>7. at[h] \notin Fetching /\ at'[h] \notin Fetching \cup {"commit"}
  BY <1>3, <1>5 DEF Fetching
<1> QED
  BY <1>2, <1>3, <1>5, <1>6, <1>7, PageAside

\* The message of the partner is broadcast.
LEMMA EnqueueMessageBroadcastOK ==
  ASSUME LiveIInv, NEW h \in Handlers, EnqueueMessageBroadcast(h)
  PROVE  LiveIInv'
<1>t. LiveTyped
  BY DEF LiveIInv
<1>1. /\ lines' = lines /\ rowsOf' = rowsOf /\ page' = page /\ behind' = behind /\ served' = served
      /\ timers' = timers /\ request' = [request EXCEPT ![h] = NoRequest]
      /\ cable' = IF request[h].user = "viewer" THEN cable ELSE cable \cup {request[h].new}
  BY DEF EnqueueMessageBroadcast, RoomSame, PageSame, LiveDone, Ask
<1>2. at[h] = "announce" /\ at' = [at EXCEPT ![h] = "idle"] /\ faults' = faults
  BY LiveHandlerSteps DEF EnqueueMessageBroadcast, LiveDone
<1>3. NoRequest \in Requests
  BY DEF NoRequest, Requests, Talkers
<1>4. /\ at' \in [Handlers -> LiveLabels] /\ request' \in [Handlers -> Requests]
      /\ at'[h] = "idle"
      /\ \A g \in Handlers \ {h} : at'[g] = at[g] /\ request'[g] = request[g]
  BY <1>1, <1>2, <1>3, <1>t DEF LiveTyped, LiveLabels
<1>5. timers' \in Nat /\ timers <= timers'
  BY <1>1, <1>t DEF LiveTyped
<1>6. at[h] \notin Fetching /\ at'[h] \notin Fetching \cup {"commit"}
  BY <1>2, <1>4 DEF Fetching
<1>7. /\ cable \subseteq cable'
      /\ request[h].user = "partner" => request[h].new \in cable'
  BY <1>1
<1> QED
  BY <1>1, <1>2, <1>4, <1>5, <1>6, <1>7, PageAside

\* Nothing else changes when the socket comes or goes, ...
LEMMA LiveSame ==
  ASSUME LiveIInv, at' = at, faults' = faults, lines' = lines, rowsOf' = rowsOf, page' = page,
         timers' = timers, request' = request, served' = served, behind' = behind, cable' = cable
  PROVE  LiveIInv'
<1>1. /\ LiveTyped' /\ NoOwnRows' /\ ReadIsServed' /\ RequestsServed' /\ ShownExist'
      /\ PageAwaited' /\ Writing' /\ DeletesTold'
  BY DEF LiveIInv, LiveTyped, NoOwnRows, ReadIsServed, RequestsServed, ShownExist, PageAwaited,
         Writing, DeletesTold, Numbers, There
<1>2. WritingAnnounced' /\ LivePageKept'
  BY DEF LiveIInv, WritingAnnounced, LivePageKept, Numbers, There, Heard, Given, Marked, Announced
<1> QED
  BY <1>1, <1>2 DEF LiveIInv

LEMMA ReconnectOK ==
  ASSUME LiveIInv, Reconnect
  PROVE  LiveIInv'
BY LiveSame DEF Reconnect, RoomSame, PageSame, handlerVars

-----------------------------------------------------------------------------
\* The page is opened by the viewer, or by the partner, ...
LEMMA OpenPageOK ==
  ASSUME LiveIInv, NEW h \in Handlers, OpenPage(h)
  PROVE  LiveIInv'
<1>1. PICK u \in Talkers : Fetch(h, u)
  BY DEF OpenPage, Talkers
<1>2. at[h] = "idle" /\ at' = [at EXCEPT ![h] = "count"] /\ faults' = faults
  BY LiveHandlerSteps DEF OpenPage
<1>3. lines' = lines /\ rowsOf' = rowsOf /\ cable' = cable /\ timers' = timers
  BY DEF OpenPage, RoomSame
<1>4. timers' \in Nat
  BY <1>3 DEF LiveIInv, LiveTyped
<1> QED
  BY <1>1, <1>2, <1>3, <1>4, FetchOK

\* ... and asked for again after a message was sent ...
LEMMA RefetchAfterSendOK ==
  ASSUME LiveIInv, NEW h \in Handlers, RefetchAfterSend(h)
  PROVE  LiveIInv'
<1>1. Fetch(h, "viewer") /\ "viewer" \in Talkers
  BY DEF RefetchAfterSend, Talkers
<1>2. at[h] = "idle" /\ at' = [at EXCEPT ![h] = "count"] /\ faults' = faults
  BY LiveHandlerSteps DEF RefetchAfterSend
<1>3. lines' = lines /\ rowsOf' = rowsOf /\ cable' = cable /\ timers' = timers - 1 /\ timers > 0
  BY DEF RefetchAfterSend, RoomSame
<1>4. timers' \in Nat
  BY <1>3 DEF LiveIInv, LiveTyped
<1> QED
  BY <1>1, <1>2, <1>3, <1>4, FetchOK

\* ... or when a broadcast arrives.
LEMMA BroadcastReceivedOK ==
  ASSUME LiveIInv, NEW h \in Handlers, NEW e \in cable, BroadcastReceived(h, e)
  PROVE  LiveIInv'
<1>1. Fetch(h, "viewer") /\ "viewer" \in Talkers
  BY DEF BroadcastReceived, Talkers
<1>2. at[h] = "idle" /\ at' = [at EXCEPT ![h] = "count"] /\ faults' = faults
  BY LiveHandlerSteps DEF BroadcastReceived
<1>3. lines' = lines /\ rowsOf' = rowsOf /\ cable' = cable \ {e} /\ timers' = timers
  BY DEF BroadcastReceived, RoomSame
<1>4. timers' \in Nat
  BY <1>3 DEF LiveIInv, LiveTyped
<1>5. \A d \in cable \ cable' : \A i \in d : lines[i].state = "there"
  BY <1>3 DEF BroadcastReceived, Arrives
<1> QED
  BY <1>1, <1>2, <1>3, <1>4, <1>5, FetchOK
-----------------------------------------------------------------------------
\* A message is added to the room, by a handler that announces it or is going to.
LEMMA AppendOK ==
  ASSUME LiveIInv, NEW h \in Handlers, NEW l \in Lines, NEW R \in SUBSET Talkers,
         lines' = Append(lines, l), rowsOf' = Append(rowsOf, R),
         page' = page, served' = served, timers' = timers, faults' = faults,
         cable \subseteq cable', behind \subseteq behind',
         at' \in [Handlers -> LiveLabels], request' \in [Handlers -> Requests],
         \A g \in Handlers \ {h} : at'[g] = at[g] /\ request'[g] = request[g],
         at[h] \in {"idle", "post"}, at'[h] \in {"announce", "commit"},
         request'[h].new = {Len(lines) + 1},
         l.from \notin R, l.from = "viewer" => R # {},
         l.state = "there" =>
            /\ at'[h] = "announce"
            /\ \/ request'[h].user = "partner"
               \/ l.from = "viewer" /\ timers > 0
               \/ Len(lines) + 1 \in behind',
         l.state = "writing" => {Len(lines) + 1} \in cable',
         at'[h] = "commit" => l = [from |-> "system", state |-> "writing"]
  PROVE  LiveIInv'
<1>i. PICK i : i = Len(lines) + 1
  OBVIOUS
<1>t. LiveTyped
  BY DEF LiveIInv
<1>n. Len(lines) \in Nat /\ Numbers = 1..Len(lines) /\ DOMAIN rowsOf = Numbers
  BY <1>t, LineFacts
<1>1. /\ lines' \in Seq(Lines) /\ rowsOf' \in Seq(SUBSET Talkers)
      /\ Len(lines') = Len(lines) + 1 /\ Len(rowsOf') = Len(lines')
      /\ lines'[i] = l /\ rowsOf'[i] = R
      /\ \A j \in Numbers : lines'[j] = lines[j] /\ rowsOf'[j] = rowsOf[j]
  BY <1>t, <1>n, <1>i DEF LiveTyped
<1>2. Numbers' = Numbers \cup {i} /\ i \notin Numbers
  <2>1. DOMAIN lines' = 1..Len(lines')
    BY <1>1
  <2>2. 1..(Len(lines) + 1) = 1..Len(lines) \cup {Len(lines) + 1}
    BY <1>n
  <2> QED
    BY <2>1, <2>2, <1>1, <1>n, <1>i DEF Numbers
<1>3. There \subseteq There' /\ There' \subseteq There \cup {i} /\ (i \in There' => l.state = "there")
  BY <1>1, <1>2 DEF There, Numbers
<1>4. LiveTyped'
  BY <1>1, <1>t DEF LiveTyped
<1>5. NoOwnRows'
  BY <1>1, <1>2 DEF LiveIInv, NoOwnRows
<1>6. ReadIsServed' /\ ShownExist'
  BY <1>1, <1>2 DEF LiveIInv, ReadIsServed, ShownExist
<1>7. RequestsServed'
  BY <1>3 DEF LiveIInv, RequestsServed, Fetching
<1>8. PageAwaited'
  BY DEF LiveIInv, PageAwaited, Fetching
<1>9. Writing'
  <2>1. \A g \in Handlers \ {h} : at'[g] = "commit" =>
           \A j \in request'[g].new :
              j \in Numbers /\ j # i /\ lines'[j] = [from |-> "system", state |-> "writing"]
    BY <1>1, <1>2 DEF LiveIInv, Writing
  <2>2. \A g, f \in Handlers \ {h} : g # f /\ at'[g] = "commit" /\ at'[f] = "commit" =>
           request'[f].new \cap request'[g].new = {}
    BY DEF LiveIInv, Writing
  <2>3. at'[h] = "commit" =>
           \A j \in request'[h].new : j = i /\ lines'[j] = [from |-> "system", state |-> "writing"]
    BY <1>1, <1>i
  <2>4. request'[h].new = {i}
    BY <1>i
  <2>5. SUFFICES ASSUME NEW g \in Handlers, at'[g] = "commit"
                 PROVE  /\ \A j \in request'[g].new :
                              j \in Numbers' /\ lines'[j] = [from |-> "system", state |-> "writing"]
                        /\ \A f \in Handlers \ {g} :
                              at'[f] = "commit" => request'[f].new \cap request'[g].new = {}
    BY DEF Writing
  <2>6. CASE g = h
    BY <2>1, <2>3, <2>4, <2>5, <2>6, <1>2
  <2>7. CASE g # h
    <3>1. \A j \in request'[g].new :
             j \in Numbers /\ j # i /\ lines'[j] = [from |-> "system", state |-> "writing"]
      BY <2>1, <2>5, <2>7
    <3>2. ASSUME NEW f \in Handlers \ {g}, at'[f] = "commit"
          PROVE  request'[f].new \cap request'[g].new = {}
      <4>1. CASE f = h
        BY <3>1, <4>1, <2>4
      <4>2. CASE f # h
        BY <3>2, <4>2, <2>2, <2>5, <2>7
      <4> QED
        BY <4>1, <4>2
    <3> QED
      BY <3>1, <3>2, <1>2
  <2> QED
    BY <2>6, <2>7
<1>10. \A j : Announced(j) => Announced(j)'
  BY DEF Announced
<1>11. l.state = "writing" => Announced(i)'
  BY <1>i DEF Announced
<1>12. WritingAnnounced'
  BY <1>1, <1>2, <1>10, <1>11 DEF LiveIInv, WritingAnnounced
<1>13. DeletesTold'
  <2>1. \A g \in Handlers : at'[g] = "deleteRows" =>
            /\ g # h /\ at[g] = "deleteRows" /\ request'[g] = request[g]
            /\ request[g].ids \subseteq Numbers
    <3>1. There \subseteq Numbers
      BY DEF There, Numbers
    <3> QED
      BY <3>1 DEF LiveIInv, RequestsServed, Fetching
  <2> QED
    BY <1>1, <2>1 DEF LiveIInv, DeletesTold
<1>14. \A g \in Handlers : page.awaits = g => g # h
  BY DEF LiveIInv, PageAwaited, Fetching
<1>15. page.awaits \in Handlers \cup {"nothing"}
  BY <1>t DEF LiveTyped, PageShapes
<1>16. \A j : Given(j)' = Given(j) /\ (Marked(j) => Marked(j)')
  BY <1>10, <1>14, <1>15 DEF Given, Marked
<1>17. \A j \in Numbers : Heard(j) => Heard(j)'
  <2>1. \A j \in Numbers : lines'[j].from = lines[j].from
    BY <1>1
  <2> QED
    BY <2>1, <1>10, <1>16 DEF Heard
<1>18. i \in There' => Heard(i)'
  <2>1. SUFFICES ASSUME l.state = "there"
                 PROVE  Heard(i)'
    BY <1>3
  <2>2. i \in request'[h].new /\ at'[h] = "announce"
    BY <2>1, <1>i
  <2>3. \/ request'[h].user = "partner" \/ (l.from = "viewer" /\ timers > 0) \/ i \in behind'
    BY <2>1, <1>i
  <2> QED
    BY <2>2, <2>3, <1>1 DEF Heard
<1>19. There \subseteq Numbers
  BY DEF There, Numbers
<1>20. LivePageKept'
  <2>1. SUFFICES ASSUME faults = 0 /\ (page.loaded \/ page.awaits # "nothing")
                 PROVE  /\ \A j \in There' : Heard(j)'
                        /\ \A j \in Numbers' :
                              lines'[j].from = "viewer" /\ rowsOf'[j] = {} /\ Given(j)' => Marked(j)'
    BY DEF LivePageKept
  <2>2. /\ \A j \in There : Heard(j)
        /\ \A j \in Numbers : lines[j].from = "viewer" /\ rowsOf[j] = {} /\ Given(j) => Marked(j)
    BY <2>1 DEF LiveIInv, LivePageKept
  <2>3. \A j \in There' : Heard(j)'
    BY <2>2, <1>3, <1>17, <1>18, <1>19
  <2>4. \A j \in Numbers' :
            lines'[j].from = "viewer" /\ rowsOf'[j] = {} /\ Given(j)' => Marked(j)'
    BY <2>2, <1>1, <1>2, <1>16
  <2> QED
    BY <2>3, <2>4
<1> QED
  BY <1>4, <1>5, <1>6, <1>7, <1>8, <1>9, <1>12, <1>13, <1>20 DEF LiveIInv

\* A message is committed.
LEMMA CreateMessageOK ==
  ASSUME LiveIInv, NEW h \in Handlers, CreateMessage(h)
  PROVE  LiveIInv'
<1> DEFINE u == request[h].user
           i == Len(lines) + 1
           l == [from |-> u, state |-> "there"]
           r == [request[h] EXCEPT !.new = {i}]
<1>t. LiveTyped
  BY DEF LiveIInv
<1>1. /\ lines' = Append(lines, l) /\ rowsOf' = Append(rowsOf, {Other(u)})
      /\ page' = page /\ served' = served /\ timers' = timers /\ cable' = cable
      /\ request' = [request EXCEPT ![h] = r]
      /\ behind \subseteq behind'
      /\ u = "viewer" /\ timers = 0 => i \in behind'
  BY DEF CreateMessage, Ask, Lose
<1>2. at[h] = "post" /\ at' = [at EXCEPT ![h] = "announce"] /\ faults' = faults
  BY LiveHandlerSteps DEF CreateMessage
<1>3. u \in Talkers /\ i \in Nat
  BY <1>t, LineFacts DEF LiveTyped, Requests
<1>4. r \in Requests /\ r.new = {i} /\ r.user = u
  BY <1>3, <1>t DEF LiveTyped, Requests
<1>5. /\ at' \in [Handlers -> LiveLabels] /\ request' \in [Handlers -> Requests]
      /\ at'[h] = "announce" /\ request'[h].new = {i} /\ request'[h].user = u
      /\ \A g \in Handlers \ {h} : at'[g] = at[g] /\ request'[g] = request[g]
  <2> HIDE DEF r, u
  <2> QED
    BY <1>1, <1>2, <1>4, <1>t DEF LiveTyped, LiveLabels
<1>6. l \in Lines /\ l.from = u /\ l.state = "there"
  BY <1>3 DEF Lines, Talkers
<1>7. {Other(u)} \in SUBSET Talkers /\ u \notin {Other(u)} /\ {Other(u)} # {}
  BY <1>3 DEF Talkers, Other
<1>8. u = "partner" \/ timers > 0 \/ i \in behind'
  BY <1>1, <1>3, <1>t DEF Talkers, LiveTyped
<1>9. u = "viewer" \/ u = "partner"
  BY <1>3 DEF Talkers
<1> HIDE DEF u, l, r
<1>10. \/ request'[h].user = "partner" \/ (l.from = "viewer" /\ timers > 0) \/ Len(lines) + 1 \in behind'
  BY <1>5, <1>6, <1>8, <1>9
<1>11. cable \subseteq cable' /\ request'[h].new = {Len(lines) + 1}
  BY <1>1, <1>5
<1>12. at[h] \in {"idle", "post"} /\ at'[h] = "announce"
  BY <1>2, <1>5
<1> QED
  BY <1>1, <1>2, <1>5, <1>6, <1>7, <1>10, <1>11, <1>12, AppendOK

\* A system message is broadcast before it is there.
LEMMA CreateSystemMessageOK ==
  ASSUME LiveIInv, NEW h \in Handlers, CreateSystemMessage(h)
  PROVE  LiveIInv'
<1> DEFINE i == Len(lines) + 1
           l == [from |-> "system", state |-> "writing"]
           r == [NoRequest EXCEPT !.new = {i}]
<1>t. LiveTyped
  BY DEF LiveIInv
<1>1. /\ lines' = Append(lines, l) /\ rowsOf' = Append(rowsOf, {})
      /\ page' = page /\ served' = served /\ timers' = timers /\ cable' = cable \cup {{i}}
      /\ request' = [request EXCEPT ![h] = r]
      /\ behind' = behind
  BY DEF CreateSystemMessage, Ask, PageSame
<1>2. at[h] = "idle" /\ at' = [at EXCEPT ![h] = "commit"] /\ faults' = faults
  BY LiveHandlerSteps DEF CreateSystemMessage
<1>3. i \in Nat
  BY <1>t, LineFacts
<1>4. r \in Requests /\ r.new = {i}
  BY <1>3 DEF Requests, NoRequest, Talkers
<1>5. /\ at' \in [Handlers -> LiveLabels] /\ request' \in [Handlers -> Requests]
      /\ at'[h] = "commit" /\ request'[h].new = {i}
      /\ \A g \in Handlers \ {h} : at'[g] = at[g] /\ request'[g] = request[g]
  <2> HIDE DEF r
  <2> QED
    BY <1>1, <1>2, <1>4, <1>t DEF LiveTyped, LiveLabels
<1>6. l \in Lines /\ l.from = "system" /\ l.state = "writing"
  BY DEF Lines
<1>7. {} \in SUBSET Talkers
  OBVIOUS
<1>8. at[h] \in {"idle", "post"} /\ at'[h] \in {"announce", "commit"}
  BY <1>2, <1>5
<1>9. /\ cable \subseteq cable' /\ {Len(lines) + 1} \in cable' /\ behind \subseteq behind'
      /\ request'[h].new = {Len(lines) + 1}
  BY <1>1, <1>5
<1>10. l = [from |-> "system", state |-> "writing"]
  OBVIOUS
<1> HIDE DEF l, r
<1> QED
  BY <1>1, <1>2, <1>5, <1>6, <1>7, <1>8, <1>9, <1>10, AppendOK
\* A system message is committed, or rolled back.
LEMMA CommitSystemMessageOK ==
  ASSUME LiveIInv, NEW h \in Handlers, CommitSystemMessage(h)
  PROVE  LiveIInv'
<1>t. LiveTyped
  BY DEF LiveIInv
<1>1. PICK i \in request[h].new, s \in {"there", "gone"} :
         /\ lines' = [lines EXCEPT ![i].state = s]
         /\ rowsOf' = [rowsOf EXCEPT ![i] = IF s = "there" THEN Talkers ELSE {}]
  BY DEF CommitSystemMessage
<1>2. /\ page' = page /\ served' = served /\ timers' = timers /\ cable' = cable
      /\ behind' = behind /\ request' = [request EXCEPT ![h] = NoRequest]
  BY DEF CommitSystemMessage, LiveDone, Ask, PageSame
<1>3. at[h] = "commit" /\ at' = [at EXCEPT ![h] = "idle"] /\ faults' = faults
  BY LiveHandlerSteps DEF CommitSystemMessage, LiveDone
<1>4. NoRequest \in Requests
  BY DEF NoRequest, Requests, Talkers
<1>5. /\ at' \in [Handlers -> LiveLabels] /\ request' \in [Handlers -> Requests]
      /\ at'[h] = "idle"
      /\ \A g \in Handlers \ {h} : at'[g] = at[g] /\ request'[g] = request[g]
  BY <1>2, <1>3, <1>4, <1>t DEF LiveTyped, LiveLabels
<1>6. i \in Numbers /\ lines[i] = [from |-> "system", state |-> "writing"]
  BY <1>3 DEF LiveIInv, Writing
<1>7. lines[i].from = "system" /\ lines[i].state = "writing"
  BY <1>6
<1>8. /\ Len(lines) \in Nat /\ Numbers = 1..Len(lines) /\ DOMAIN rowsOf = Numbers
      /\ There \subseteq Numbers
  BY <1>t, LineFacts
<1>9. [lines[i] EXCEPT !.state = s] \in Lines /\ [lines[i] EXCEPT !.state = s].from = "system"
      /\ [lines[i] EXCEPT !.state = s].state = s
  BY <1>6 DEF Lines
<1>10. lines' = [lines EXCEPT ![i] = [lines[i] EXCEPT !.state = s]]
  BY <1>1
<1>11. /\ lines' \in Seq(Lines) /\ rowsOf' \in Seq(SUBSET Talkers) /\ Len(rowsOf') = Len(lines')
       /\ lines'[i].from = "system" /\ lines'[i].state = s
       /\ rowsOf'[i] \in {Talkers, {}}
       /\ \A j \in Numbers \ {i} : lines'[j] = lines[j] /\ rowsOf'[j] = rowsOf[j]
       /\ Len(lines') = Len(lines)
  <2>1. Talkers \in SUBSET Talkers /\ {} \in SUBSET Talkers
    OBVIOUS
  <2>2. /\ lines \in Seq(Lines) /\ rowsOf \in Seq(SUBSET Talkers) /\ Len(rowsOf) = Len(lines)
        /\ i \in 1..Len(lines)
    BY <1>t, <1>6, <1>8 DEF LiveTyped
  <2>3. PICK l \in Lines : l = [lines[i] EXCEPT !.state = s]
    BY <1>9
  <2>4. PICK R \in {Talkers, {}} : R = IF s = "there" THEN Talkers ELSE {}
    OBVIOUS
  <2>5. lines' = [lines EXCEPT ![i] = l] /\ rowsOf' = [rowsOf EXCEPT ![i] = R]
    BY <1>1, <1>10, <2>3, <2>4
  <2>6. l.from = "system" /\ l.state = s
    BY <1>9, <2>3
  <2>7. /\ lines' \in Seq(Lines) /\ Len(lines') = Len(lines) /\ lines'[i] = l
        /\ \A j \in Numbers \ {i} : lines'[j] = lines[j]
    BY <2>2, <2>5, <1>8
  <2>8. /\ rowsOf' \in Seq(SUBSET Talkers) /\ Len(rowsOf') = Len(rowsOf) /\ rowsOf'[i] = R
        /\ \A j \in Numbers \ {i} : rowsOf'[j] = rowsOf[j]
    BY <2>1, <2>2, <2>4, <2>5, <1>8
  <2> QED
    BY <2>2, <2>4, <2>6, <2>7, <2>8
<1>12. Numbers' = Numbers
  BY <1>10 DEF Numbers
<1>13. There \subseteq There' /\ There' \subseteq There \cup {i}
  BY <1>7, <1>11, <1>12 DEF There, Numbers
<1>14. LiveTyped'
  BY <1>2, <1>3, <1>5, <1>11, <1>t DEF LiveTyped
<1>15. NoOwnRows'
  BY <1>11, <1>12 DEF LiveIInv, NoOwnRows, Talkers
<1>16. ReadIsServed' /\ ShownExist'
  BY <1>2, <1>11, <1>12 DEF LiveIInv, ReadIsServed, ShownExist
<1>17. RequestsServed' /\ PageAwaited'
  BY <1>2, <1>3, <1>5, <1>13 DEF LiveIInv, RequestsServed, PageAwaited, Fetching
<1>18. Writing'
  <2>1. SUFFICES ASSUME NEW g \in Handlers, at'[g] = "commit"
                 PROVE  /\ \A j \in request'[g].new :
                              j \in Numbers' /\ lines'[j] = [from |-> "system", state |-> "writing"]
                        /\ \A f \in Handlers \ {g} :
                              at'[f] = "commit" => request'[f].new \cap request'[g].new = {}
    BY DEF Writing
  <2>2. g # h /\ at[g] = "commit" /\ request'[g] = request[g]
    BY <2>1, <1>5
  <2>3. request[g].new \cap request[h].new = {}
    BY <2>2, <1>3 DEF LiveIInv, Writing
  <2>4. \A j \in request[g].new :
           j \in Numbers /\ j # i /\ lines[j] = [from |-> "system", state |-> "writing"]
    BY <2>2, <2>3 DEF LiveIInv, Writing
  <2>5. \A f \in Handlers \ {g} : at'[f] = "commit" => request'[f].new \cap request'[g].new = {}
    BY <2>2, <1>5 DEF LiveIInv, Writing
  <2> QED
    BY <2>2, <2>4, <2>5, <1>11, <1>12
<1>19. WritingAnnounced'
  BY <1>2, <1>11, <1>12 DEF LiveIInv, WritingAnnounced, Announced
<1>20. DeletesTold'
  <2>1. \A g \in Handlers : at'[g] = "deleteRows" =>
            /\ g # h /\ at[g] = "deleteRows" /\ request'[g] = request[g]
            /\ request[g].ids \subseteq Numbers
    BY <1>3, <1>5, <1>8 DEF LiveIInv, RequestsServed, Fetching
  <2> QED
    BY <1>11, <2>1 DEF LiveIInv, DeletesTold
<1>21. \A g \in Handlers : page.awaits = g => g # h
  BY <1>3 DEF LiveIInv, PageAwaited, Fetching
<1>22. page.awaits \in Handlers \cup {"nothing"}
  BY <1>t DEF LiveTyped, PageShapes
<1>23. \A j : Given(j)' = Given(j) /\ Marked(j)' = Marked(j)
  BY <1>2, <1>5, <1>21, <1>22 DEF Given, Marked, Announced
<1>24. \A j \in Numbers \ {i} : Heard(j) => Heard(j)'
  <2>1. \A j \in Numbers \ {i} : lines'[j].from = lines[j].from
    BY <1>11
  <2> QED
    BY <2>1, <1>2, <1>3, <1>5, <1>23 DEF Heard, Announced
<1>25. Heard(i)'
  <2>1. i \in behind \/ Announced(i)
    BY <1>6, <1>7 DEF LiveIInv, WritingAnnounced
  <2> QED
    BY <2>1, <1>2 DEF Heard, Announced
<1>26. LivePageKept'
  BY <1>2, <1>3, <1>8, <1>11, <1>12, <1>13, <1>23, <1>24, <1>25 DEF LiveIInv, LivePageKept
<1> QED
  BY <1>14, <1>15, <1>16, <1>17, <1>18, <1>19, <1>20, <1>26 DEF LiveIInv

-----------------------------------------------------------------------------
\* A request sees which messages are read, and which are new, ...
LEMMA CountUnreadOK ==
  ASSUME LiveIInv, NEW h \in Handlers, CountUnread(h)
  PROVE  LiveIInv'
<1> DEFINE u == request[h].user
           ids == request[h].ids
           seen == {i \in ids : lines[i].from = u /\ rowsOf[i] = {}}
           new == {i \in ids : lines[i].from = Other(u) /\ u \in rowsOf[i]}
           r == [request[h] EXCEPT !.seen = seen, !.new = new]
<1>t. LiveTyped
  BY DEF LiveIInv
<1>1. /\ lines' = lines /\ rowsOf' = rowsOf /\ page' = page /\ served' = served
      /\ timers' = timers /\ cable' = cable /\ behind' = behind
      /\ request' = [request EXCEPT ![h] = r]
  BY DEF CountUnread, Ask, RoomSame, PageSame
<1>2. at[h] = "count" /\ at' = [at EXCEPT ![h] = "deleteRows"] /\ faults' = faults
  BY LiveHandlerSteps DEF CountUnread
<1>3. /\ r \in Requests /\ r.user = u /\ r.ids = ids /\ r.seen = seen /\ r.new = new
  BY <1>t DEF LiveTyped, Requests
<1>4. /\ at' \in [Handlers -> LiveLabels] /\ request' \in [Handlers -> Requests]
      /\ at'[h] = "deleteRows" /\ request'[h] = r
      /\ \A g \in Handlers \ {h} : at'[g] = at[g] /\ request'[g] = request[g]
  <2> HIDE DEF r
  <2> QED
    BY <1>1, <1>2, <1>3, <1>t DEF LiveTyped, LiveLabels
<1>5. Numbers' = Numbers /\ There' = There /\ There \subseteq Numbers
  BY <1>1 DEF Numbers, There
<1> HIDE DEF r
<1>6. /\ request'[h].user = request[h].user /\ request'[h].ids = request[h].ids
      /\ request'[h].seen = seen /\ request'[h].new = new
  BY <1>3, <1>4
<1>7. LiveTyped'
  BY <1>1, <1>2, <1>4, <1>t DEF LiveTyped
<1>8. NoOwnRows' /\ ReadIsServed' /\ ShownExist' /\ WritingAnnounced'
  BY <1>1, <1>5 DEF LiveIInv, NoOwnRows, ReadIsServed, ShownExist, WritingAnnounced, Announced
<1>9. RequestsServed'
  <2>1. ids \subseteq There /\ (u = "partner" => ids \subseteq served)
    BY <1>2 DEF LiveIInv, RequestsServed, Fetching
  <2>2. u = "viewer" => seen \subseteq served
    BY <2>1, <1>5 DEF LiveIInv, ReadIsServed
  <2> HIDE DEF seen, new, u, ids
  <2>3. \A g \in Handlers \ {h} : at'[g] \in Fetching =>
           /\ request'[g].ids \subseteq There'
           /\ request'[g].user = "partner" => request'[g].ids \subseteq served'
           /\ request'[g].user = "viewer" => request'[g].seen \subseteq served'
    BY <1>1, <1>4, <1>5 DEF LiveIInv, RequestsServed
  <2> QED
    BY <2>1, <2>2, <2>3, <1>1, <1>5, <1>6 DEF RequestsServed, u, ids
<1>10. PageAwaited'
  BY <1>1, <1>4, <1>6 DEF LiveIInv, PageAwaited, Fetching
<1>11. Writing'
  BY <1>1, <1>4, <1>5 DEF LiveIInv, Writing
<1>12. DeletesTold'
  <2>1. request'[h].user = "partner" =>
           \A i \in request'[h].ids :
              lines'[i].from = "viewer" /\ "partner" \in rowsOf'[i] => i \in request'[h].new
    BY <1>1, <1>6 DEF Other
  <2> HIDE DEF seen, new, u, ids
  <2> QED
    BY <2>1, <1>1, <1>4 DEF LiveIInv, DeletesTold
<1>13. page.awaits \in Handlers \cup {"nothing"}
  BY <1>t DEF LiveTyped, PageShapes
<1>14. \A i : Given(i)' = Given(i)
  <2> HIDE DEF seen, new, u, ids
  <2> QED
    BY <1>1, <1>4, <1>6, <1>13 DEF Given
<1>15. ASSUME NEW i \in Numbers, lines[i].from = "viewer", rowsOf[i] = {}, Given(i), Marked(i)
       PROVE  Marked(i)'
  <2>1. CASE page.awaits = h
    <3>1. u = "viewer" /\ i \in ids
      BY <1>15, <2>1, LiveAssumption DEF LiveIInv, PageAwaited, Given
    <3>2. i \in seen
      BY <1>15, <3>1
    <3> HIDE DEF seen, new, u, ids
    <3> QED
      BY <3>2, <2>1, <1>1, <1>6, LiveAssumption DEF Marked
  <2>2. CASE page.awaits # h
    <3> HIDE DEF seen, new, u, ids
    <3> QED
      BY <1>15, <2>2, <1>1, <1>4, <1>13 DEF Marked, Announced
  <2> QED
    BY <2>1, <2>2
<1>16. \A i : Heard(i) => Heard(i)'
  <2> HIDE DEF seen, new, u, ids
  <2> QED
    BY <1>1, <1>2, <1>4, <1>14 DEF Heard, Announced
<1>17. LivePageKept'
  <2> HIDE DEF seen, new, u, ids
  <2> QED
    BY <1>1, <1>2, <1>5, <1>14, <1>15, <1>16 DEF LiveIInv, LivePageKept
<1> QED
  BY <1>7, <1>8, <1>9, <1>10, <1>11, <1>12, <1>17 DEF LiveIInv

\* ... deletes the unread rows, which the partner's job tells the viewer of, ...
LEMMA DeleteUnreadOK ==
  ASSUME LiveIInv, NEW h \in Handlers, DeleteUnread(h)
  PROVE  LiveIInv'
<1> DEFINE u == request[h].user
           ids == request[h].ids
<1>t. LiveTyped
  BY DEF LiveIInv
<1>1. /\ lines' = lines /\ page' = page /\ served' = served /\ timers' = timers
      /\ behind' = behind /\ request' = request
      /\ rowsOf' = [i \in DOMAIN lines |-> IF i \in ids THEN rowsOf[i] \ {u} ELSE rowsOf[i]]
      /\ cable' = IF u = "viewer" \/ request[h].new = {} THEN cable
                  ELSE cable \cup {request[h].new}
  BY DEF DeleteUnread, DeletesRows, PageSame
<1>2. at[h] = "deleteRows" /\ at' = [at EXCEPT ![h] = "answer"] /\ faults' = faults
  BY LiveHandlerSteps DEF DeleteUnread, DeletesRows
<1>3. u \in Talkers
  BY <1>t DEF LiveTyped, Requests
<1>4. /\ at' \in [Handlers -> LiveLabels] /\ at'[h] = "answer"
      /\ \A g \in Handlers \ {h} : at'[g] = at[g]
  BY <1>2, <1>t DEF LiveTyped, LiveLabels
<1>5. /\ Numbers' = Numbers /\ There' = There
  BY <1>1 DEF Numbers, There
<1>6. /\ Len(lines) \in Nat /\ Numbers = 1..Len(lines) /\ There \subseteq Numbers
      /\ \A i \in Numbers : rowsOf[i] \in SUBSET Talkers
  BY <1>t, LineFacts
<1>7. \A i \in Numbers : /\ rowsOf'[i] \subseteq rowsOf[i]
                         /\ rowsOf'[i] = IF i \in ids THEN rowsOf[i] \ {u} ELSE rowsOf[i]
  BY <1>1 DEF Numbers
<1>8. rowsOf' \in Seq(SUBSET Talkers) /\ Len(rowsOf') = Len(lines)
  <2>1. \A i \in Numbers : rowsOf'[i] \in SUBSET Talkers
    BY <1>6, <1>7
  <2>2. rowsOf' = [i \in 1..Len(lines) |-> rowsOf'[i]]
    BY <1>1, <1>6 DEF Numbers
  <2> QED
    BY <2>1, <2>2, <1>6
<1> HIDE DEF u, ids
<1>9. LiveTyped'
  BY <1>1, <1>2, <1>4, <1>8, <1>t DEF LiveTyped
<1>10. NoOwnRows' /\ ShownExist'
  BY <1>1, <1>5, <1>7 DEF LiveIInv, NoOwnRows, ShownExist
<1>11. ASSUME NEW i \in Numbers, lines[i].from = "viewer", rowsOf'[i] = {}, rowsOf[i] # {}
       PROVE  i \in ids /\ u = "partner" /\ "partner" \in rowsOf[i]
  <2>1. "viewer" \notin rowsOf[i]
    BY <1>11 DEF LiveIInv, NoOwnRows
  <2>2. rowsOf[i] = {"partner"}
    BY <2>1, <1>6, <1>11 DEF Talkers
  <2> QED
    BY <2>2, <1>7, <1>11
<1>12. ReadIsServed'
  <2>1. u = "partner" => ids \subseteq served
    BY <1>2 DEF LiveIInv, RequestsServed, Fetching, u, ids
  <2> QED
    BY <2>1, <1>1, <1>5, <1>11 DEF LiveIInv, ReadIsServed
<1>13. RequestsServed' /\ PageAwaited' /\ Writing'
  BY <1>1, <1>2, <1>4, <1>5 DEF LiveIInv, RequestsServed, PageAwaited, Writing, Fetching
<1>14. \A i : Announced(i) => Announced(i)'
  BY <1>1 DEF Announced
<1>15. WritingAnnounced'
  BY <1>1, <1>5, <1>14 DEF LiveIInv, WritingAnnounced
<1>16. DeletesTold'
  <2>1. \A g \in Handlers : at'[g] = "deleteRows" =>
            /\ g # h /\ at[g] = "deleteRows" /\ request'[g] = request[g]
            /\ request[g].ids \subseteq Numbers
    BY <1>1, <1>4, <1>6 DEF LiveIInv, RequestsServed, Fetching
  <2> QED
    BY <2>1, <1>1, <1>7 DEF LiveIInv, DeletesTold
<1>17. page.awaits \in Handlers \cup {"nothing"}
  BY <1>t DEF LiveTyped, PageShapes
<1>18. \A i : Given(i)' = Given(i) /\ (Marked(i) => Marked(i)')
  BY <1>1, <1>2, <1>4, <1>14, <1>17 DEF Given, Marked
<1>19. \A i : Heard(i) => Heard(i)'
  BY <1>1, <1>2, <1>4, <1>14, <1>18 DEF Heard
<1>20. ASSUME NEW i \in Numbers, lines[i].from = "viewer", rowsOf'[i] = {}, rowsOf[i] # {}
       PROVE  Marked(i)'
  <2>1. i \in request[h].new
    BY <1>11, <1>20, <1>2 DEF LiveIInv, DeletesTold, u, ids
  <2>2. request[h].new \in cable'
    BY <2>1, <1>1, <1>11, <1>20
  <2> QED
    BY <2>1, <2>2 DEF Marked, Announced
<1>21. LivePageKept'
  BY <1>1, <1>2, <1>5, <1>18, <1>19, <1>20 DEF LiveIInv, LivePageKept
<1> QED
  BY <1>9, <1>10, <1>12, <1>13, <1>15, <1>16, <1>21 DEF LiveIInv

\* ... and answers the page that waits for it.
LEMMA AnswerOK ==
  ASSUME LiveIInv, NEW h \in Handlers, Answer(h)
  PROVE  LiveIInv'
<1>t. LiveTyped
  BY DEF LiveIInv
<1>1. /\ lines' = lines /\ rowsOf' = rowsOf /\ served' = served /\ timers' = timers
      /\ cable' = cable /\ behind' = behind
      /\ request' = [request EXCEPT ![h] = NoRequest]
      /\ page' = IF page.awaits = h
                 THEN [loaded |-> TRUE, shown |-> request[h].ids, read |-> request[h].seen,
                       awaits |-> "nothing"]
                 ELSE page
  BY DEF Answer, LiveDone, Ask, RoomSame
<1>2. at[h] = "answer" /\ at' = [at EXCEPT ![h] = "idle"] /\ faults' = faults
  BY LiveHandlerSteps DEF Answer, LiveDone
<1>3. NoRequest \in Requests
  BY DEF NoRequest, Requests, Talkers
<1>4. /\ at' \in [Handlers -> LiveLabels] /\ request' \in [Handlers -> Requests]
      /\ at'[h] = "idle"
      /\ \A g \in Handlers \ {h} : at'[g] = at[g] /\ request'[g] = request[g]
  BY <1>1, <1>2, <1>3, <1>t DEF LiveTyped, LiveLabels
<1>5. /\ Numbers' = Numbers /\ There' = There /\ There \subseteq Numbers
  BY <1>1 DEF Numbers, There
<1>6. request[h].ids \subseteq There
  BY <1>2 DEF LiveIInv, RequestsServed, Fetching
<1>7. page.awaits = h => request[h].user = "viewer" /\ request[h].seen \subseteq served
  BY <1>2 DEF LiveIInv, PageAwaited, RequestsServed, Fetching
<1>8. request[h] \in Requests
  BY <1>t DEF LiveTyped
<1>9. request[h].ids \in SUBSET Nat /\ request[h].seen \in SUBSET Nat
  BY <1>8 DEF Requests
<1>10. page' \in PageShapes
  BY <1>1, <1>9, <1>t DEF LiveTyped, PageShapes
<1>11. LiveTyped'
  BY <1>1, <1>2, <1>4, <1>10, <1>t DEF LiveTyped
<1>12. NoOwnRows' /\ ReadIsServed' /\ ShownExist' /\ WritingAnnounced'
  BY <1>1, <1>5, <1>6, <1>7
     DEF LiveIInv, NoOwnRows, ReadIsServed, ShownExist, WritingAnnounced, Announced
<1>13. RequestsServed' /\ Writing' /\ DeletesTold'
  BY <1>1, <1>4, <1>5 DEF LiveIInv, RequestsServed, Writing, DeletesTold, Fetching
<1>14. PageAwaited'
  BY <1>1, <1>4, LiveAssumption DEF LiveIInv, PageAwaited
<1>15. page.awaits \in Handlers \cup {"nothing"}
  BY <1>t DEF LiveTyped, PageShapes
<1>16. \A i : /\ Given(i)' = Given(i)
              /\ Marked(i) => Marked(i)'
  <2>1. CASE page.awaits = h
    <3>1. page'.awaits = "nothing" /\ page'.shown = request[h].ids /\ page'.read = request[h].seen
      BY <1>1, <2>1
    <3>2. page.awaits # "nothing"
      BY <2>1, LiveAssumption
    <3> QED
      BY <3>1, <3>2, <2>1, <1>1, <1>2 DEF Given, Marked, Announced
  <2>2. CASE page.awaits # h
    BY <1>1, <1>4, <1>15, <2>2 DEF Given, Marked, Announced
  <2> QED
    BY <2>1, <2>2
<1>17. \A i : Heard(i) => Heard(i)'
  BY <1>1, <1>2, <1>4, <1>16 DEF Heard, Announced
<1>18. page'.loaded \/ page'.awaits # "nothing" => page.loaded \/ page.awaits # "nothing"
  BY <1>1, LiveAssumption
<1>19. LivePageKept'
  BY <1>1, <1>2, <1>5, <1>16, <1>17, <1>18 DEF LiveIInv, LivePageKept
<1> QED
  BY <1>11, <1>12, <1>13, <1>14, <1>19 DEF LiveIInv

-----------------------------------------------------------------------------
\* A broadcast that nobody hears of leaves the viewer behind.
LEMMA BroadcastLostOK ==
  ASSUME LiveIInv, NEW e \in cable, BroadcastLost(e)
  PROVE  LiveIInv'
<1>t. LiveTyped
  BY DEF LiveIInv
<1>1. /\ lines' = lines /\ rowsOf' = rowsOf /\ served' = served /\ timers' = timers
      /\ cable' = cable \ {e} /\ page' = page /\ request' = request
      /\ at' = at /\ faults' = faults
  BY DEF BroadcastLost, RoomSame, handlerVars
<1>2. /\ Numbers' = Numbers /\ There' = There
  BY <1>1 DEF Numbers, There
<1>3. LiveTyped' /\ NoOwnRows' /\ ReadIsServed' /\ ShownExist'
  BY <1>1, <1>2, <1>t DEF LiveIInv, LiveTyped, NoOwnRows, ReadIsServed, ShownExist
<1>4. RequestsServed' /\ Writing' /\ DeletesTold' /\ PageAwaited'
  BY <1>1, <1>2 DEF LiveIInv, RequestsServed, Writing, DeletesTold, PageAwaited
<1>5. CASE Arrives(e) /\ page.awaits = "nothing"
  <2>1. behind' = behind /\ ~page.loaded
    BY <1>5 DEF BroadcastLost
  <2>2. \A i \in e : lines[i].state = "there"
    BY <1>5 DEF Arrives
  <2>3. WritingAnnounced'
    BY <2>1, <2>2, <1>1, <1>2 DEF LiveIInv, WritingAnnounced, Announced
  <2>4. LivePageKept'
    BY <2>1, <1>1, <1>5 DEF LivePageKept
  <2> QED
    BY <2>3, <2>4, <1>3, <1>4 DEF LiveIInv
<1>6. CASE ~(Arrives(e) /\ page.awaits = "nothing")
  <2>1. behind' = behind \cup e
    BY <1>6 DEF BroadcastLost, Lose
  <2>2. \A i : i \in behind \/ Announced(i) => i \in behind' \/ Announced(i)'
    BY <2>1, <1>1 DEF Announced
  <2>3. WritingAnnounced'
    BY <2>2, <1>1, <1>2 DEF LiveIInv, WritingAnnounced
  <2>4. \A i : Given(i)' = Given(i) /\ (Marked(i) => Marked(i)')
    BY <2>2, <1>1 DEF Given, Marked
  <2>5. \A i : Heard(i) => Heard(i)'
    BY <2>2, <2>4, <1>1 DEF Heard
  <2>6. LivePageKept'
    BY <2>4, <2>5, <1>1, <1>2 DEF LiveIInv, LivePageKept
  <2> QED
    BY <2>3, <2>6, <1>3, <1>4 DEF LiveIInv
<1> QED
  BY <1>5, <1>6

\* A handler that dies takes back what it was writing.
LEMMA LiveDieOK ==
  ASSUME LiveIInv, NEW h \in Handlers, LiveDie(h)
  PROVE  LiveIInv'
<1>t. LiveTyped
  BY DEF LiveIInv
<1>1. /\ rowsOf' = rowsOf /\ served' = served /\ timers' = timers
      /\ cable' = cable /\ behind' = behind
      /\ request' = [request EXCEPT ![h] = NoRequest]
      /\ page' = IF page.awaits = h THEN [page EXCEPT !.awaits = "nothing"] ELSE page
      /\ lines' = IF at[h] = "commit"
                  THEN [i \in DOMAIN lines |->
                           IF i \in request[h].new THEN [lines[i] EXCEPT !.state = "gone"]
                           ELSE lines[i]]
                  ELSE lines
  BY DEF LiveDie, Ask
<1>2. at[h] # "idle" /\ at' = [at EXCEPT ![h] = "idle"] /\ faults' = faults + 1
  BY LiveHandlerSteps DEF LiveDie
<1>3. NoRequest \in Requests
  BY DEF NoRequest, Requests, Talkers
<1>4. /\ at' \in [Handlers -> LiveLabels] /\ request' \in [Handlers -> Requests]
      /\ at'[h] = "idle"
      /\ \A g \in Handlers \ {h} : at'[g] = at[g] /\ request'[g] = request[g]
  BY <1>1, <1>2, <1>3, <1>t DEF LiveTyped, LiveLabels
<1>5. /\ page'.loaded = page.loaded /\ page'.shown = page.shown /\ page'.read = page.read
      /\ page' \in PageShapes /\ page'.awaits \in {page.awaits, "nothing"} /\ page'.awaits # h
  BY <1>1, <1>t, LiveAssumption DEF LiveTyped, PageShapes
<1>6. /\ Len(lines) \in Nat /\ Numbers = 1..Len(lines) /\ There \subseteq Numbers
      /\ \A i \in Numbers : lines[i] \in Lines
  BY <1>t, LineFacts
<1>7. at[h] = "commit" =>
         \A i \in request[h].new : i \in Numbers /\ lines[i] = [from |-> "system", state |-> "writing"]
  BY DEF LiveIInv, Writing
<1>8. \A i \in Numbers : [lines[i] EXCEPT !.state = "gone"] \in Lines
                         /\ [lines[i] EXCEPT !.state = "gone"].from = lines[i].from
                         /\ [lines[i] EXCEPT !.state = "gone"].state = "gone"
  BY <1>6 DEF Lines
<1>9. /\ lines' \in Seq(Lines) /\ Len(lines') = Len(lines) /\ Numbers' = Numbers
      /\ \A i \in Numbers :
            /\ lines'[i].from = lines[i].from
            /\ lines'[i] = lines[i] \/ (lines[i].state = "writing" /\ lines'[i].state = "gone")
            /\ lines'[i] # lines[i] => at[h] = "commit" /\ i \in request[h].new
  <2>1. CASE at[h] # "commit"
    BY <2>1, <1>1, <1>t DEF LiveTyped, Numbers
  <2>2. CASE at[h] = "commit"
    <3>1. lines' = [i \in Numbers |->
                       IF i \in request[h].new THEN [lines[i] EXCEPT !.state = "gone"] ELSE lines[i]]
      BY <1>1, <2>2 DEF Numbers
    <3>2. \A i \in Numbers : lines'[i] = IF i \in request[h].new THEN [lines[i] EXCEPT !.state = "gone"]
                                         ELSE lines[i]
      BY <3>1
    <3>3. \A i \in Numbers : lines'[i] \in Lines
      BY <3>2, <1>6, <1>8
    <3>4. lines' = [i \in 1..Len(lines) |-> lines'[i]]
      BY <3>1, <1>6
    <3>5. lines' \in Seq(Lines) /\ Len(lines') = Len(lines) /\ Numbers' = Numbers
      <4>1. lines' \in Seq(Lines) /\ Len(lines') = Len(lines)
        BY <3>3, <3>4, <1>6
      <4>2. DOMAIN lines' = Numbers
        BY <3>1
      <4> QED
        BY <4>1, <4>2 DEF Numbers
    <3>6. ASSUME NEW i \in Numbers
          PROVE  /\ lines'[i].from = lines[i].from
                 /\ lines'[i] = lines[i] \/ (lines[i].state = "writing" /\ lines'[i].state = "gone")
                 /\ lines'[i] # lines[i] => i \in request[h].new
      <4>1. CASE i \in request[h].new
        <5>1. lines[i].state = "writing"
          BY <4>1, <1>7, <2>2
        <5> QED
          BY <4>1, <5>1, <3>2, <3>6, <1>8
      <4>2. CASE i \notin request[h].new
        BY <4>2, <3>2, <3>6
      <4> QED
        BY <4>1, <4>2
    <3> QED
      BY <3>5, <3>6, <2>2
  <2> QED
    BY <2>1, <2>2
<1>10. There' = There
  BY <1>9 DEF There, Numbers
<1>11. LiveTyped'
  BY <1>1, <1>2, <1>4, <1>5, <1>9, <1>t DEF LiveTyped
<1>12. NoOwnRows' /\ ReadIsServed' /\ ShownExist'
  BY <1>1, <1>5, <1>9 DEF LiveIInv, NoOwnRows, ReadIsServed, ShownExist
<1>13. RequestsServed'
  BY <1>1, <1>4, <1>10 DEF LiveIInv, RequestsServed, Fetching
<1>14. PageAwaited'
  BY <1>4, <1>5, LiveAssumption DEF LiveIInv, PageAwaited
<1>15. Writing'
  <2>1. SUFFICES ASSUME NEW g \in Handlers, at'[g] = "commit"
                 PROVE  /\ \A j \in request'[g].new :
                              j \in Numbers' /\ lines'[j] = [from |-> "system", state |-> "writing"]
                        /\ \A f \in Handlers \ {g} :
                              at'[f] = "commit" => request'[f].new \cap request'[g].new = {}
    BY DEF Writing
  <2>2. g # h /\ at[g] = "commit" /\ request'[g] = request[g]
    BY <2>1, <1>4
  <2>3. \A j \in request[g].new :
           /\ j \in Numbers /\ lines[j] = [from |-> "system", state |-> "writing"]
           /\ ~(at[h] = "commit" /\ j \in request[h].new)
    BY <2>2 DEF LiveIInv, Writing
  <2>4. \A f \in Handlers \ {g} : at'[f] = "commit" => request'[f].new \cap request'[g].new = {}
    BY <2>2, <1>4 DEF LiveIInv, Writing
  <2> QED
    BY <2>2, <2>3, <2>4, <1>9
<1>16. WritingAnnounced'
  BY <1>1, <1>9 DEF LiveIInv, WritingAnnounced, Announced
<1>17. DeletesTold'
  <2>1. \A g \in Handlers : at'[g] = "deleteRows" =>
            /\ g # h /\ at[g] = "deleteRows" /\ request'[g] = request[g]
            /\ request[g].ids \subseteq Numbers
    BY <1>4, <1>6 DEF LiveIInv, RequestsServed, Fetching
  <2>2. \A j \in Numbers : lines'[j].from = lines[j].from
    BY <1>9
  <2> QED
    BY <2>1, <2>2, <1>1 DEF LiveIInv, DeletesTold
<1>18. LivePageKept'
  BY <1>2, <1>t DEF LivePageKept, LiveTyped
<1> QED
  BY <1>11, <1>12, <1>13, <1>14, <1>15, <1>16, <1>17, <1>18 DEF LiveIInv

\* Every step keeps the invariant.
LEMMA LiveNextOK ==
  ASSUME LiveIInv, [LiveNext]_<<handlerVars, liveVars>>
  PROVE  LiveIInv'
<1>1. CASE UNCHANGED <<handlerVars, liveVars>>
  BY <1>1, LiveSame DEF handlerVars, liveVars
<1>2. CASE Reconnect
  BY <1>2, ReconnectOK
<1>3. ASSUME NEW e \in cable, BroadcastLost(e)
      PROVE  LiveIInv'
  BY <1>3, BroadcastLostOK
<1>4. ASSUME NEW h \in Handlers, Send(h) \/ CreateMessage(h) \/ EnqueueMessageBroadcast(h)
      PROVE  LiveIInv'
  BY <1>4, SendOK, CreateMessageOK, EnqueueMessageBroadcastOK
<1>5. ASSUME NEW h \in Handlers, CreateSystemMessage(h) \/ CommitSystemMessage(h)
      PROVE  LiveIInv'
  BY <1>5, CreateSystemMessageOK, CommitSystemMessageOK
<1>6. ASSUME NEW h \in Handlers, OpenPage(h) \/ RefetchAfterSend(h) \/ CountUnread(h)
      PROVE  LiveIInv'
  BY <1>6, OpenPageOK, RefetchAfterSendOK, CountUnreadOK
<1>7. ASSUME NEW h \in Handlers, DeleteUnread(h) \/ Answer(h) \/ LiveDie(h)
      PROVE  LiveIInv'
  BY <1>7, DeleteUnreadOK, AnswerOK, LiveDieOK
<1>8. ASSUME NEW h \in Handlers, NEW e \in cable, BroadcastReceived(h, e)
      PROVE  LiveIInv'
  BY <1>8, BroadcastReceivedOK
<1> QED
  BY <1>1, <1>2, <1>3, <1>4, <1>5, <1>6, <1>7, <1>8 DEF LiveNext
-----------------------------------------------------------------------------
(* The profile search *)

SearchLabels ==
    {"idle", "find", "count", "stars", "extras", "favorite", "toggle", "profile", "blocking",
     "recent", "step", "tell"}
Finding == {"find", "count", "stars", "extras"}
Starring == {"favorite", "toggle"}
Visiting == {"profile", "blocking", "recent", "step", "tell"}

PageKeys == Queries \X (Nat \ {0})
Reasons == {"hidden", "blocked"}
SearchStates ==
    [key : PageKeys \cup {<<NoFilters, 0>>}, of : Found \cup {"nobody"}, starred : BOOLEAN,
     ids : SUBSET Found, total : Nat, stars : SUBSET Found, stamp : Nat,
     shut : SUBSET (Found \X Reasons)]

SearchTyped ==
    /\ Bounded /\ Sequential
    /\ at \in [Handlers -> SearchLabels] /\ search \in [Handlers -> SearchStates]
    /\ \A h \in Handlers :
          /\ at[h] \in Finding \cup Starring => search[h].key \in PageKeys
          /\ at[h] \in Visiting \cup Starring => search[h].of \in Found
    /\ DOMAIN cache \subseteq PageKeys
    /\ \A key \in DOMAIN cache : cache[key].items \subseteq Found
    /\ turns \in Nat /\ footDay \in Nat /\ footAlerts \in [Found -> Nat]
    /\ footprints \in Seq([of : Found, day : Nat])
    /\ {favorites, quitters, unlisted, refusers} \subseteq SUBSET Found

\* A search whose stamp is the present has read what holds.
FreshSearch(h) ==
    LET s == search[h]
        found == FoundBy(s.key[1])
    IN  /\ at[h] \in {"count", "stars", "extras"} => s.ids = PageOf(found, s.key[2])
        /\ at[h] \in {"stars", "extras"} => s.total = Cardinality(found)
        /\ at[h] = "extras" => s.stars = favorites \cap s.ids
FreshSearches ==
    \A h \in Handlers : search[h].stamp <= turns /\ (search[h].stamp = turns => FreshSearch(h))

\* So has a page with this stamp, ...
FreshPage(key) ==
    LET kept == cache[key]
        found == FoundBy(key[1])
    IN  /\ kept.items = PageOf(found, key[2]) /\ kept.total = Cardinality(found)
        /\ kept.stars = favorites \cap kept.items
FreshPages ==
    \A key \in DOMAIN cache :
        /\ cache[key].stamp \in -1..turns
        /\ cache[key].stamp = turns => FreshPage(key)

\* ... and pages with an older stamp have been cut from one list.
Cut(s, rank, n) == {u \in s : rank[u] \in Skipped(n)..(Skipped(n) + PageSize - 1)}
CutFrom(keys, s, rank) ==
    /\ s \subseteq Found /\ \A u \in s : rank[u] \in 0..(Cardinality(s) - 1)
    /\ \A key \in keys : cache[key].items = Cut(s, rank, key[2]) /\ cache[key].total = Cardinality(s)
OldPages ==
    \A q \in Queries, stamp \in Nat :
        stamp < turns => \E s \in SUBSET Found, rank \in [Found -> Nat] : CutFrom(KeptPages(q, stamp), s, rank)

\* Left alone, a star that was clicked is shown as it is, or the page is asked for again.
ClickShown ==
    /\ clicked.of \in cache[clicked.key].stars => clicked.of \in favorites
    /\ clicked.of \in favorites \cap cache[clicked.key].items =>
          clicked.of \in cache[clicked.key].stars
ClickKept ==
    ~overlapped /\ faults = 0 =>
        /\ \A h \in Handlers :
              /\ at[h] \in Starring => search[h].key = clicked.key
              /\ at[h] = "toggle" => search[h].starred = (search[h].of \in favorites)
              /\ at[h] = "extras" => search[h].stars = favorites \cap search[h].ids
        /\ clicked.key \in DOMAIN cache =>
              ClickShown \/ \E h \in Handlers : at[h] \in Finding \cup Starring /\ search[h].key = clicked.key

\* What has been closed all the time is closed, and what has been looked up was not.
ShutIsClosed ==
    /\ \A h \in Handlers :
          /\ search[h].shut \subseteq Closed
          /\ at[h] = "blocking" => <<search[h].of, "hidden">> \notin search[h].shut
          /\ at[h] \in {"recent", "step", "tell"} =>
                \A r \in Reasons : <<search[h].of, r>> \notin search[h].shut
    /\ ~intruded

\* One look at a time leaves one footprint a day.
Footsteps ==
    /\ \A i \in DOMAIN footprints : footprints[i].day <= footDay
    /\ ~overlapped =>
          /\ IsInjective(footprints)
          /\ \A h \in Handlers : at[h] = "step" =>
                \A i \in DOMAIN footprints : footprints[i] # [of |-> search[h].of, day |-> footDay]

\* A footprint is told of or is going to be.
StepsOf(u) == {i \in DOMAIN footprints : footprints[i].of = u}
Telling(u) == {h \in Handlers : at[h] = "tell" /\ search[h].of = u}
FootstepsTold ==
    \A u \in Found :
        /\ footAlerts[u] + Cardinality(Telling(u)) <= Cardinality(StepsOf(u))
        /\ faults = 0 /\ Facts[u].alerts =>
              footAlerts[u] + Cardinality(Telling(u)) = Cardinality(StepsOf(u))

\* The inductive invariant of the search.
SearchIInv ==
    /\ SearchTyped /\ FreshSearches /\ FreshPages /\ OldPages /\ ClickKept
    /\ ShutIsClosed /\ Footsteps /\ FootstepsTold

\* Who is n-th in a list is on one page: what the search cuts out at page n.
LEMMA PageNumber ==
  ASSUME NEW r \in Nat, NEW n \in Nat \ {0}
  PROVE  r \in Skipped(n)..(Skipped(n) + PageSize - 1) <=> n = r \div PageSize + 1
<1>1. PageSize \in Nat \ {0}
  BY SearchAssumption
<1>2. n - 1 \in Nat
  OBVIOUS
<1> DEFINE k == n - 1
<1>3. k * PageSize <= r <=> k <= r \div PageSize
  BY <1>1, <1>2, QuotientIsLargest
<1>4. (k + 1) * PageSize <= r <=> k + 1 <= r \div PageSize
  BY <1>1, <1>2, QuotientIsLargest
<1>5. (k + 1) * PageSize = k * PageSize + PageSize /\ k * PageSize \in Nat
  BY <1>1, <1>2
<1>6. r \div PageSize \in Nat
  BY <1>1, Quotient
<1>7. Skipped(n) = k * PageSize
  BY DEF Skipped
<1>8. r \in Skipped(n)..(Skipped(n) + PageSize - 1) <=> k * PageSize <= r /\ r < k * PageSize + PageSize
  <2> HIDE DEF k
  <2> QED
    BY <1>1, <1>5, <1>7
<1>9. n = k + 1 /\ k \in Nat
  BY <1>2
<1> HIDE DEF k
<1>10. (k + 1) * PageSize <= r <=> ~(r < k * PageSize + PageSize)
  BY <1>1, <1>5
<1> QED
  BY <1>3, <1>4, <1>6, <1>8, <1>9, <1>10

\* Who is among t comes on one of their pages.
LEMMA PagesSuffice ==
  ASSUME NEW t \in Nat, NEW r \in 0..(t - 1)
  PROVE  r \div PageSize + 1 \in 1..TotalPages(t)
<1>1. PageSize \in Nat \ {0} /\ t # 0 /\ r \in Nat /\ t - 1 \in Nat
  BY SearchAssumption
<1> DEFINE k == r \div PageSize
<1>2. k \in Nat /\ k * PageSize <= r
  <2>1. k \in Nat
    BY <1>1, Quotient
  <2> QED
    BY <2>1, <1>1, QuotientIsLargest
<1>3. (k + 1) * PageSize = k * PageSize + PageSize /\ k * PageSize \in Nat
  BY <1>1, <1>2
<1> HIDE DEF k
<1>4. (k + 1) * PageSize <= t + PageSize - 1
  BY <1>1, <1>2, <1>3
<1>5. k + 1 <= (t + PageSize - 1) \div PageSize
  <2>1. t + PageSize - 1 \in Nat /\ k + 1 \in Nat
    BY <1>1, <1>2
  <2> QED
    BY <2>1, <1>1, <1>4, QuotientIsLargest
<1>6. TotalPages(t) = (t + PageSize - 1) \div PageSize
  BY <1>1 DEF TotalPages
<1>7. (t + PageSize - 1) \div PageSize \in Nat
  <2>1. t + PageSize - 1 \in Nat
    BY <1>1
  <2> QED
    BY <2>1, <1>1, Quotient
<1> QED
  BY <1>2, <1>5, <1>6, <1>7 DEF k

\* Pages cut from one list have nobody in common, and all pages together are the list.
LEMMA CutsFit ==
  ASSUME NEW keys, NEW s, NEW rank, NEW q, CutFrom(keys, s, rank), IsFiniteSet(Found),
         \A key \in keys : key \in PageKeys /\ key[1] = q
  PROVE  /\ \A a, b \in keys : a # b => Items({a}) \cap Items({b}) = {}
         /\ \A a \in keys : {key[2] : key \in keys} = 1..TotalPages(cache[a].total) =>
               Items(keys) = s /\ Cardinality(Items(keys)) = cache[a].total
<1>1. IsFiniteSet(s) /\ Cardinality(s) \in Nat
  BY FS_Subset, FS_CardinalityType DEF CutFrom
<1>2. \A u \in s : rank[u] \in Nat /\ rank[u] \in 0..(Cardinality(s) - 1)
  BY <1>1 DEF CutFrom
<1>3. \A key \in keys : key[2] \in Nat \ {0} /\ key = <<q, key[2]>>
  BY DEF PageKeys
<1>4. ASSUME NEW key \in keys, NEW u
      PROVE  u \in cache[key].items <=> u \in s /\ key[2] = rank[u] \div PageSize + 1
  <2>1. cache[key].items = Cut(s, rank, key[2])
    BY DEF CutFrom
  <2>2. u \in s => (rank[u] \in Skipped(key[2])..(Skipped(key[2]) + PageSize - 1)
                       <=> key[2] = rank[u] \div PageSize + 1)
    BY <1>2, <1>3, PageNumber
  <2> QED
    BY <2>1, <2>2 DEF Cut
<1>5. \A key \in keys : Items({key}) = cache[key].items
  BY DEF Items
<1>6. ASSUME NEW a \in keys, NEW b \in keys, a # b
      PROVE  Items({a}) \cap Items({b}) = {}
  <2>1. a[2] # b[2]
    BY <1>3, <1>6
  <2>2. ASSUME NEW u, u \in Items({a}), u \in Items({b})
        PROVE  FALSE
    <3>1. u \in cache[a].items /\ u \in cache[b].items
      BY <2>2, <1>5
    <3> QED
      BY <2>1, <3>1, <1>4
  <2> QED
    BY <2>2
<1>7. ASSUME NEW a \in keys, {key[2] : key \in keys} = 1..TotalPages(cache[a].total)
      PROVE  Items(keys) = s /\ Cardinality(Items(keys)) = cache[a].total
  <2>1. cache[a].total = Cardinality(s)
    BY DEF CutFrom
  <2>2. ASSUME NEW u \in s
        PROVE  u \in Items(keys)
    <3>1. rank[u] \div PageSize + 1 \in 1..TotalPages(cache[a].total)
      BY <2>1, <1>1, <1>2, PagesSuffice
    <3>2. PICK key \in keys : key[2] = rank[u] \div PageSize + 1
      BY <3>1, <1>7
    <3> QED
      BY <3>2, <1>4 DEF Items
  <2>3. Items(keys) \subseteq s
    BY <1>4 DEF Items
  <2>4. Items(keys) = s
    BY <2>2, <2>3
  <2> QED
    BY <2>1, <2>4
<1> QED
  BY <1>6, <1>7

\* The pages of the present have been cut from the list of those who are found.
RankNow(q) == [u \in Found |-> Cardinality(LoggedInLater(FoundBy(q), u))]

LEMMA FreshCut ==
  ASSUME NEW q, NEW keys, keys \subseteq DOMAIN cache,
         \A key \in keys : key[1] = q /\ FreshPage(key)
  PROVE  /\ RankNow(q) \in [Found -> Nat] /\ FoundBy(q) \in SUBSET Found
         /\ CutFrom(keys, FoundBy(q), RankNow(q))
<1>1. IsFiniteSet(FoundBy(q)) /\ FoundBy(q) \subseteq Found
  BY FS_Subset, SearchAssumption DEF FoundBy
<1> DEFINE S == FoundBy(q)
           R == RankNow(q)
<1>2. \A u \in Found : LoggedInLater(S, u) \subseteq S \ {u}
  BY DEF LoggedInLater
<1> HIDE DEF S, R
<1>3. ASSUME NEW u \in Found
      PROVE  /\ Cardinality(LoggedInLater(S, u)) \in Nat
             /\ u \in S => Cardinality(LoggedInLater(S, u)) \in 0..(Cardinality(S) - 1)
  <2>1. IsFiniteSet(S) /\ IsFiniteSet(S \ {u}) /\ IsFiniteSet(LoggedInLater(S, u))
    BY <1>1, <1>2, FS_Subset DEF S
  <2>2. /\ Cardinality(S) \in Nat /\ Cardinality(S \ {u}) \in Nat
        /\ Cardinality(LoggedInLater(S, u)) \in Nat
    BY <2>1, FS_CardinalityType
  <2>3. Cardinality(LoggedInLater(S, u)) <= Cardinality(S \ {u})
    BY <2>1, <1>2, FS_Subset
  <2>4. u \in S => Cardinality(S \ {u}) = Cardinality(S) - 1
    BY <2>1, FS_RemoveElement
  <2> QED
    BY <2>2, <2>3, <2>4
<1>4. \A u \in Found : R[u] = Cardinality(LoggedInLater(S, u))
  BY DEF R, S, RankNow
<1>5. R \in [Found -> Nat]
  BY <1>3 DEF R, S, RankNow
<1>6. \A u \in S : R[u] \in 0..(Cardinality(S) - 1)
  BY <1>1, <1>3, <1>4 DEF S
<1>7. \A n : PageOf(S, n) = Cut(S, R, n)
  BY <1>1, <1>4 DEF PageOf, Cut, S
<1>8. \A key \in keys : cache[key].items = Cut(S, R, key[2]) /\ cache[key].total = Cardinality(S)
  BY <1>7 DEF FreshPage, S
<1> QED
  BY <1>1, <1>5, <1>6, <1>8 DEF CutFrom, S, R

\* What the invariant says of the kept pages is what the screen shows.
LEMMA PagesFit ==
  ASSUME SearchTyped, FreshPages, OldPages
  PROVE  PagesFitTogether
<1> SUFFICES ASSUME NEW q \in Queries, NEW stamp \in 0..turns
             PROVE  /\ \A a, b \in KeptPages(q, stamp) : a # b => Items({a}) \cap Items({b}) = {}
                    /\ \A a \in KeptPages(q, stamp) :
                          {key[2] : key \in KeptPages(q, stamp)} = 1..TotalPages(cache[a].total) =>
                             /\ Cardinality(Items(KeptPages(q, stamp))) = cache[a].total
                             /\ stamp = turns => Items(KeptPages(q, stamp)) = FoundBy(q)
  BY DEF PagesFitTogether
<1>k. PICK keys : keys = KeptPages(q, stamp)
  OBVIOUS
<1>1. turns \in Nat /\ stamp \in Nat /\ IsFiniteSet(Found)
  BY SearchAssumption DEF SearchTyped
<1>2. \A key \in keys : key \in DOMAIN cache /\ key \in PageKeys /\ key[1] = q
  BY <1>k DEF KeptPages, SearchTyped
<1>3. CASE stamp = turns
  <2>1. \A key \in keys : FreshPage(key)
    BY <1>k, <1>2, <1>3 DEF FreshPages, KeptPages
  <2>2. CutFrom(keys, FoundBy(q), RankNow(q))
    BY <1>2, <2>1, FreshCut
  <2>3. /\ \A a, b \in keys : a # b => Items({a}) \cap Items({b}) = {}
        /\ \A a \in keys : {key[2] : key \in keys} = 1..TotalPages(cache[a].total) =>
              Items(keys) = FoundBy(q) /\ Cardinality(Items(keys)) = cache[a].total
    BY <2>2, <1>1, <1>2, CutsFit
  <2> QED
    BY <2>3, <1>k
<1>4. CASE stamp < turns
  <2>1. PICK s \in SUBSET Found, rank \in [Found -> Nat] : CutFrom(keys, s, rank)
    BY <1>k, <1>1, <1>4 DEF OldPages
  <2>2. /\ \A a, b \in keys : a # b => Items({a}) \cap Items({b}) = {}
        /\ \A a \in keys : {key[2] : key \in keys} = 1..TotalPages(cache[a].total) =>
              Items(keys) = s /\ Cardinality(Items(keys)) = cache[a].total
    BY <2>1, <1>1, <1>2, CutsFit
  <2> QED
    BY <2>2, <1>k, <1>1, <1>4
<1> QED
  BY <1>1, <1>3, <1>4

\* The invariant says all that the screen promises.
LEMMA SearchIInvTruth ==
  ASSUME SearchIInv
  PROVE  SearchTellsTruth
<1>1. PagesFitTogether
  BY PagesFit DEF SearchIInv
<1>2. StarsShown
  <2>1. \A key \in DOMAIN cache : cache[key].stamp = turns =>
           cache[key].stars = favorites \cap cache[key].items
    BY DEF SearchIInv, FreshPages, FreshPage
  <2>2. ASSUME Undisturbed, clicked.key \in DOMAIN cache
        PROVE  ClickShown
    <3>1. ~overlapped /\ faults = 0 /\ \A h \in Handlers : at[h] = "idle"
      BY <2>2 DEF Undisturbed, AtRest, Idle
    <3> QED
      BY <2>2, <3>1 DEF SearchIInv, ClickKept, Finding, Starring
  <2> QED
    BY <2>1, <2>2 DEF StarsShown, ClickShown
<1>3. OneFootprintADay
  <2>1. ~overlapped => IsInjective(footprints)
    BY DEF SearchIInv, Footsteps
  <2>2. ASSUME NEW u \in Found
        PROVE  /\ footAlerts[u] <= Cardinality(StepsOf(u))
               /\ Undisturbed /\ Facts[u].alerts => footAlerts[u] = Cardinality(StepsOf(u))
    <3>1. IsFiniteSet(Telling(u)) /\ Cardinality(Telling(u)) \in Nat
      BY SearchAssumption, FS_Subset, FS_CardinalityType DEF Telling
    <3>2. IsFiniteSet(StepsOf(u)) /\ Cardinality(StepsOf(u)) \in Nat
      <4>1. StepsOf(u) \subseteq 1..Len(footprints) /\ Len(footprints) \in Nat
        BY DEF StepsOf, SearchIInv, SearchTyped
      <4>2. IsFiniteSet(1..Len(footprints))
        BY <4>1, FS_Interval
      <4> QED
        BY <4>1, <4>2, FS_Subset, FS_CardinalityType
    <3>3. footAlerts[u] \in Nat
      BY DEF SearchIInv, SearchTyped
    <3>4. Undisturbed => faults = 0 /\ Telling(u) = {}
      BY DEF Undisturbed, AtRest, Idle, Telling
    <3>5. Undisturbed => Cardinality(Telling(u)) = 0
      BY <3>4, FS_EmptySet
    <3>6. /\ footAlerts[u] + Cardinality(Telling(u)) <= Cardinality(StepsOf(u))
          /\ faults = 0 /\ Facts[u].alerts =>
                footAlerts[u] + Cardinality(Telling(u)) = Cardinality(StepsOf(u))
      BY DEF SearchIInv, FootstepsTold
    <3> QED
      BY <3>1, <3>2, <3>3, <3>4, <3>5, <3>6
  <2> QED
    BY <2>1, <2>2 DEF OneFootprintADay, StepsOf
<1> QED
  BY <1>1, <1>2, <1>3 DEF SearchIInv, ShutIsClosed, SearchTellsTruth

\* At the start nobody has searched.
LEMMA SearchInitOK ==
  ASSUME HandlersInit, SearchIdle
  PROVE  SearchIInv
<1>1. /\ at = [h \in Handlers |-> "idle"] /\ faults = 0 /\ Bounded /\ Sequential
  BY InitBounded DEF Idle
<1>2. /\ search = [h \in Handlers |-> NoSearch] /\ DOMAIN cache = {} /\ footprints = <<>>
      /\ DOMAIN footprints = {} /\ turns = 0
  BY DEF SearchIdle, NoPages
<1>3. NoSearch \in SearchStates /\ NoSearch.stamp = 0 /\ NoSearch.shut = {}
  BY DEF NoSearch, SearchStates
<1>4. SearchTyped
  BY <1>1, <1>2, <1>3 DEF SearchTyped, SearchIdle, SearchLabels, Finding, Starring, Visiting
<1>5. FreshSearches
  BY <1>1, <1>2, <1>3 DEF FreshSearches, FreshSearch
<1>6. FreshPages /\ OldPages
  BY <1>2 DEF FreshPages, OldPages
<1>7. ClickKept
  BY <1>1, <1>2 DEF ClickKept, Starring
<1>8. ShutIsClosed
  BY <1>1, <1>2, <1>3 DEF ShutIsClosed, SearchIdle
<1>9. Footsteps
  BY <1>1, <1>2 DEF Footsteps, IsInjective
<1>10. FootstepsTold
  <2>1. \A u \in Found : Telling(u) = {} /\ StepsOf(u) = {} /\ footAlerts[u] = 0
    BY <1>1, <1>2 DEF Telling, StepsOf, SearchIdle
  <2>2. Cardinality({}) = 0
    BY FS_EmptySet
  <2> QED
    BY <2>1, <2>2 DEF FootstepsTold
<1> QED
  BY <1>4, <1>5, <1>6, <1>7, <1>8, <1>9, <1>10 DEF SearchIInv

-----------------------------------------------------------------------------
\* What those who are found depends on stays as it was.
WorldSame == UNCHANGED <<viewer, visits, unlisted, quitters, favorites, turns>>

LEMMA FoundSame ==
  ASSUME viewer' = viewer, unlisted' = unlisted, quitters' = quitters, favorites' = favorites,
         visits' = visits
  PROVE  \A q, n : FoundBy(q)' = FoundBy(q) /\ PageOf(FoundBy(q), n)' = PageOf(FoundBy(q), n)
<1>1. \A q : FoundBy(q)' = FoundBy(q)
  BY DEF FoundBy, Visible, SearchableUserTypes, Condition
<1>2. \A s, u : LoggedInLater(s, u)' = LoggedInLater(s, u)
  BY DEF LoggedInLater
<1>3. \A q, n : PageOf(FoundBy(q), n)' = PageOf(FoundBy(q), n)
  BY <1>1, <1>2 DEF PageOf
<1> QED
  BY <1>1, <1>3

\* The pages stay right while nothing changes, ...
LEMMA PagesKept ==
  ASSUME FreshPages, OldPages, WorldSame, cache' = cache
  PROVE  FreshPages' /\ OldPages'
<1>1. \A q, n : FoundBy(q)' = FoundBy(q) /\ PageOf(FoundBy(q), n)' = PageOf(FoundBy(q), n)
  BY FoundSame DEF WorldSame
<1>2. FreshPages'
  BY <1>1 DEF FreshPages, FreshPage, WorldSame
<1>3. OldPages'
  BY DEF OldPages, KeptPages, CutFrom, WorldSame
<1> QED
  BY <1>2, <1>3

\* ... also when the present becomes the past.
LEMMA PagesAge ==
  ASSUME SearchTyped, FreshPages, OldPages, cache' = cache, turns' = turns + 1
  PROVE  FreshPages' /\ OldPages'
<1>1. turns \in Nat
  BY DEF SearchTyped
<1>2. FreshPages'
  BY <1>1 DEF FreshPages
<1>3. ASSUME NEW q \in Queries, NEW stamp \in Nat, stamp < turns'
      PROVE  \E s \in SUBSET Found, rank \in [Found -> Nat] : CutFrom(KeptPages(q, stamp), s, rank)'
  <2>k. PICK keys : keys = KeptPages(q, stamp)
    OBVIOUS
  <2>1. \E s \in SUBSET Found, rank \in [Found -> Nat] : CutFrom(keys, s, rank)
    <3>1. CASE stamp < turns
      BY <2>k, <3>1 DEF OldPages
    <3>2. CASE stamp = turns
      <4>1. keys \subseteq DOMAIN cache /\ \A key \in keys : key[1] = q /\ FreshPage(key)
        BY <2>k, <3>2 DEF KeptPages, FreshPages
      <4> QED
        BY <4>1, FreshCut
    <3> QED
      BY <1>1, <1>3, <3>1, <3>2
  <2>2. KeptPages(q, stamp)' = keys
    BY <2>k DEF KeptPages
  <2> QED
    BY <2>1, <2>2 DEF CutFrom
<1>4. OldPages'
  BY <1>3 DEF OldPages
<1> QED
  BY <1>2, <1>4

\* A page that is kept replaces an earlier one.
LEMMA PageAdded ==
  ASSUME SearchTyped, FreshPages, OldPages, WorldSame, NEW k \in PageKeys, NEW p,
         p.stamp \in {turns, -1},
         p.stamp = turns =>
            /\ p.items = PageOf(FoundBy(k[1]), k[2]) /\ p.total = Cardinality(FoundBy(k[1]))
            /\ p.stars = favorites \cap p.items,
         cache' = [key \in DOMAIN cache \cup {k} |-> IF key = k THEN p ELSE cache[key]]
  PROVE  FreshPages' /\ OldPages'
<1>1. \A q, n : FoundBy(q)' = FoundBy(q) /\ PageOf(FoundBy(q), n)' = PageOf(FoundBy(q), n)
  BY FoundSame DEF WorldSame
<1>2. turns \in Nat /\ turns' = turns /\ favorites' = favorites
  BY DEF SearchTyped, WorldSame
<1>3. /\ DOMAIN cache' = DOMAIN cache \cup {k} /\ cache'[k] = p
      /\ \A key \in DOMAIN cache \ {k} : cache'[key] = cache[key]
  OBVIOUS
<1>4. FreshPages'
  <2>1. cache'[k].stamp \in -1..turns /\ (cache'[k].stamp = turns => FreshPage(k)')
    BY <1>1, <1>2, <1>3 DEF FreshPage
  <2>2. \A key \in DOMAIN cache \ {k} :
           cache'[key].stamp \in -1..turns /\ (cache'[key].stamp = turns => FreshPage(key)')
    BY <1>1, <1>2, <1>3 DEF FreshPages, FreshPage
  <2> QED
    BY <2>1, <2>2, <1>2, <1>3 DEF FreshPages
<1>5. ASSUME NEW q \in Queries, NEW stamp \in Nat, stamp < turns'
      PROVE  \E s \in SUBSET Found, rank \in [Found -> Nat] : CutFrom(KeptPages(q, stamp), s, rank)'
  <2>1. PICK s \in SUBSET Found, rank \in [Found -> Nat] : CutFrom(KeptPages(q, stamp), s, rank)
    BY <1>2, <1>5 DEF OldPages
  <2>2. \A key \in KeptPages(q, stamp)' : key \in KeptPages(q, stamp) /\ cache'[key] = cache[key]
    BY <1>2, <1>3, <1>5 DEF KeptPages
  <2>3. CutFrom(KeptPages(q, stamp), s, rank)'
    BY <2>1, <2>2 DEF CutFrom
  <2> QED
    BY <2>3
<1>6. OldPages'
  BY <1>5 DEF OldPages
<1> QED
  BY <1>4, <1>6
-----------------------------------------------------------------------------
\* What a step of handler h leaves, which goes to l with the state s.
SearchMoves(h, l, s) ==
    /\ at' \in [Handlers -> SearchLabels] /\ search' \in [Handlers -> SearchStates]
    /\ Bounded' /\ Sequential' /\ faults <= faults'
    /\ at'[h] = l /\ search'[h] = s
    /\ \A g \in Handlers \ {h} : at'[g] = at[g] /\ search'[g] = search[g]
    /\ ~overlapped' => ~overlapped /\ \A g \in Handlers \ {h} : at[g] = "idle" /\ at'[g] = "idle"

LEMMA SearchStep ==
  ASSUME SearchIInv, NEW h \in Handlers, NEW l \in SearchLabels, NEW s \in SearchStates,
         HandlerStep(h, l), search' = [search EXCEPT ![h] = s]
  PROVE  SearchMoves(h, l, s)
<1>1. /\ at \in [Handlers -> SearchLabels] /\ search \in [Handlers -> SearchStates]
      /\ Bounded /\ Sequential
  BY DEF SearchIInv, SearchTyped
<1>2. /\ at' \in [Handlers -> SearchLabels] /\ Bounded' /\ Sequential'
      /\ MovesTo(h, l) /\ faults <= faults'
      /\ ~overlapped' =>
            ~overlapped /\ \A g \in Handlers \ {h} : at[g] = "idle" /\ at'[g] = "idle"
  BY <1>1, HandlerSteps
<1>3. /\ search' \in [Handlers -> SearchStates] /\ search'[h] = s
      /\ \A g \in Handlers \ {h} : search'[g] = search[g]
  BY <1>1
<1> QED
  BY <1>2, <1>3 DEF SearchMoves, MovesTo

\* The types.
LEMMA SearchTypes ==
  ASSUME SearchIInv, NEW h \in Handlers, NEW l, NEW s, SearchMoves(h, l, s),
         l \in Finding \cup Starring => s.key \in PageKeys,
         l \in Visiting \cup Starring => s.of \in Found,
         DOMAIN cache' \subseteq PageKeys, \A key \in DOMAIN cache' : cache'[key].items \subseteq Found,
         turns' \in Nat, footDay' \in Nat,
         footAlerts' \in [Found -> Nat], footprints' \in Seq([of : Found, day : Nat]),
         {favorites', quitters', unlisted', refusers'} \subseteq SUBSET Found
  PROVE  SearchTyped'
BY DEF SearchIInv, SearchTyped, SearchMoves

\* What the handlers have read stays right while nothing changes.
LEMMA SearchesKept ==
  ASSUME SearchIInv, NEW h \in Handlers, NEW l, NEW s, SearchMoves(h, l, s), WorldSame,
         s.stamp <= turns,
         s.stamp = turns =>
            /\ l \in {"count", "stars", "extras"} => s.ids = PageOf(FoundBy(s.key[1]), s.key[2])
            /\ l \in {"stars", "extras"} => s.total = Cardinality(FoundBy(s.key[1]))
            /\ l = "extras" => s.stars = favorites \cap s.ids
  PROVE  FreshSearches'
<1>1. \A q, n : FoundBy(q)' = FoundBy(q) /\ PageOf(FoundBy(q), n)' = PageOf(FoundBy(q), n)
  BY FoundSame DEF WorldSame
<1>2. turns' = turns /\ favorites' = favorites
  BY DEF WorldSame
<1>3. \A g \in Handlers \ {h} :
         search'[g].stamp <= turns' /\ (search'[g].stamp = turns' => FreshSearch(g)')
  <2>1. \A g \in Handlers \ {h} : FreshSearch(g)' = FreshSearch(g)
    BY <1>1, <1>2 DEF FreshSearch, SearchMoves
  <2> QED
    BY <2>1, <1>2 DEF SearchMoves, SearchIInv, FreshSearches
<1>4. search'[h].stamp <= turns' /\ (search'[h].stamp = turns' => FreshSearch(h)')
  BY <1>1, <1>2 DEF FreshSearch, SearchMoves
<1> QED
  BY <1>3, <1>4 DEF FreshSearches

\* Profiles are not concerned by a step of a search or of a click on a star.
LEMMA VisitsAside ==
  ASSUME SearchIInv, NEW h \in Handlers, NEW l, NEW s, SearchMoves(h, l, s),
         at[h] \notin Visiting, l \notin Visiting, s.shut \subseteq search[h].shut,
         unlisted' = unlisted, quitters' = quitters, refusers' = refusers, TracksSame
  PROVE  ShutIsClosed' /\ Footsteps' /\ FootstepsTold'
<1>1. Closed' = Closed
  BY DEF Closed
<1>2. ShutIsClosed'
  <2>1. search'[h].shut \subseteq Closed /\ at'[h] \notin Visiting
    BY DEF SearchMoves, SearchIInv, ShutIsClosed
  <2>2. intruded' = intruded
    BY DEF TracksSame
  <2> QED
    BY <1>1, <2>1, <2>2 DEF SearchMoves, SearchIInv, ShutIsClosed, Visiting
<1>3. footprints' = footprints /\ footDay' = footDay /\ footAlerts' = footAlerts
  BY DEF TracksSame
<1>4. Footsteps'
  BY <1>3 DEF SearchMoves, SearchIInv, Footsteps, Visiting
<1>5. \A u \in Found : Telling(u)' = Telling(u) /\ StepsOf(u)' = StepsOf(u)
  BY <1>3 DEF Telling, StepsOf, SearchMoves, Visiting
<1>6. faults' = 0 => faults = 0
  BY DEF SearchMoves, SearchIInv, SearchTyped, Bounded
<1>7. FootstepsTold'
  BY <1>3, <1>5, <1>6 DEF SearchIInv, FootstepsTold
<1> QED
  BY <1>2, <1>4, <1>7

\* Searches and stars are not concerned by a step of a look at a profile.
LEMMA SearchAside ==
  ASSUME SearchIInv, NEW h \in Handlers, NEW l, NEW s, SearchMoves(h, l, s), WorldSame,
         at[h] \notin Finding \cup Starring, l \notin Finding \cup Starring, s.stamp <= turns,
         cache' = cache, clicked' = clicked
  PROVE  FreshSearches' /\ FreshPages' /\ OldPages' /\ ClickKept'
<1>1. FreshSearches'
  BY SearchesKept DEF Finding
<1>2. FreshPages' /\ OldPages'
  BY PagesKept DEF SearchIInv
<1>3. favorites' = favorites
  BY DEF WorldSame
<1>4. faults' = 0 => faults = 0
  BY DEF SearchMoves, SearchIInv, SearchTyped, Bounded
<1>5. ClickShown' = ClickShown
  BY <1>3 DEF ClickShown
<1>6. ClickKept'
  <2> SUFFICES ASSUME ~overlapped', faults' = 0
               PROVE  /\ \A g \in Handlers :
                            /\ at'[g] \in Starring => search'[g].key = clicked'.key
                            /\ at'[g] = "toggle" => search'[g].starred = (search'[g].of \in favorites')
                            /\ at'[g] = "extras" => search'[g].stars = favorites' \cap search'[g].ids
                      /\ clicked'.key \in DOMAIN cache' =>
                            \/ ClickShown'
                            \/ \E g \in Handlers : at'[g] \in Finding \cup Starring
                                                   /\ search'[g].key = clicked'.key
    BY DEF ClickKept
  <2>1. ~overlapped /\ faults = 0 /\ \A g \in Handlers : at'[g] \notin Finding \cup Starring
    BY <1>4 DEF SearchMoves, Finding, Starring
  <2>2. \A g \in Handlers : at[g] \notin Finding \cup Starring
    BY DEF SearchMoves, Finding, Starring
  <2>3. clicked.key \in DOMAIN cache => ClickShown
    BY <2>1, <2>2 DEF SearchIInv, ClickKept
  <2> QED
    BY <2>1, <2>3, <1>5 DEF Finding, Starring
<1> QED
  BY <1>1, <1>2, <1>6

\* A click stays shown, or under way, when its handler goes on.
LEMMA ClickGoesOn ==
  ASSUME SearchIInv, NEW h \in Handlers, NEW l, NEW s, SearchMoves(h, l, s),
         cache' = cache, clicked' = clicked, favorites' = favorites,
         l \in Finding \cup Starring,
         at[h] \in Finding \cup Starring => s.key = search[h].key,
         ~overlapped /\ faults = 0 /\ (\A g \in Handlers \ {h} : at[g] = "idle") =>
            /\ l \in Starring => s.key = clicked.key
            /\ l = "toggle" => s.starred = (s.of \in favorites)
            /\ l = "extras" => s.stars = favorites \cap s.ids
  PROVE  ClickKept'
<1>0. faults' = 0 => faults = 0
  BY DEF SearchMoves, SearchIInv, SearchTyped, Bounded
<1>1. ClickShown' = ClickShown
  BY DEF ClickShown
<1> SUFFICES ASSUME ~overlapped', faults' = 0
             PROVE  /\ \A g \in Handlers :
                          /\ at'[g] \in Starring => search'[g].key = clicked'.key
                          /\ at'[g] = "toggle" => search'[g].starred = (search'[g].of \in favorites')
                          /\ at'[g] = "extras" => search'[g].stars = favorites' \cap search'[g].ids
                    /\ clicked'.key \in DOMAIN cache' =>
                          \/ ClickShown'
                          \/ \E g \in Handlers : at'[g] \in Finding \cup Starring
                                                 /\ search'[g].key = clicked'.key
  BY DEF ClickKept
<1>2. ~overlapped /\ faults = 0 /\ \A g \in Handlers \ {h} : at[g] = "idle" /\ at'[g] = "idle"
  BY <1>0 DEF SearchMoves
<1>3. at'[h] = l /\ search'[h] = s
  BY DEF SearchMoves
<1>4. /\ l \in Starring => s.key = clicked.key
      /\ l = "toggle" => s.starred = (s.of \in favorites)
      /\ l = "extras" => s.stars = favorites \cap s.ids
  BY <1>2
<1>5. ASSUME NEW g \in Handlers
      PROVE  /\ at'[g] \in Starring => search'[g].key = clicked'.key
             /\ at'[g] = "toggle" => search'[g].starred = (search'[g].of \in favorites')
             /\ at'[g] = "extras" => search'[g].stars = favorites' \cap search'[g].ids
  <2>1. CASE g = h
    BY <1>3, <1>4, <2>1
  <2>2. CASE g # h
    BY <1>2, <2>2 DEF Starring
  <2> QED
    BY <2>1, <2>2
<1>6. ASSUME clicked.key \in DOMAIN cache, ~ClickShown
      PROVE  \E g \in Handlers : at'[g] \in Finding \cup Starring /\ search'[g].key = clicked.key
  <2>1. PICK g \in Handlers : at[g] \in Finding \cup Starring /\ search[g].key = clicked.key
    BY <1>2, <1>6 DEF SearchIInv, ClickKept
  <2>2. g = h
    BY <1>2, <2>1 DEF Finding, Starring
  <2> QED
    BY <1>3, <2>1, <2>2
<1> QED
  BY <1>1, <1>5, <1>6
-----------------------------------------------------------------------------
\* The search is asked for, ...
LEMMA AskSearchOK ==
  ASSUME SearchIInv, NEW h \in Handlers, AskSearch(h)
  PROVE  SearchIInv'
<1>1. PICK q \in Queries, n \in Pages :
         search' = [search EXCEPT ![h] = [NoSearch EXCEPT !.key = <<q, n>>, !.stamp = turns]]
  BY DEF AskSearch, Looks
<1>2. PICK s : s = [NoSearch EXCEPT !.key = <<q, n>>, !.stamp = turns]
  OBVIOUS
<1>3. <<q, n>> \in PageKeys
  BY DEF Pages, PageKeys
<1>4. turns \in Nat
  BY DEF SearchIInv, SearchTyped
<1>5. s \in SearchStates /\ s.key = <<q, n>> /\ s.stamp = turns /\ s.shut = {}
  BY <1>2, <1>3, <1>4 DEF NoSearch, SearchStates
<1>6. at[h] = "idle" /\ HandlerStep(h, "find")
  BY DEF AskSearch, Begin, Deliver, HandlerStep
<1>7. SearchMoves(h, "find", s)
  <2>1. search' = [search EXCEPT ![h] = s] /\ "find" \in SearchLabels
    BY <1>1, <1>2 DEF SearchLabels
  <2> QED
    BY <2>1, <1>5, <1>6, SearchStep
<1>8. /\ WorldSame /\ cache' = cache /\ clicked' = clicked /\ favorites' = favorites /\ TracksSame
      /\ unlisted' = unlisted /\ quitters' = quitters /\ refusers' = refusers
  BY DEF AskSearch, OthersSame, FavoritesSame, WorldSame
<1>9. SearchTyped'
  BY <1>3, <1>5, <1>7, <1>8, SearchTypes
     DEF SearchIInv, SearchTyped, WorldSame, TracksSame, Visiting, Starring
<1>10. FreshSearches'
  BY <1>4, <1>5, <1>7, <1>8, SearchesKept
<1>11. FreshPages' /\ OldPages'
  BY <1>8, PagesKept DEF SearchIInv
<1>12. ClickKept'
  BY <1>6, <1>7, <1>8, ClickGoesOn DEF Finding, Starring
<1>13. ShutIsClosed' /\ Footsteps' /\ FootstepsTold'
  BY <1>5, <1>6, <1>7, <1>8, VisitsAside DEF Visiting
<1> QED
  BY <1>9, <1>10, <1>11, <1>12, <1>13 DEF SearchIInv

\* A statement of a search that is on its way, which leaves the screen as it is.
LEMMA FindGoesOn ==
  ASSUME SearchIInv, NEW h \in Handlers, NEW l \in Finding, NEW s \in SearchStates,
         at[h] \in Finding, Continue(h, l), search' = [search EXCEPT ![h] = s],
         s.key = search[h].key, s.shut = search[h].shut, s.stamp <= turns,
         s.stamp = turns =>
            /\ l \in {"count", "stars", "extras"} => s.ids = PageOf(FoundBy(s.key[1]), s.key[2])
            /\ l \in {"stars", "extras"} => s.total = Cardinality(FoundBy(s.key[1])),
         l = "extras" => s.stars = favorites \cap s.ids,
         ScreenSame, OthersSame, FavoritesSame, TracksSame
  PROVE  SearchIInv'
<1>1. HandlerStep(h, l) /\ l \in SearchLabels
  BY DEF HandlerStep, SearchLabels, Finding
<1>2. SearchMoves(h, l, s)
  BY <1>1, SearchStep
<1>3. /\ WorldSame /\ cache' = cache /\ clicked' = clicked /\ favorites' = favorites
      /\ unlisted' = unlisted /\ quitters' = quitters /\ refusers' = refusers
  BY DEF ScreenSame, OthersSame, FavoritesSame, WorldSame
<1>4. search[h].key \in PageKeys
  BY DEF SearchIInv, SearchTyped
<1>5. SearchTyped'
  BY <1>2, <1>3, <1>4, SearchTypes
     DEF SearchIInv, SearchTyped, WorldSame, TracksSame, Visiting, Starring, Finding
<1>6. FreshSearches'
  BY <1>2, <1>3, SearchesKept
<1>7. FreshPages' /\ OldPages'
  BY <1>3, PagesKept DEF SearchIInv
<1>8. ClickKept'
  BY <1>2, <1>3, ClickGoesOn DEF Finding, Starring
<1>9. ShutIsClosed' /\ Footsteps' /\ FootstepsTold'
  BY <1>2, <1>3, VisitsAside DEF Visiting, Finding
<1> QED
  BY <1>5, <1>6, <1>7, <1>8, <1>9 DEF SearchIInv

\* ... the page is read, ...
LEMMA FindIdsOK ==
  ASSUME SearchIInv, NEW h \in Handlers, FindIds(h)
  PROVE  SearchIInv'
<1> DEFINE ids == PageOf(FoundBy(search[h].key[1]), search[h].key[2])
           s == [search[h] EXCEPT !.stamp = turns, !.ids = ids]
<1>1. search' = [search EXCEPT ![h] = s] /\ at[h] = "find" /\ Continue(h, "count")
  BY DEF FindIds, Looks
<1>2. ids \in SUBSET Found
  BY DEF PageOf, FoundBy
<1> HIDE DEF ids
<1>3. search[h] \in SearchStates /\ turns \in Nat
  BY DEF SearchIInv, SearchTyped
<1>4. /\ s \in SearchStates /\ s.key = search[h].key /\ s.shut = search[h].shut /\ s.stamp = turns
      /\ s.ids = ids
  BY <1>2, <1>3 DEF SearchStates
<1> HIDE DEF s
<1>5. s.ids = PageOf(FoundBy(s.key[1]), s.key[2])
  BY <1>4 DEF ids
<1>6. ScreenSame /\ OthersSame /\ FavoritesSame /\ TracksSame
  BY DEF FindIds
<1>7. at[h] \in Finding /\ "count" \in Finding /\ s.stamp <= turns
  BY <1>1, <1>3, <1>4 DEF Finding
<1> QED
  BY <1>1, <1>4, <1>5, <1>6, <1>7, FindGoesOn

\* ... then all are counted, ...
LEMMA CountFoundOK ==
  ASSUME SearchIInv, NEW h \in Handlers, CountFound(h)
  PROVE  SearchIInv'
<1> DEFINE t == Cardinality(FoundBy(search[h].key[1]))
           s == [search[h] EXCEPT !.total = t]
<1>1. search' = [search EXCEPT ![h] = s] /\ at[h] = "count" /\ Continue(h, "stars")
  BY DEF CountFound, Looks
<1>2. t \in Nat
  <2>1. FoundBy(search[h].key[1]) \subseteq Found
    BY DEF FoundBy
  <2> QED
    BY <2>1, SearchAssumption, FS_Subset, FS_CardinalityType
<1> HIDE DEF t
<1>3. search[h] \in SearchStates /\ turns \in Nat
  BY DEF SearchIInv, SearchTyped
<1>4. /\ s \in SearchStates /\ s.key = search[h].key /\ s.shut = search[h].shut
      /\ s.stamp = search[h].stamp /\ s.ids = search[h].ids /\ s.total = t
  BY <1>2, <1>3 DEF SearchStates
<1> HIDE DEF s
<1>5. s.stamp <= turns
  BY <1>4 DEF SearchIInv, FreshSearches
<1>6. s.stamp = turns => /\ s.ids = PageOf(FoundBy(s.key[1]), s.key[2])
                         /\ s.total = Cardinality(FoundBy(s.key[1]))
  BY <1>1, <1>4 DEF SearchIInv, FreshSearches, FreshSearch, t
<1>7. ScreenSame /\ OthersSame /\ FavoritesSame /\ TracksSame
  BY DEF CountFound
<1>8. at[h] \in Finding /\ "stars" \in Finding
  BY <1>1 DEF Finding
<1> QED
  BY <1>1, <1>4, <1>5, <1>6, <1>7, <1>8, FindGoesOn

\* ... and the screen keeps the answer.
LEMMA KeepOK ==
  ASSUME SearchIInv, NEW h \in Handlers, NEW s, NEW fresh, NEW levels, Keep(h, s, fresh, levels),
         at[h] \in {"stars", "extras"}, s.key = search[h].key,
         s.stamp = search[h].stamp, s.ids = search[h].ids, s.total = search[h].total,
         s.stamp = turns \/ (~overlapped /\ faults = 0) => s.stars = favorites \cap s.ids,
         clicked' = clicked, OthersSame, FavoritesSame, TracksSame
  PROVE  SearchIInv'
<1> DEFINE p == [items |-> s.ids, total |-> s.total, stars |-> s.stars, fresh |-> fresh,
                 levels |-> levels, stamp |-> IF turns = s.stamp THEN turns ELSE -1]
<1>1. /\ cache' = [key \in DOMAIN cache \cup {s.key} |-> IF key = s.key THEN p ELSE cache[key]]
      /\ search' = [search EXCEPT ![h] = NoSearch] /\ Continue(h, "idle")
  BY DEF Keep, SearchDone, Looks, End
<1>2. NoSearch \in SearchStates /\ NoSearch.stamp = 0 /\ NoSearch.shut = {}
  BY DEF NoSearch, SearchStates
<1>3. HandlerStep(h, "idle") /\ "idle" \in SearchLabels
  BY <1>1 DEF HandlerStep, SearchLabels
<1>4. SearchMoves(h, "idle", NoSearch)
  BY <1>1, <1>2, <1>3, SearchStep
<1>5. /\ WorldSame /\ favorites' = favorites
      /\ unlisted' = unlisted /\ quitters' = quitters /\ refusers' = refusers
  BY DEF OthersSame, FavoritesSame, WorldSame
<1>6. s.key \in PageKeys /\ turns \in Nat
  BY DEF SearchIInv, SearchTyped, Finding
<1>7. /\ p.items = s.ids /\ p.total = s.total /\ p.stars = s.stars
      /\ p.stamp = IF turns = s.stamp THEN turns ELSE -1
  OBVIOUS
<1> HIDE DEF p
<1>8. /\ DOMAIN cache' = DOMAIN cache \cup {s.key} /\ cache'[s.key] = p
      /\ \A key \in DOMAIN cache \ {s.key} : cache'[key] = cache[key]
  BY <1>1
<1>9. SearchTyped'
  <2>1. s.ids \subseteq Found
    BY DEF SearchIInv, SearchTyped, SearchStates
  <2>2. \A key \in DOMAIN cache' : cache'[key].items \subseteq Found
    BY <2>1, <1>7, <1>8 DEF SearchIInv, SearchTyped
  <2> QED
    BY <2>2, <1>4, <1>5, <1>6, <1>8, SearchTypes
       DEF SearchIInv, SearchTyped, WorldSame, TracksSame, Visiting, Starring, Finding
<1>10. FreshSearches'
  BY <1>2, <1>4, <1>5, <1>6, SearchesKept
<1>11. FreshPages' /\ OldPages'
  <2>1. p.stamp \in {turns, -1}
    BY <1>7
  <2>2. p.stamp = turns => s.stamp = turns
    BY <1>6, <1>7
  <2>3. s.stamp = turns => /\ s.ids = PageOf(FoundBy(s.key[1]), s.key[2])
                           /\ s.total = Cardinality(FoundBy(s.key[1]))
    BY DEF SearchIInv, FreshSearches, FreshSearch
  <2>4. p.stamp = turns =>
           /\ p.items = PageOf(FoundBy(s.key[1]), s.key[2]) /\ p.total = Cardinality(FoundBy(s.key[1]))
           /\ p.stars = favorites \cap p.items
    BY <2>2, <2>3, <1>7
  <2>5. SearchTyped /\ FreshPages /\ OldPages
    BY DEF SearchIInv
  <2> QED
    BY <2>1, <2>4, <2>5, <1>1, <1>5, <1>6, PageAdded
<1>12. ClickKept'
  <2>0. faults' = 0 => faults = 0
    BY <1>4 DEF SearchMoves, SearchIInv, SearchTyped, Bounded
  <2> SUFFICES ASSUME ~overlapped', faults' = 0
               PROVE  /\ \A g \in Handlers :
                            /\ at'[g] \in Starring => search'[g].key = clicked'.key
                            /\ at'[g] = "toggle" => search'[g].starred = (search'[g].of \in favorites')
                            /\ at'[g] = "extras" => search'[g].stars = favorites' \cap search'[g].ids
                      /\ clicked'.key \in DOMAIN cache' => ClickShown'
    BY DEF ClickKept
  <2>1. ~overlapped /\ faults = 0 /\ \A g \in Handlers : at'[g] = "idle"
    BY <2>0, <1>4 DEF SearchMoves
  <2>2. \A g \in Handlers \ {h} : at[g] = "idle"
    BY <1>4 DEF SearchMoves
  <2>3. CASE clicked.key = s.key
    <3>1. cache'[clicked.key].stars = favorites \cap cache'[clicked.key].items
      BY <2>1, <2>3, <1>7, <1>8
    <3> QED
      BY <3>1, <2>1, <1>5 DEF ClickShown, Starring
  <2>4. CASE clicked.key # s.key
    <3>1. \A g \in Handlers : ~(at[g] \in Finding \cup Starring /\ search[g].key = clicked.key)
      BY <2>2, <2>4 DEF Finding, Starring
    <3>2. clicked.key \in DOMAIN cache => ClickShown
      BY <3>1, <2>1 DEF SearchIInv, ClickKept
    <3>3. clicked.key \in DOMAIN cache' => clicked.key \in DOMAIN cache /\ cache'[clicked.key] = cache[clicked.key]
      BY <2>4, <1>8
    <3> QED
      BY <3>2, <3>3, <2>1, <1>5 DEF ClickShown, Starring
  <2> QED
    BY <2>3, <2>4
<1>13. ShutIsClosed' /\ Footsteps' /\ FootstepsTold'
  BY <1>2, <1>4, <1>5, VisitsAside DEF Visiting
<1> QED
  BY <1>9, <1>10, <1>11, <1>12, <1>13 DEF SearchIInv

LEMMA LoadFavoritesOK ==
  ASSUME SearchIInv, NEW h \in Handlers, LoadFavorites(h)
  PROVE  SearchIInv'
<1> DEFINE stars == favorites \cap search[h].ids
           s == [search[h] EXCEPT !.stars = stars]
<1>1. /\ at[h] = "stars"
      /\ \/ Continue(h, "extras") /\ search' = [search EXCEPT ![h] = s] /\ cache' = cache
         \/ Keep(h, s, {}, {})
      /\ looking' = looking /\ clicked' = clicked /\ OthersSame /\ FavoritesSame /\ TracksSame
  BY DEF LoadFavorites, Looks
<1>2. search[h] \in SearchStates /\ favorites \in SUBSET Found
  BY DEF SearchIInv, SearchTyped
<1>3. stars \in SUBSET Found
  BY <1>2
<1> HIDE DEF stars
<1>4. /\ s \in SearchStates /\ s.key = search[h].key /\ s.shut = search[h].shut
      /\ s.stamp = search[h].stamp /\ s.ids = search[h].ids /\ s.total = search[h].total
      /\ s.stars = stars
  BY <1>2, <1>3 DEF SearchStates
<1> HIDE DEF s
<1>5. s.stars = favorites \cap s.ids
  BY <1>4 DEF stars
<1>6. CASE Keep(h, s, {}, {})
  BY <1>1, <1>4, <1>5, <1>6, KeepOK
<1>7. CASE Continue(h, "extras") /\ search' = [search EXCEPT ![h] = s] /\ cache' = cache
  <2>1. ScreenSame
    BY <1>1, <1>7 DEF ScreenSame
  <2>2. s.stamp <= turns
    BY <1>4 DEF SearchIInv, FreshSearches
  <2>3. s.stamp = turns => /\ s.ids = PageOf(FoundBy(s.key[1]), s.key[2])
                           /\ s.total = Cardinality(FoundBy(s.key[1]))
    BY <1>1, <1>4 DEF SearchIInv, FreshSearches, FreshSearch
  <2>4. at[h] \in Finding /\ "extras" \in Finding
    BY <1>1 DEF Finding
  <2> QED
    BY <2>1, <2>2, <2>3, <2>4, <1>1, <1>4, <1>5, <1>7, FindGoesOn
<1> QED
  BY <1>1, <1>6, <1>7

LEMMA LoadNewUsersOK ==
  ASSUME SearchIInv, NEW h \in Handlers, LoadNewUsers(h)
  PROVE  SearchIInv'
<1>1. PICK fresh, levels : Keep(h, search[h], fresh, levels)
  BY DEF LoadNewUsers
<1>2. /\ at[h] = "extras" /\ clicked' = clicked /\ OthersSame /\ FavoritesSame /\ TracksSame
  BY DEF LoadNewUsers
<1>3. search[h].stamp = turns \/ (~overlapped /\ faults = 0) =>
         search[h].stars = favorites \cap search[h].ids
  BY <1>2 DEF SearchIInv, FreshSearches, FreshSearch, ClickKept
<1> QED
  BY <1>1, <1>2, <1>3, KeepOK
-----------------------------------------------------------------------------
\* A star is clicked, ...
LEMMA ClickStarOK ==
  ASSUME SearchIInv, NEW h \in Handlers, ClickStar(h)
  PROVE  SearchIInv'
<1>1. PICK u \in cache[looking].items :
         /\ search' = [search EXCEPT ![h] = [NoSearch EXCEPT !.key = looking, !.of = u]]
         /\ clicked' = [key |-> looking, of |-> u]
  BY DEF ClickStar, Looks
<1>2. PICK s : s = [NoSearch EXCEPT !.key = looking, !.of = u]
  OBVIOUS
<1>3. looking \in DOMAIN cache /\ looking \in PageKeys /\ u \in Found
  <2>1. looking \in DOMAIN cache
    BY DEF ClickStar
  <2> QED
    BY <2>1 DEF SearchIInv, SearchTyped
<1>4. turns \in Nat
  BY DEF SearchIInv, SearchTyped
<1>5. s \in SearchStates /\ s.key = looking /\ s.of = u /\ s.stamp = 0 /\ s.shut = {}
  BY <1>2, <1>3 DEF NoSearch, SearchStates
<1>6. at[h] = "idle" /\ HandlerStep(h, "favorite")
  <2>1. Begin(h, "favorite")
    BY DEF ClickStar
  <2> QED
    BY <2>1 DEF Begin, Deliver, HandlerStep
<1>7. SearchMoves(h, "favorite", s)
  <2>1. search' = [search EXCEPT ![h] = s] /\ "favorite" \in SearchLabels
    BY <1>1, <1>2 DEF SearchLabels
  <2> QED
    BY <2>1, <1>5, <1>6, SearchStep
<1>8. /\ WorldSame /\ cache' = cache /\ favorites' = favorites /\ TracksSame
      /\ unlisted' = unlisted /\ quitters' = quitters /\ refusers' = refusers
  BY DEF ClickStar, OthersSame, FavoritesSame, WorldSame
<1>9. SearchTyped'
  BY <1>3, <1>5, <1>7, <1>8, SearchTypes
     DEF SearchIInv, SearchTyped, WorldSame, TracksSame, Visiting, Starring, Finding
<1>10. FreshSearches'
  BY <1>4, <1>5, <1>7, <1>8, SearchesKept
<1>11. FreshPages' /\ OldPages'
  BY <1>8, PagesKept DEF SearchIInv
<1>12. ClickKept'
  <2>1. clicked'.key = looking
    BY <1>1
  <2> QED
    BY <2>1, <1>5, <1>7 DEF ClickKept, SearchMoves, Finding, Starring
<1>13. ShutIsClosed' /\ Footsteps' /\ FootstepsTold'
  BY <1>5, <1>6, <1>7, <1>8, VisitsAside DEF Visiting
<1> QED
  BY <1>9, <1>10, <1>11, <1>12, <1>13 DEF SearchIInv

\* ... the row is looked up, ...
LEMMA FindFavoriteOK ==
  ASSUME SearchIInv, NEW h \in Handlers, FindFavorite(h)
  PROVE  SearchIInv'
<1> DEFINE b == search[h].of \in favorites
           s == [search[h] EXCEPT !.starred = b]
<1>1. search' = [search EXCEPT ![h] = s] /\ at[h] = "favorite" /\ Continue(h, "toggle")
  BY DEF FindFavorite, Looks
<1>2. search[h] \in SearchStates /\ turns \in Nat /\ b \in BOOLEAN
  BY DEF SearchIInv, SearchTyped
<1> HIDE DEF b
<1>3. /\ s \in SearchStates /\ s.key = search[h].key /\ s.shut = search[h].shut
      /\ s.stamp = search[h].stamp /\ s.of = search[h].of /\ s.starred = b
  BY <1>2 DEF SearchStates
<1> HIDE DEF s
<1>4. HandlerStep(h, "toggle") /\ "toggle" \in SearchLabels
  BY <1>1 DEF HandlerStep, SearchLabels
<1>5. SearchMoves(h, "toggle", s)
  BY <1>1, <1>3, <1>4, SearchStep
<1>6. /\ WorldSame /\ cache' = cache /\ clicked' = clicked /\ favorites' = favorites /\ TracksSame
      /\ unlisted' = unlisted /\ quitters' = quitters /\ refusers' = refusers
  BY DEF FindFavorite, ScreenSame, OthersSame, FavoritesSame, WorldSame
<1>7. search[h].key \in PageKeys /\ search[h].of \in Found
  BY <1>1 DEF SearchIInv, SearchTyped, Starring
<1>8. SearchTyped'
  BY <1>3, <1>5, <1>6, <1>7, SearchTypes DEF SearchIInv, SearchTyped, WorldSame, TracksSame
<1>9. FreshSearches'
  <2>1. s.stamp <= turns
    BY <1>3 DEF SearchIInv, FreshSearches
  <2> QED
    BY <2>1, <1>5, <1>6, SearchesKept
<1>10. FreshPages' /\ OldPages'
  BY <1>6, PagesKept DEF SearchIInv
<1>11. ClickKept'
  <2>1. ~overlapped /\ faults = 0 => s.key = clicked.key
    BY <1>1, <1>3 DEF SearchIInv, ClickKept, Starring
  <2>2. s.starred = (s.of \in favorites)
    BY <1>3 DEF b
  <2> QED
    BY <2>1, <2>2, <1>3, <1>5, <1>6, ClickGoesOn DEF Starring
<1>12. ShutIsClosed' /\ Footsteps' /\ FootstepsTold'
  BY <1>1, <1>3, <1>5, <1>6, VisitsAside DEF Visiting
<1> QED
  BY <1>8, <1>9, <1>10, <1>11, <1>12 DEF SearchIInv

\* ... and written or deleted; then the page is asked for again.
LEMMA ToggleFavoriteOK ==
  ASSUME SearchIInv, NEW h \in Handlers, ToggleFavorite(h)
  PROVE  SearchIInv'
<1>1. /\ at[h] = "toggle" /\ cache' = cache /\ clicked' = clicked /\ TracksSame
      /\ viewer' = viewer /\ visits' = visits
      /\ unlisted' = unlisted /\ quitters' = quitters /\ refusers' = refusers
  BY DEF ToggleFavorite, ScreenSame, OthersSame
<1>2. NoSearch \in SearchStates /\ NoSearch.stamp = 0 /\ NoSearch.shut = {}
  BY DEF NoSearch, SearchStates
<1>3. turns \in Nat /\ search[h] \in SearchStates /\ search[h].key \in PageKeys /\ search[h].of \in Found
  BY <1>1 DEF SearchIInv, SearchTyped, Starring
<1>4. CASE search[h].starred # (search[h].of \in favorites)
  <2>1. /\ Continue(h, "idle") /\ search' = [search EXCEPT ![h] = NoSearch]
        /\ favorites' = favorites /\ turns' = turns
    BY <1>4 DEF ToggleFavorite, SearchDone, End, Looks, FavoritesSame
  <2>2. HandlerStep(h, "idle") /\ "idle" \in SearchLabels
    BY <1>1, <2>1 DEF HandlerStep, SearchLabels
  <2>3. SearchMoves(h, "idle", NoSearch)
    BY <1>2, <2>1, <2>2, SearchStep
  <2>4. WorldSame
    BY <1>1, <2>1 DEF WorldSame
  <2>5. SearchTyped'
    BY <1>1, <2>1, <2>3, SearchTypes
       DEF SearchIInv, SearchTyped, TracksSame, Visiting, Starring, Finding
  <2>6. FreshSearches'
    BY <1>2, <1>3, <2>3, <2>4, SearchesKept
  <2>7. FreshPages' /\ OldPages'
    BY <1>1, <2>4, PagesKept DEF SearchIInv
  <2>8. ClickKept'
    <3>1. faults' = 0 => faults = 0
      BY <2>3 DEF SearchMoves, SearchIInv, SearchTyped, Bounded
    <3>2. overlapped \/ faults # 0
      BY <1>1, <1>4 DEF SearchIInv, ClickKept
    <3> QED
      BY <3>1, <3>2, <2>3 DEF SearchMoves, ClickKept
  <2>9. ShutIsClosed' /\ Footsteps' /\ FootstepsTold'
    BY <1>1, <1>2, <2>3, VisitsAside DEF Visiting
  <2> QED
    BY <2>5, <2>6, <2>7, <2>8, <2>9 DEF SearchIInv
<1>5. CASE search[h].starred = (search[h].of \in favorites)
  <2>1. PICK s : s = [NoSearch EXCEPT !.key = search[h].key]
    OBVIOUS
  <2>2. s \in SearchStates /\ s.key = search[h].key /\ s.stamp = 0 /\ s.shut = {}
    BY <1>3, <2>1 DEF NoSearch, SearchStates
  <2>3. /\ Continue(h, "find") /\ search' = [search EXCEPT ![h] = s] /\ turns' = turns + 1
        /\ favorites' \subseteq favorites \cup {search[h].of}
    BY <1>5, <2>1 DEF ToggleFavorite, Looks
  <2>4. HandlerStep(h, "find") /\ "find" \in SearchLabels
    BY <1>1, <2>3 DEF HandlerStep, SearchLabels
  <2>5. SearchMoves(h, "find", s)
    BY <2>2, <2>3, <2>4, SearchStep
  <2>6. favorites' \in SUBSET Found
    BY <1>3, <2>3 DEF SearchIInv, SearchTyped
  <2>7. SearchTyped'
    <3>1. {favorites', quitters', unlisted', refusers'} \subseteq SUBSET Found
      BY <1>1, <2>6 DEF SearchIInv, SearchTyped
    <3>2. /\ DOMAIN cache' \subseteq PageKeys /\ turns' \in Nat /\ footDay' \in Nat
          /\ \A key \in DOMAIN cache' : cache'[key].items \subseteq Found
          /\ footAlerts' \in [Found -> Nat] /\ footprints' \in Seq([of : Found, day : Nat])
      BY <1>1, <1>3, <2>3 DEF SearchIInv, SearchTyped, TracksSame
    <3>3. s.key \in PageKeys /\ "find" \notin Visiting \cup Starring
      BY <1>3, <2>2 DEF Visiting, Starring
    <3> QED
      BY <3>1, <3>2, <3>3, <2>2, <2>5, SearchTypes
  <2>8. FreshSearches'
    <3>1. \A g \in Handlers : search[g].stamp <= turns /\ search[g].stamp \in Nat
      BY DEF SearchIInv, FreshSearches, SearchTyped, SearchStates
    <3>2. \A g \in Handlers : search'[g].stamp <= turns /\ search'[g].stamp \in Nat
      BY <3>1, <1>3, <2>2, <2>5 DEF SearchMoves
    <3> QED
      BY <3>2, <1>3, <2>3 DEF FreshSearches
  <2>9. FreshPages' /\ OldPages'
    BY <1>1, <2>3, PagesAge DEF SearchIInv
  <2>10. ClickKept'
    <3>1. faults' = 0 => faults = 0
      BY <2>5 DEF SearchMoves, SearchIInv, SearchTyped, Bounded
    <3>2. ~overlapped /\ faults = 0 => search[h].key = clicked.key
      BY <1>1 DEF SearchIInv, ClickKept, Starring
    <3> QED
      BY <3>1, <3>2, <1>1, <2>2, <2>5 DEF SearchMoves, ClickKept, Finding, Starring
  <2>11. ShutIsClosed' /\ Footsteps' /\ FootstepsTold'
    BY <1>1, <2>2, <2>5, VisitsAside DEF Visiting
  <2> QED
    BY <2>7, <2>8, <2>9, <2>10, <2>11 DEF SearchIInv
<1> QED
  BY <1>3, <1>4, <1>5
-----------------------------------------------------------------------------
\* A look at a profile that goes on, or ends, and leaves no footprint.
LEMMA VisitGoesOn ==
  ASSUME SearchIInv, NEW h \in Handlers, NEW l \in Visiting \cup {"idle"}, NEW s \in SearchStates,
         HandlerStep(h, l), search' = [search EXCEPT ![h] = s],
         at[h] \in Visiting \cup {"idle"}, at[h] # "tell", l # "tell",
         l # "idle" => s.of \in Found,
         s.shut \subseteq Closed, s.stamp <= turns,
         l = "blocking" => <<s.of, "hidden">> \notin s.shut,
         l \in {"recent", "step", "tell"} => \A r \in Reasons : <<s.of, r>> \notin s.shut,
         l = "step" =>
            \A i \in DOMAIN footprints : footprints[i] # [of |-> s.of, day |-> footDay],
         ScreenSame, OthersSame, FavoritesSame, ~intruded',
         UNCHANGED <<footprints, footDay, footAlerts>>
  PROVE  SearchIInv'
<1>1. l \in SearchLabels
  BY DEF SearchLabels, Visiting
<1>2. SearchMoves(h, l, s)
  BY <1>1, SearchStep
<1>3. /\ WorldSame /\ cache' = cache /\ clicked' = clicked /\ favorites' = favorites
      /\ unlisted' = unlisted /\ quitters' = quitters /\ refusers' = refusers /\ turns' = turns
      /\ footprints' = footprints /\ footDay' = footDay /\ footAlerts' = footAlerts
  BY DEF ScreenSame, OthersSame, FavoritesSame, WorldSame
<1>4. at[h] \notin Finding \cup Starring /\ l \notin Finding \cup Starring
  BY DEF Finding, Starring, Visiting
<1>5. SearchTyped'
  <2>1. {favorites', quitters', unlisted', refusers'} \subseteq SUBSET Found
    BY <1>3 DEF SearchIInv, SearchTyped
  <2>2. /\ DOMAIN cache' \subseteq PageKeys /\ turns' \in Nat /\ footDay' \in Nat
        /\ \A key \in DOMAIN cache' : cache'[key].items \subseteq Found
        /\ footAlerts' \in [Found -> Nat] /\ footprints' \in Seq([of : Found, day : Nat])
    BY <1>3 DEF SearchIInv, SearchTyped
  <2>3. l \in Visiting \cup Starring => s.of \in Found
    BY DEF Visiting, Starring
  <2> QED
    BY <2>1, <2>2, <2>3, <1>2, <1>4, SearchTypes
<1>6. FreshSearches' /\ FreshPages' /\ OldPages' /\ ClickKept'
  BY <1>2, <1>3, <1>4, SearchAside
<1>7. ShutIsClosed'
  <2>1. Closed' = Closed
    BY <1>3 DEF Closed
  <2> QED
    BY <2>1, <1>2 DEF SearchMoves, SearchIInv, ShutIsClosed
<1>8. Footsteps'
  BY <1>2, <1>3 DEF SearchMoves, SearchIInv, Footsteps
<1>9. \A u \in Found : Telling(u)' = Telling(u) /\ StepsOf(u)' = StepsOf(u)
  BY <1>2, <1>3 DEF Telling, StepsOf, SearchMoves
<1>10. faults' = 0 => faults = 0
  BY <1>2 DEF SearchMoves, SearchIInv, SearchTyped, Bounded
<1>11. FootstepsTold'
  BY <1>3, <1>9, <1>10 DEF SearchIInv, FootstepsTold
<1> QED
  BY <1>5, <1>6, <1>7, <1>8, <1>11 DEF SearchIInv

\* A profile is opened, ...
LEMMA OpenProfileOK ==
  ASSUME SearchIInv, NEW h \in Handlers, OpenProfile(h)
  PROVE  SearchIInv'
<1>1. PICK u \in Found : search' = [search EXCEPT ![h] = [NoSearch EXCEPT !.of = u, !.shut = Closed]]
  BY DEF OpenProfile, Looks
<1>2. PICK s : s = [NoSearch EXCEPT !.of = u, !.shut = Closed]
  OBVIOUS
<1>3. Closed \in SUBSET (Found \X Reasons) /\ turns \in Nat
  BY DEF Closed, Reasons, SearchIInv, SearchTyped
<1>4. s \in SearchStates /\ s.of = u /\ s.stamp = 0 /\ s.shut = Closed
  BY <1>2, <1>3 DEF NoSearch, SearchStates
<1>5. at[h] = "idle" /\ HandlerStep(h, "profile")
  <2>1. Begin(h, "profile")
    BY DEF OpenProfile
  <2> QED
    BY <2>1 DEF Begin, Deliver, HandlerStep
<1>6. /\ ScreenSame /\ OthersSame /\ FavoritesSame /\ UNCHANGED <<footprints, footDay, footAlerts>>
      /\ ~intruded'
  BY DEF OpenProfile, TracksSame, SearchIInv, ShutIsClosed
<1>7. search' = [search EXCEPT ![h] = s] /\ "profile" \in Visiting \cup {"idle"}
  BY <1>1, <1>2 DEF Visiting
<1>8. s.stamp <= turns /\ s.of \in Found
  BY <1>3, <1>4
<1> QED
  BY <1>4, <1>5, <1>6, <1>7, <1>8, VisitGoesOn

\* What a step of a look that ends without a footprint has in common.
LEMMA VisitEnds ==
  ASSUME SearchIInv, NEW h \in Handlers, SearchDone(h), at[h] \in Visiting, at[h] # "tell",
         ScreenSame, OthersSame, FavoritesSame, ~intruded',
         UNCHANGED <<footprints, footDay, footAlerts>>
  PROVE  SearchIInv'
<1>1. search' = [search EXCEPT ![h] = NoSearch] /\ Continue(h, "idle")
  BY DEF SearchDone, Looks, End
<1>2. /\ NoSearch \in SearchStates /\ NoSearch.stamp = 0 /\ NoSearch.shut = {}
  BY DEF NoSearch, SearchStates
<1>3. HandlerStep(h, "idle") /\ turns \in Nat
  BY <1>1 DEF HandlerStep, Visiting, SearchIInv, SearchTyped
<1>4. NoSearch.stamp <= turns /\ NoSearch.shut \subseteq Closed
  BY <1>2, <1>3
<1>5. "idle" \in Visiting \cup {"idle"}
  OBVIOUS
<1> QED
  BY <1>1, <1>2, <1>3, <1>4, <1>5, VisitGoesOn

\* ... and a look that goes on to the next statement.
LEMMA VisitNext ==
  ASSUME SearchIInv, NEW h \in Handlers, NEW l \in Visiting, Continue(h, l), search' = search,
         at[h] \in Visiting, at[h] # "tell", l # "tell",
         l = "blocking" => <<search[h].of, "hidden">> \notin search[h].shut,
         l \in {"recent", "step", "tell"} =>
            \A r \in Reasons : <<search[h].of, r>> \notin search[h].shut,
         l = "step" =>
            \A i \in DOMAIN footprints : footprints[i] # [of |-> search[h].of, day |-> footDay],
         ScreenSame, OthersSame, FavoritesSame, intruded' = intruded,
         UNCHANGED <<footprints, footDay, footAlerts>>
  PROVE  SearchIInv'
<1>1. search \in [Handlers -> SearchStates] /\ search[h].of \in Found
  BY DEF SearchIInv, SearchTyped
<1>2. PICK s : s = search[h]
  OBVIOUS
<1>3. search' = [search EXCEPT ![h] = s] /\ s \in SearchStates
  BY <1>1, <1>2
<1>4. HandlerStep(h, l) /\ l \in Visiting \cup {"idle"}
  BY DEF HandlerStep, Visiting
<1>5. s.shut \subseteq Closed /\ ~intruded' /\ s.stamp <= turns
  BY <1>2 DEF SearchIInv, ShutIsClosed, FreshSearches
<1>6. at[h] \in Visiting \cup {"idle"} /\ (l # "idle" => s.of \in Found)
  BY <1>1, <1>2
<1>7. /\ l = "blocking" => <<s.of, "hidden">> \notin s.shut
      /\ l \in {"recent", "step", "tell"} => \A r \in Reasons : <<s.of, r>> \notin s.shut
      /\ l = "step" => \A i \in DOMAIN footprints : footprints[i] # [of |-> s.of, day |-> footDay]
  BY <1>2
<1> QED
  BY <1>3, <1>4, <1>5, <1>6, <1>7, VisitGoesOn

\* ... unless it is hidden, ...
LEMMA BuildProfileOK ==
  ASSUME SearchIInv, NEW h \in Handlers, BuildProfile(h)
  PROVE  SearchIInv'
<1>1. /\ at[h] = "profile" /\ ScreenSame /\ OthersSame /\ FavoritesSame
      /\ UNCHANGED <<footprints, footDay, footAlerts>> /\ intruded' = intruded
  BY DEF BuildProfile, TracksSame
<1>2. ~intruded' /\ at[h] \in Visiting /\ at[h] # "tell"
  BY <1>1 DEF SearchIInv, ShutIsClosed, Visiting
<1>3. CASE SearchDone(h)
  BY <1>1, <1>2, <1>3, VisitEnds
<1>4. CASE Visible(search[h].of) /\ Continue(h, "blocking") /\ search' = search
  <2>1. <<search[h].of, "hidden">> \notin Closed
    BY <1>4 DEF Visible, Closed
  <2>2. <<search[h].of, "hidden">> \notin search[h].shut
    BY <2>1 DEF SearchIInv, ShutIsClosed
  <2>3. "blocking" \in Visiting
    BY DEF Visiting
  <2> QED
    BY <2>2, <2>3, <1>1, <1>2, <1>4, VisitNext
<1> QED
  BY <1>3, <1>4 DEF BuildProfile

\* ... or its member has blocked the viewer.
LEMMA FindBlockingOK ==
  ASSUME SearchIInv, NEW h \in Handlers, FindBlocking(h)
  PROVE  SearchIInv'
<1>1. /\ at[h] = "blocking" /\ ScreenSame /\ OthersSame /\ FavoritesSame
      /\ UNCHANGED <<footprints, footDay, footAlerts>> /\ intruded' = intruded
  BY DEF FindBlocking, TracksSame
<1>2. ~intruded' /\ at[h] \in Visiting /\ at[h] # "tell"
  BY <1>1 DEF SearchIInv, ShutIsClosed, Visiting
<1>3. CASE SearchDone(h)
  BY <1>1, <1>2, <1>3, VisitEnds
<1>4. CASE search[h].of \notin refusers /\ Continue(h, "recent") /\ search' = search
  <2>1. <<search[h].of, "blocked">> \notin Closed
    BY <1>4 DEF Closed
  <2>2. \A r \in Reasons : <<search[h].of, r>> \notin search[h].shut
    BY <1>1, <2>1 DEF SearchIInv, ShutIsClosed, Reasons
  <2>3. "recent" \in Visiting
    BY DEF Visiting
  <2> QED
    BY <2>2, <2>3, <1>1, <1>2, <1>4, VisitNext
<1> QED
  BY <1>3, <1>4 DEF FindBlocking

\* Who is shown has not been closed all the time.
LEMMA ShowOK ==
  ASSUME SearchIInv, NEW h \in Handlers, Show(h), at[h] \in {"recent", "step", "tell"}
  PROVE  ~intruded' /\ SearchDone(h)
<1>1. \A r \in Reasons : <<search[h].of, r>> \notin search[h].shut
  BY DEF SearchIInv, ShutIsClosed
<1>2. search[h].shut \subseteq Found \X Reasons
  BY DEF SearchIInv, SearchTyped, SearchStates
<1>3. \A c \in search[h].shut : c[1] # search[h].of
  <2> SUFFICES ASSUME NEW c \in search[h].shut, c[1] = search[h].of PROVE FALSE
    OBVIOUS
  <2>1. c = <<c[1], c[2]>> /\ c[2] \in Reasons
    BY <1>2
  <2> QED
    BY <2>1, <1>1
<1> QED
  BY <1>3 DEF Show, SearchIInv, ShutIsClosed

\* A look within 24 hours leaves no second footprint.
LEMMA FindRecentOK ==
  ASSUME SearchIInv, NEW h \in Handlers, FindRecent(h)
  PROVE  SearchIInv'
<1>1. /\ at[h] = "recent" /\ ScreenSame /\ OthersSame /\ FavoritesSame
      /\ UNCHANGED <<footprints, footDay, footAlerts>>
  BY DEF FindRecent
<1>2. at[h] \in Visiting /\ at[h] # "tell"
  BY <1>1 DEF Visiting
<1>3. CASE Show(h)
  BY <1>1, <1>2, <1>3, ShowOK, VisitEnds
<1>4. CASE /\ ~(\E i \in DOMAIN footprints : footprints[i] = [of |-> search[h].of, day |-> footDay])
           /\ Continue(h, "step") /\ intruded' = intruded /\ search' = search
  <2>1. \A r \in Reasons : <<search[h].of, r>> \notin search[h].shut
    BY <1>1 DEF SearchIInv, ShutIsClosed
  <2>2. "step" \in Visiting
    BY DEF Visiting
  <2> QED
    BY <2>1, <2>2, <1>1, <1>2, <1>4, VisitNext
<1> QED
  BY <1>3, <1>4 DEF FindRecent
-----------------------------------------------------------------------------
\* What the tellers and the footprints of a member are counted by.
LEMMA StepsFinite ==
  ASSUME SearchTyped, NEW u
  PROVE  /\ IsFiniteSet(StepsOf(u)) /\ Cardinality(StepsOf(u)) \in Nat
         /\ IsFiniteSet(Telling(u)) /\ Cardinality(Telling(u)) \in Nat
<1>1. StepsOf(u) \subseteq 1..Len(footprints) /\ Len(footprints) \in Nat
  BY DEF StepsOf, SearchTyped
<1>2. IsFiniteSet(1..Len(footprints))
  BY <1>1, FS_Interval
<1>3. IsFiniteSet(StepsOf(u)) /\ IsFiniteSet(Telling(u))
  BY <1>1, <1>2, SearchAssumption, FS_Subset DEF Telling
<1> QED
  BY <1>3, FS_CardinalityType

\* The part of a look's last steps that all of them share.
LEMMA VisitShares ==
  ASSUME SearchIInv, NEW h \in Handlers, NEW l \in {"tell", "idle"}, NEW s \in SearchStates,
         at[h] \in {"step", "tell"}, Continue(h, l), search' = [search EXCEPT ![h] = s],
         l = "tell" => s = search[h], l = "idle" => s = NoSearch, ~intruded',
         ScreenSame, OthersSame, FavoritesSame, footDay' = footDay,
         footAlerts' \in [Found -> Nat], footprints' \in Seq([of : Found, day : Nat])
  PROVE  /\ SearchMoves(h, l, s) /\ faults' = faults
         /\ SearchTyped' /\ FreshSearches' /\ FreshPages' /\ OldPages' /\ ClickKept' /\ ShutIsClosed'
<1>1. HandlerStep(h, l) /\ l \in SearchLabels
  BY DEF HandlerStep, SearchLabels
<1>2. SearchMoves(h, l, s)
  BY <1>1, SearchStep
<1>3. /\ WorldSame /\ cache' = cache /\ clicked' = clicked /\ favorites' = favorites
      /\ unlisted' = unlisted /\ quitters' = quitters /\ refusers' = refusers /\ turns' = turns
  BY DEF ScreenSame, OthersSame, FavoritesSame, WorldSame
<1>4. at[h] \notin Finding \cup Starring /\ l \notin Finding \cup Starring
  BY DEF Finding, Starring
<1>5. NoSearch.stamp = 0 /\ NoSearch.shut = {} /\ turns \in Nat
  BY DEF NoSearch, SearchIInv, SearchTyped
<1>6. s.stamp <= turns /\ s.shut \subseteq Closed
  <2>1. CASE l = "tell"
    <3>1. s = search[h]
      BY <2>1
    <3> QED
      BY <3>1 DEF SearchIInv, FreshSearches, ShutIsClosed
  <2>2. CASE l = "idle"
    <3>1. s = NoSearch
      BY <2>2
    <3> QED
      BY <3>1, <1>5
  <2> QED
    BY <2>1, <2>2
<1>7. l = "tell" => s.of \in Found /\ \A r \in Reasons : <<s.of, r>> \notin s.shut
  BY DEF SearchIInv, SearchTyped, ShutIsClosed, Visiting
<1>8. SearchTyped'
  <2>1. {favorites', quitters', unlisted', refusers'} \subseteq SUBSET Found
    BY <1>3 DEF SearchIInv, SearchTyped
  <2>2. /\ DOMAIN cache' \subseteq PageKeys /\ turns' \in Nat /\ footDay' \in Nat
        /\ \A key \in DOMAIN cache' : cache'[key].items \subseteq Found
    BY <1>3 DEF SearchIInv, SearchTyped
  <2>3. l \in Visiting \cup Starring => s.of \in Found
    BY <1>7 DEF Visiting, Starring
  <2> QED
    BY <2>1, <2>2, <2>3, <1>2, <1>4, SearchTypes
<1>9. FreshSearches' /\ FreshPages' /\ OldPages' /\ ClickKept'
  BY <1>2, <1>3, <1>4, <1>6, SearchAside
<1>10. ShutIsClosed'
  <2>1. Closed' = Closed
    BY <1>3 DEF Closed
  <2> QED
    BY <2>1, <1>2, <1>6, <1>7 DEF SearchMoves, SearchIInv, ShutIsClosed
<1>11. faults' = faults
  BY DEF Continue
<1> QED
  BY <1>2, <1>8, <1>9, <1>10, <1>11

\* A footprint is left, and told of or not, ...
LEMMA MakeFootprintOK ==
  ASSUME SearchIInv, NEW h \in Handlers, MakeFootprint(h)
  PROVE  SearchIInv'
<1>t. SearchTyped
  BY DEF SearchIInv
<1>1. /\ at[h] = "step" /\ ScreenSame /\ OthersSame /\ FavoritesSame
      /\ footDay' = footDay /\ footAlerts' = footAlerts
      /\ footprints' = Append(footprints, [of |-> search[h].of, day |-> footDay])
  BY DEF MakeFootprint
<1>2. PICK u0 \in Found : u0 = search[h].of
  BY <1>t, <1>1 DEF SearchTyped, Visiting
<1>3. PICK l \in {"tell", "idle"}, s \in SearchStates :
         /\ Continue(h, l) /\ search' = [search EXCEPT ![h] = s]
         /\ l = "tell" => s = search[h]
         /\ l = "idle" => s = NoSearch
         /\ ~intruded'
         /\ l = "tell" <=> Facts[u0].alerts
  <2>1. search \in [Handlers -> SearchStates] /\ NoSearch \in SearchStates
    BY <1>t DEF SearchTyped, NoSearch, SearchStates
  <2>2. CASE Facts[u0].alerts
    <3>1. Continue(h, "tell") /\ intruded' = intruded /\ search' = search
      BY <1>2, <2>2 DEF MakeFootprint
    <3>2. search' = [search EXCEPT ![h] = search[h]] /\ search[h] \in SearchStates
      BY <2>1, <3>1
    <3>3. ~intruded'
      BY <3>1 DEF SearchIInv, ShutIsClosed
    <3> QED
      BY <3>1, <3>2, <3>3, <2>2
  <2>3. CASE ~Facts[u0].alerts
    <3>1. Show(h)
      BY <1>2, <2>3 DEF MakeFootprint
    <3>2. ~intruded' /\ SearchDone(h)
      BY <1>1, <3>1, ShowOK
    <3>3. Continue(h, "idle") /\ search' = [search EXCEPT ![h] = NoSearch]
      BY <3>2 DEF SearchDone, End, Looks
    <3> QED
      BY <3>2, <3>3, <2>1, <2>3
  <2> QED
    BY <2>2, <2>3
<1>4. PICK f \in [of : Found, day : Nat] : f = [of |-> search[h].of, day |-> footDay]
  BY <1>t, <1>2 DEF SearchTyped
<1>5. PICK n : n = Len(footprints) + 1
  OBVIOUS
<1>6. /\ footprints' \in Seq([of : Found, day : Nat]) /\ n \notin DOMAIN footprints
      /\ DOMAIN footprints' = DOMAIN footprints \cup {n} /\ footprints'[n] = f
      /\ \A i \in DOMAIN footprints : footprints'[i] = footprints[i]
  <2>1. footprints \in Seq([of : Found, day : Nat]) /\ footprints' = Append(footprints, f)
    BY <1>t, <1>1, <1>4 DEF SearchTyped
  <2>2. Len(footprints) \in Nat /\ DOMAIN footprints = 1..Len(footprints)
    BY <2>1
  <2>3. DOMAIN footprints' = 1..(Len(footprints) + 1)
    BY <2>1
  <2> QED
    BY <2>1, <2>2, <2>3, <1>5
<1>7. f.of = u0 /\ f.day = footDay
  BY <1>2, <1>4
<1>8. /\ SearchMoves(h, l, s) /\ faults' = faults
      /\ SearchTyped' /\ FreshSearches' /\ FreshPages' /\ OldPages' /\ ClickKept' /\ ShutIsClosed'
  <2>1. footAlerts' \in [Found -> Nat] /\ at[h] \in {"step", "tell"}
    BY <1>t, <1>1 DEF SearchTyped
  <2> QED
    BY <2>1, <1>1, <1>3, <1>6, VisitShares
<1>9. Footsteps'
  <2>1. \A i \in DOMAIN footprints' : footprints'[i].day <= footDay'
    BY <1>1, <1>6, <1>7, <1>t DEF SearchIInv, Footsteps, SearchTyped
  <2>2. ASSUME ~overlapped'
        PROVE  /\ IsInjective(footprints')
               /\ \A g \in Handlers : at'[g] # "step"
    <3>1. ~overlapped /\ \A g \in Handlers \ {h} : at'[g] = "idle"
      BY <1>8, <2>2 DEF SearchMoves
    <3>2. IsInjective(footprints) /\ \A i \in DOMAIN footprints : footprints[i] # f
      BY <1>1, <1>4, <3>1 DEF SearchIInv, Footsteps
    <3>3. IsInjective(footprints')
      BY <3>2, <1>6 DEF IsInjective
    <3> QED
      BY <3>1, <3>3, <1>8 DEF SearchMoves
  <2> QED
    BY <2>1, <2>2 DEF Footsteps
<1>10. FootstepsTold'
  <2> SUFFICES ASSUME NEW u \in Found
               PROVE  /\ footAlerts'[u] + Cardinality(Telling(u)') <= Cardinality(StepsOf(u)')
                      /\ faults' = 0 /\ Facts[u].alerts =>
                            footAlerts'[u] + Cardinality(Telling(u)') = Cardinality(StepsOf(u)')
    BY DEF FootstepsTold
  <2>1. /\ footAlerts[u] \in Nat /\ footAlerts'[u] = footAlerts[u]
        /\ footAlerts[u] + Cardinality(Telling(u)) <= Cardinality(StepsOf(u))
        /\ faults' = 0 /\ Facts[u].alerts =>
              footAlerts[u] + Cardinality(Telling(u)) = Cardinality(StepsOf(u))
    BY <1>1, <1>8, <1>t DEF SearchIInv, FootstepsTold, SearchTyped
  <2>2. /\ IsFiniteSet(StepsOf(u)) /\ Cardinality(StepsOf(u)) \in Nat
        /\ IsFiniteSet(Telling(u)) /\ Cardinality(Telling(u)) \in Nat
    BY <1>t, StepsFinite
  <2>3. CASE u # u0
    <3>1. StepsOf(u)' = StepsOf(u)
      BY <1>6, <1>7, <2>3 DEF StepsOf
    <3>2. Telling(u)' = Telling(u)
      BY <1>1, <1>2, <1>3, <1>8, <2>3 DEF Telling, SearchMoves
    <3> QED
      BY <2>1, <3>1, <3>2
  <2>4. CASE u = u0
    <3>1. StepsOf(u)' = StepsOf(u) \cup {n} /\ n \notin StepsOf(u)
      BY <1>6, <1>7, <2>4 DEF StepsOf
    <3>2. Cardinality(StepsOf(u)') = Cardinality(StepsOf(u)) + 1
      BY <2>2, <3>1, FS_AddElement
    <3>3. CASE l = "tell"
      <4>1. Telling(u)' = Telling(u) \cup {h} /\ h \notin Telling(u)
        BY <1>1, <1>2, <1>3, <1>8, <2>4, <3>3 DEF Telling, SearchMoves
      <4>2. Cardinality(Telling(u)') = Cardinality(Telling(u)) + 1
        BY <2>2, <4>1, FS_AddElement
      <4> QED
        BY <2>1, <2>2, <3>2, <4>2
    <3>4. CASE l # "tell"
      <4>1. Telling(u)' = Telling(u)
        BY <1>1, <1>8, <3>4 DEF Telling, SearchMoves
      <4>2. ~Facts[u].alerts
        BY <1>3, <2>4, <3>4
      <4> QED
        BY <2>1, <2>2, <3>2, <4>1, <4>2
    <3> QED
      BY <3>3, <3>4
  <2> QED
    BY <2>3, <2>4
<1> QED
  BY <1>8, <1>9, <1>10 DEF SearchIInv

LEMMA AlertFootprintOK ==
  ASSUME SearchIInv, NEW h \in Handlers, AlertFootprint(h)
  PROVE  SearchIInv'
<1>t. SearchTyped
  BY DEF SearchIInv
<1>1. /\ at[h] = "tell" /\ ScreenSame /\ OthersSame /\ FavoritesSame
      /\ footDay' = footDay /\ footprints' = footprints /\ Show(h)
      /\ footAlerts' = [footAlerts EXCEPT ![search[h].of] = footAlerts[search[h].of] + 1]
  BY DEF AlertFootprint
<1>2. PICK u0 \in Found : u0 = search[h].of
  BY <1>t, <1>1 DEF SearchTyped, Visiting
<1>3. ~intruded' /\ Continue(h, "idle") /\ search' = [search EXCEPT ![h] = NoSearch]
  BY <1>1, ShowOK DEF SearchDone, End, Looks
<1>4. /\ footAlerts' \in [Found -> Nat] /\ footAlerts'[u0] = footAlerts[u0] + 1
      /\ \A u \in Found \ {u0} : footAlerts'[u] = footAlerts[u]
      /\ footAlerts[u0] \in Nat
  <2>1. footAlerts \in [Found -> Nat]
    BY <1>t DEF SearchTyped
  <2>2. footAlerts[u0] \in Nat /\ footAlerts[u0] + 1 \in Nat
    BY <2>1
  <2> QED
    BY <2>1, <2>2, <1>1, <1>2
<1>5. /\ SearchMoves(h, "idle", NoSearch) /\ faults' = faults
      /\ SearchTyped' /\ FreshSearches' /\ FreshPages' /\ OldPages' /\ ClickKept' /\ ShutIsClosed'
  <2>1. NoSearch \in SearchStates /\ at[h] \in {"step", "tell"} /\ "idle" \in {"tell", "idle"}
    BY <1>1 DEF NoSearch, SearchStates
  <2>2. footprints' \in Seq([of : Found, day : Nat])
    BY <1>t, <1>1 DEF SearchTyped
  <2> QED
    BY <2>1, <2>2, <1>1, <1>3, <1>4, VisitShares
<1>6. Footsteps'
  BY <1>1, <1>5 DEF SearchMoves, SearchIInv, Footsteps
<1>7. FootstepsTold'
  <2> SUFFICES ASSUME NEW u \in Found
               PROVE  /\ footAlerts'[u] + Cardinality(Telling(u)') <= Cardinality(StepsOf(u)')
                      /\ faults' = 0 /\ Facts[u].alerts =>
                            footAlerts'[u] + Cardinality(Telling(u)') = Cardinality(StepsOf(u)')
    BY DEF FootstepsTold
  <2>1. /\ footAlerts[u] + Cardinality(Telling(u)) <= Cardinality(StepsOf(u))
        /\ faults' = 0 /\ Facts[u].alerts =>
              footAlerts[u] + Cardinality(Telling(u)) = Cardinality(StepsOf(u))
        /\ StepsOf(u)' = StepsOf(u)
    BY <1>1, <1>5 DEF SearchIInv, FootstepsTold, StepsOf
  <2>2. IsFiniteSet(Telling(u)) /\ Cardinality(Telling(u)) \in Nat
    BY <1>t, StepsFinite
  <2>3. CASE u # u0
    <3>1. Telling(u)' = Telling(u)
      BY <1>1, <1>2, <1>5, <2>3 DEF Telling, SearchMoves
    <3> QED
      BY <2>1, <2>3, <3>1, <1>4
  <2>4. CASE u = u0
    <3>1. Telling(u)' = Telling(u) \ {h} /\ h \in Telling(u)
      BY <1>1, <1>2, <1>5, <2>4 DEF Telling, SearchMoves
    <3>2. Cardinality(Telling(u)') = Cardinality(Telling(u)) - 1
      BY <2>2, <3>1, FS_RemoveElement
    <3> QED
      BY <2>1, <2>2, <2>4, <3>2, <1>4
  <2> QED
    BY <2>3, <2>4
<1> QED
  BY <1>5, <1>6, <1>7 DEF SearchIInv
-----------------------------------------------------------------------------
\* Somebody logs in, hides, blocks or withdraws: all that has been read is old, and what is
\* not closed any more has not been closed all the time.
LEMMA ChangeOK ==
  ASSUME SearchIInv, NEW h \in Handlers, NEW opened, Change(h, opened),
         {quitters', unlisted', refusers'} \subseteq SUBSET Found, Closed \ opened \subseteq Closed'
  PROVE  SearchIInv'
<1>t. SearchTyped
  BY DEF SearchIInv
<1>1. /\ at \in [Handlers -> SearchLabels] /\ search \in [Handlers -> SearchStates]
      /\ Bounded /\ Sequential /\ turns \in Nat
  BY <1>t DEF SearchTyped
<1>2. /\ Begin(h, "idle") /\ turns' = turns + 1
      /\ search' = [g \in Handlers |-> [search[g] EXCEPT !.shut = search[g].shut \ opened]]
      /\ cache' = cache /\ looking' = looking /\ clicked' = clicked /\ favorites' = favorites
      /\ footprints' = footprints /\ footDay' = footDay /\ footAlerts' = footAlerts
      /\ intruded' = intruded
  BY DEF Change, ScreenSame, TracksSame
<1>3. at[h] = "idle" /\ HandlerStep(h, "idle") /\ "idle" \in SearchLabels
  BY <1>2 DEF Begin, Deliver, HandlerStep, SearchLabels
<1>4. /\ at' = at /\ faults' = faults
      /\ Bounded' /\ Sequential'
      /\ ~overlapped' => ~overlapped /\ \A g \in Handlers : at[g] = "idle"
  <2>1. /\ Bounded' /\ Sequential'
        /\ ~overlapped' => ~overlapped /\ \A g \in Handlers \ {h} : at[g] = "idle"
    BY <1>1, <1>3, HandlerSteps
  <2>2. at' = at /\ faults' = faults
    BY <1>1, <1>2, <1>3 DEF Begin, Deliver, Goto
  <2> QED
    BY <2>1, <2>2, <1>3
<1>5. ASSUME NEW g \in Handlers
      PROVE  /\ search'[g] \in SearchStates
             /\ search'[g].shut = search[g].shut \ opened
             /\ search'[g].key = search[g].key /\ search'[g].of = search[g].of
             /\ search'[g].stamp = search[g].stamp /\ search'[g].stamp \in Nat
             /\ search'[g].starred = search[g].starred /\ search'[g].ids = search[g].ids
             /\ search'[g].stars = search[g].stars
  <2>1. PICK s \in SearchStates : s = search[g]
    BY <1>1
  <2>2. search'[g] = [s EXCEPT !.shut = s.shut \ opened]
    BY <1>2, <2>1
  <2> QED
    BY <2>1, <2>2 DEF SearchStates
<1>6. SearchTyped'
  <2>1. search' \in [Handlers -> SearchStates] /\ at' \in [Handlers -> SearchLabels]
    <3>1. search' = [g \in Handlers |-> search'[g]]
      BY <1>2
    <3> QED
      BY <3>1, <1>1, <1>4, <1>5
  <2>2. \A g \in Handlers :
           /\ at'[g] \in Finding \cup Starring => search'[g].key \in PageKeys
           /\ at'[g] \in Visiting \cup Starring => search'[g].of \in Found
    BY <1>t, <1>4, <1>5 DEF SearchTyped
  <2>3. {favorites', quitters', unlisted', refusers'} \subseteq SUBSET Found
    BY <1>2, <1>t DEF SearchTyped
  <2>4. /\ DOMAIN cache' \subseteq PageKeys /\ \A key \in DOMAIN cache' : cache'[key].items \subseteq Found
        /\ turns' \in Nat /\ footDay' \in Nat /\ footAlerts' \in [Found -> Nat]
        /\ footprints' \in Seq([of : Found, day : Nat])
    BY <1>1, <1>2, <1>t DEF SearchTyped
  <2> QED
    BY <2>1, <2>2, <2>3, <2>4, <1>4 DEF SearchTyped
<1>7. FreshSearches'
  <2>1. \A g \in Handlers : search'[g].stamp <= turns /\ search'[g].stamp \in Nat
    BY <1>5 DEF SearchIInv, FreshSearches
  <2>2. \A g \in Handlers : search'[g].stamp <= turns' /\ search'[g].stamp # turns'
    BY <2>1, <1>1, <1>2
  <2> QED
    BY <2>2 DEF FreshSearches
<1>8. FreshPages' /\ OldPages'
  BY <1>2, <1>t, PagesAge DEF SearchIInv
<1>9. ClickKept'
  <2>1. ClickShown' = ClickShown
    BY <1>2 DEF ClickShown
  <2> SUFFICES ASSUME ~overlapped', faults' = 0
               PROVE  /\ \A g \in Handlers :
                            /\ at'[g] \in Starring => search'[g].key = clicked'.key
                            /\ at'[g] = "toggle" => search'[g].starred = (search'[g].of \in favorites')
                            /\ at'[g] = "extras" => search'[g].stars = favorites' \cap search'[g].ids
                      /\ clicked'.key \in DOMAIN cache' =>
                            \/ ClickShown'
                            \/ \E g \in Handlers : at'[g] \in Finding \cup Starring
                                                   /\ search'[g].key = clicked'.key
    BY DEF ClickKept
  <2>2. ~overlapped /\ faults = 0 /\ \A g \in Handlers : at[g] = "idle" /\ at'[g] = "idle"
    BY <1>4
  <2>3. clicked.key \in DOMAIN cache => ClickShown
    BY <2>2 DEF SearchIInv, ClickKept, Finding, Starring
  <2> QED
    BY <2>1, <2>2, <2>3, <1>2 DEF Starring
<1>10. ShutIsClosed'
  <2>1. ASSUME NEW g \in Handlers
        PROVE  /\ search'[g].shut \subseteq Closed'
               /\ at'[g] = "blocking" => <<search'[g].of, "hidden">> \notin search'[g].shut
               /\ at'[g] \in {"recent", "step", "tell"} =>
                     \A r \in Reasons : <<search'[g].of, r>> \notin search'[g].shut
    BY <1>4, <1>5 DEF SearchIInv, ShutIsClosed
  <2> QED
    BY <2>1, <1>2 DEF SearchIInv, ShutIsClosed
<1>11. Footsteps'
  <2>1. \A i \in DOMAIN footprints' : footprints'[i].day <= footDay'
    BY <1>2 DEF SearchIInv, Footsteps
  <2>2. ASSUME ~overlapped'
        PROVE  IsInjective(footprints') /\ \A g \in Handlers : at'[g] # "step"
    BY <2>2, <1>2, <1>4 DEF SearchIInv, Footsteps
  <2> QED
    BY <2>1, <2>2 DEF Footsteps
<1>12. FootstepsTold'
  <2>1. \A u \in Found : Telling(u)' = Telling(u) /\ StepsOf(u)' = StepsOf(u)
    BY <1>2, <1>4, <1>5 DEF Telling, StepsOf
  <2> QED
    BY <2>1, <1>2, <1>4 DEF SearchIInv, FootstepsTold
<1> QED
  BY <1>6, <1>7, <1>8, <1>9, <1>10, <1>11, <1>12 DEF SearchIInv

LEMMA OthersOK ==
  ASSUME SearchIInv, NEW h \in Handlers,
         LogInAgain(h) \/ TogglePublic(h) \/ BlockViewer(h) \/ Quit(h)
  PROVE  SearchIInv'
<1>0. unlisted \in SUBSET Found /\ quitters \in SUBSET Found /\ refusers \in SUBSET Found
  BY DEF SearchIInv, SearchTyped
<1>1. CASE LogInAgain(h)
  <2>1. /\ Change(h, {}) /\ unlisted' = unlisted /\ quitters' = quitters /\ refusers' = refusers
    BY <1>1 DEF LogInAgain
  <2>2. {quitters', unlisted', refusers'} \subseteq SUBSET Found
    BY <1>0, <2>1
  <2>3. Closed \ {} \subseteq Closed'
    BY <2>1 DEF Closed
  <2> QED
    BY <2>1, <2>2, <2>3, ChangeOK
<1>2. CASE TogglePublic(h)
  <2>1. PICK u \in Found :
           /\ unlisted' = IF u \in unlisted THEN unlisted \ {u} ELSE unlisted \cup {u}
           /\ Change(h, ({u} \ quitters) \X {"hidden"})
    BY <1>2 DEF TogglePublic
  <2>2. quitters' = quitters /\ refusers' = refusers
    BY <1>2 DEF TogglePublic
  <2>3. {quitters', unlisted', refusers'} \subseteq SUBSET Found
    BY <1>0, <2>1, <2>2
  <2>4. Closed \ (({u} \ quitters) \X {"hidden"}) \subseteq Closed'
    BY <2>1, <2>2 DEF Closed
  <2> QED
    BY <2>1, <2>3, <2>4, ChangeOK
<1>3. CASE BlockViewer(h)
  <2>1. PICK u \in Found :
           /\ refusers' = IF u \in refusers THEN refusers \ {u} ELSE refusers \cup {u}
           /\ Change(h, {<<u, "blocked">>})
    BY <1>3 DEF BlockViewer
  <2>2. quitters' = quitters /\ unlisted' = unlisted
    BY <1>3 DEF BlockViewer
  <2>3. {quitters', unlisted', refusers'} \subseteq SUBSET Found
    BY <1>0, <2>1, <2>2
  <2>4. Closed \ {<<u, "blocked">>} \subseteq Closed'
    BY <2>1, <2>2 DEF Closed
  <2> QED
    BY <2>1, <2>3, <2>4, ChangeOK
<1>4. CASE Quit(h)
  <2>1. PICK u \in Found : quitters' = quitters \cup {u} /\ Change(h, {})
    BY <1>4 DEF Quit
  <2>2. unlisted' = unlisted /\ refusers' = refusers
    BY <1>4 DEF Quit
  <2>3. {quitters', unlisted', refusers'} \subseteq SUBSET Found
    BY <1>0, <2>1, <2>2
  <2>4. Closed \ {} \subseteq Closed'
    BY <2>1, <2>2 DEF Closed
  <2> QED
    BY <2>1, <2>3, <2>4, ChangeOK
<1> QED
  BY <1>1, <1>2, <1>3, <1>4

-----------------------------------------------------------------------------
\* A new day, an answer that is shown again, and nothing at all.
LEMMA SearchRestOK ==
  ASSUME SearchIInv, FootDayEnds \/ ShowKept \/ UNCHANGED <<handlerVars, searchVars>>
  PROVE  SearchIInv'
<1>t. SearchTyped
  BY DEF SearchIInv
<1>1. UNCHANGED handlerVars
  BY DEF FootDayEnds, ShowKept
<1>2. at' = at /\ faults' = faults /\ overlapped' = overlapped
  BY <1>1 DEF handlerVars
<1>3. WorldSame /\ cache' = cache /\ clicked' = clicked /\ search' = search
      /\ unlisted' = unlisted /\ quitters' = quitters /\ refusers' = refusers
      /\ favorites' = favorites /\ turns' = turns
      /\ footprints' = footprints /\ footAlerts' = footAlerts /\ intruded' = intruded
  BY DEF FootDayEnds, ShowKept, ScreenSame, OthersSame, FavoritesSame, TracksSame, WorldSame,
         searchVars
<1>4. footDay' = footDay \/ footDay' = footDay + 1
  BY DEF FootDayEnds, ShowKept, TracksSame, searchVars
<1>5. footDay \in Nat /\ footDay' \in Nat /\ footDay <= footDay'
  BY <1>4, <1>t DEF SearchTyped
<1>6. Bounded' /\ Sequential'
  BY <1>1, <1>t, StillSequential DEF SearchTyped
<1>7. SearchTyped'
  BY <1>2, <1>3, <1>5, <1>6, <1>t DEF SearchTyped
<1>8. FreshSearches'
  <2>1. \A q, n : FoundBy(q)' = FoundBy(q) /\ PageOf(FoundBy(q), n)' = PageOf(FoundBy(q), n)
    BY <1>3, FoundSame DEF WorldSame
  <2>2. \A g \in Handlers : FreshSearch(g)' = FreshSearch(g)
    BY <2>1, <1>2, <1>3 DEF FreshSearch
  <2> QED
    BY <2>2, <1>3 DEF SearchIInv, FreshSearches
<1>9. FreshPages' /\ OldPages'
  BY <1>3, PagesKept DEF SearchIInv
<1>10. ClickKept'
  BY <1>2, <1>3 DEF SearchIInv, ClickKept, ClickShown
<1>11. ShutIsClosed'
  BY <1>2, <1>3 DEF SearchIInv, ShutIsClosed, Closed
<1>12. Footsteps'
  <2>0. \A i \in DOMAIN footprints : footprints[i] \in [of : Found, day : Nat]
    <3>1. PICK S : S = [of : Found, day : Nat]
      OBVIOUS
    <3>2. footprints \in Seq(S)
      BY <1>t, <3>1 DEF SearchTyped
    <3>3. \A i \in DOMAIN footprints : footprints[i] \in S
      BY <3>2
    <3> QED
      BY <3>1, <3>3
  <2>1. \A i \in DOMAIN footprints : footprints[i].day <= footDay /\ footprints[i].day \in Nat
    BY <2>0 DEF SearchIInv, Footsteps
  <2>2. \A i \in DOMAIN footprints : footprints[i].day <= footDay'
    BY <2>1, <1>5
  <2>3. CASE footDay' = footDay
    BY <2>3, <1>2, <1>3 DEF SearchIInv, Footsteps
  <2>4. CASE footDay' = footDay + 1
    <3>1. \A i \in DOMAIN footprints : footprints[i].day # footDay'
      BY <2>1, <2>4, <1>5
    <3>2. \A u : \A i \in DOMAIN footprints : footprints[i] # [of |-> u, day |-> footDay']
      BY <3>1
    <3> QED
      BY <2>2, <3>2, <1>2, <1>3 DEF SearchIInv, Footsteps
  <2> QED
    BY <2>3, <2>4, <1>4
<1>13. FootstepsTold'
  <2>1. \A u \in Found : Telling(u)' = Telling(u) /\ StepsOf(u)' = StepsOf(u)
    BY <1>2, <1>3 DEF Telling, StepsOf
  <2> QED
    BY <2>1, <1>2, <1>3 DEF SearchIInv, FootstepsTold
<1> QED
  BY <1>7, <1>8, <1>9, <1>10, <1>11, <1>12, <1>13 DEF SearchIInv

\* A handler that dies tells nobody.
LEMMA SearchDieOK ==
  ASSUME SearchIInv, NEW h \in Handlers, SearchDie(h)
  PROVE  SearchIInv'
<1>t. SearchTyped
  BY DEF SearchIInv
<1>1. /\ Die(h) /\ search' = [search EXCEPT ![h] = NoSearch] /\ TracksSame
      /\ WorldSame /\ cache' = cache /\ clicked' = clicked /\ favorites' = favorites
      /\ unlisted' = unlisted /\ quitters' = quitters /\ refusers' = refusers /\ turns' = turns
  BY DEF SearchDie, Looks, ScreenSame, OthersSame, FavoritesSame, WorldSame
<1>2. /\ NoSearch \in SearchStates /\ NoSearch.stamp = 0 /\ NoSearch.shut = {}
      /\ "idle" \in SearchLabels /\ turns \in Nat
  BY <1>t DEF NoSearch, SearchStates, SearchLabels, SearchTyped
<1>3. at[h] # "idle" /\ HandlerStep(h, "idle") /\ faults' = faults + 1 /\ faults \in Nat
  BY <1>1, <1>t DEF Die, Refused, HandlerStep, SearchTyped, Bounded
<1>4. SearchMoves(h, "idle", NoSearch)
  BY <1>1, <1>2, <1>3, SearchStep
<1>5. faults' # 0
  BY <1>3
<1>6. SearchTyped'
  <2>1. {favorites', quitters', unlisted', refusers'} \subseteq SUBSET Found
    BY <1>1, <1>t DEF SearchTyped
  <2>2. /\ DOMAIN cache' \subseteq PageKeys /\ \A key \in DOMAIN cache' : cache'[key].items \subseteq Found
        /\ turns' \in Nat /\ footDay' \in Nat /\ footAlerts' \in [Found -> Nat]
        /\ footprints' \in Seq([of : Found, day : Nat])
    BY <1>1, <1>t DEF SearchTyped, TracksSame
  <2>3. "idle" \notin Finding \cup Starring /\ "idle" \notin Visiting \cup Starring
    BY DEF Finding, Starring, Visiting
  <2> QED
    BY <2>1, <2>2, <2>3, <1>4, SearchTypes
<1>7. FreshSearches'
  BY <1>1, <1>2, <1>4, SearchesKept
<1>8. FreshPages' /\ OldPages'
  BY <1>1, PagesKept DEF SearchIInv
<1>9. ClickKept'
  BY <1>5 DEF ClickKept
<1>10. ShutIsClosed'
  <2>1. Closed' = Closed /\ intruded' = intruded
    BY <1>1 DEF Closed, TracksSame
  <2> QED
    BY <2>1, <1>2, <1>4 DEF SearchMoves, SearchIInv, ShutIsClosed
<1>11. Footsteps'
  <2>1. footprints' = footprints /\ footDay' = footDay
    BY <1>1 DEF TracksSame
  <2> QED
    BY <2>1, <1>4 DEF SearchMoves, SearchIInv, Footsteps
<1>12. FootstepsTold'
  <2> SUFFICES ASSUME NEW u \in Found
               PROVE  footAlerts'[u] + Cardinality(Telling(u)') <= Cardinality(StepsOf(u)')
    BY <1>5 DEF FootstepsTold
  <2>1. /\ footAlerts'[u] = footAlerts[u] /\ footAlerts[u] \in Nat
        /\ StepsOf(u)' = StepsOf(u)
        /\ footAlerts[u] + Cardinality(Telling(u)) <= Cardinality(StepsOf(u))
    BY <1>1, <1>t DEF TracksSame, SearchTyped, StepsOf, SearchIInv, FootstepsTold
  <2>2. Telling(u)' \subseteq Telling(u)
    BY <1>4 DEF Telling, SearchMoves
  <2>3. /\ IsFiniteSet(Telling(u)) /\ Cardinality(Telling(u)) \in Nat
        /\ Cardinality(StepsOf(u)) \in Nat
    BY <1>t, StepsFinite
  <2>4. Cardinality(Telling(u)') <= Cardinality(Telling(u)) /\ Cardinality(Telling(u)') \in Nat
    BY <2>2, <2>3, FS_Subset, FS_CardinalityType
  <2> QED
    BY <2>1, <2>3, <2>4
<1> QED
  BY <1>6, <1>7, <1>8, <1>9, <1>10, <1>11, <1>12 DEF SearchIInv

\* All steps of the search.
LEMMA SearchNextOK ==
  ASSUME SearchIInv, [SearchNext]_<<handlerVars, searchVars>>
  PROVE  SearchIInv'
<1>1. CASE FootDayEnds \/ ShowKept \/ UNCHANGED <<handlerVars, searchVars>>
  BY <1>1, SearchRestOK
<1>2. CASE \E h \in Handlers :
              \/ AskSearch(h) \/ FindIds(h) \/ CountFound(h) \/ LoadFavorites(h)
              \/ LoadNewUsers(h) \/ ClickStar(h) \/ FindFavorite(h) \/ ToggleFavorite(h)
  BY <1>2, AskSearchOK, FindIdsOK, CountFoundOK, LoadFavoritesOK, LoadNewUsersOK, ClickStarOK,
     FindFavoriteOK, ToggleFavoriteOK
<1>3. CASE \E h \in Handlers :
              \/ OpenProfile(h) \/ BuildProfile(h) \/ FindBlocking(h) \/ FindRecent(h)
              \/ MakeFootprint(h) \/ AlertFootprint(h)
  BY <1>3, OpenProfileOK, BuildProfileOK, FindBlockingOK, FindRecentOK, MakeFootprintOK,
     AlertFootprintOK
<1>4. CASE \E h \in Handlers :
              LogInAgain(h) \/ TogglePublic(h) \/ BlockViewer(h) \/ Quit(h) \/ SearchDie(h)
  BY <1>4, OthersOK, SearchDieOK
<1> QED
  BY <1>1, <1>2, <1>3, <1>4 DEF SearchNext
-----------------------------------------------------------------------------
(* The order board *)

BoardLabels == {"idle", "queueRing", "ring", "countBoard", "findBoard", "readBoard", "countBadge"}
BoardLooks ==
    [order : BoardOrders \cup {"none"}, place : BoardPlaces \cup {"none"}, total : Nat,
     found : SUBSET BoardOrders, open : BOOLEAN]
BoardRows == [order : BoardOrders, status : {"new", "open", "closed"}]

BoardTyped ==
    /\ at \in [Handlers -> BoardLabels]
    /\ look \in [Handlers -> BoardLooks]
    /\ recruits \in [BoardOrders -> {"new", "open", "closed"}]
    /\ place \in BoardPlaces /\ rings \subseteq BoardOrders \cup {"none"}
    /\ board \in [loaded : BOOLEAN, total : Nat, awaits : Handlers \cup {"nothing"},
                  shown : SUBSET BoardRows]
    /\ badge \in [count : Nat, loaded : BOOLEAN, awaits : Handlers \cup {"nothing"}]

\* The orders the cast may see, those of the tab, and those it may still apply to.
MyOrders == AvailableFor(place)
Tabbed == InTab(MyOrders)
OpenMine == Open(MyOrders)

\* News of order o is on its way to the socket.
Coming(o) ==
    \/ o \in rings
    \/ \E h \in Handlers : at[h] \in {"queueRing", "ring"} /\ look[h].order = o

\* Something will make the page ask for the part once more.
AsksAgain(part) == bell # {} \/ part \in asks \/ \E o \in MyOrders : Coming(o)

\* The socket is in the room of its cast unless everything is still to be asked for.
RoomKept == cut # Parts => room = place

\* A part waits only for a request that is running, and which has read the cast as it is.
BoardAwaited ==
    \A h \in Handlers :
        /\ board.awaits = h =>
              /\ at[h] \in {"countBoard", "findBoard", "readBoard"}
              /\ "board" \in cut \/ look[h].place = place
        /\ badge.awaits = h => at[h] = "countBadge" /\ ("badge" \in cut \/ look[h].place = place)

\* The board shows what there is.
BoardIsRight ==
    /\ {b.order : b \in board.shown} = Tabbed
    /\ board.total = Cardinality(board.shown)
    /\ "board" \in silent \/ \A b \in board.shown : b.status = recruits[b.order]

\* What a request for the board has counted, and found, when it is at label l.
ReadRight(l, k) ==
    /\ l \in {"findBoard", "readBoard"} => k.total = Cardinality(Tabbed)
    /\ l = "readBoard" => k.found = Tabbed

\* What the board shows, and what its request has read, is right, or it is going to be
\* asked for again.
BoardKept ==
    "board" \in cut \/ AsksAgain("board") \/
        /\ (board.loaded /\ board.awaits = "nothing") => BoardIsRight
        /\ \A h \in Handlers : board.awaits = h => ReadRight(at[h], look[h])

\* The same of the badge.
BadgeKept ==
    "badge" \in cut \/ "badge" \in silent \/ AsksAgain("badge") \/
        ((badge.loaded /\ badge.awaits = "nothing") => badge.count = Cardinality(OpenMine))

\* The inductive invariant of the order board.
BoardIInv == BoardTyped /\ RoomKept /\ BoardAwaited /\ BoardKept /\ BadgeKept

\* What the invariant says of quiet moments is the property.
LEMMA BoardIInvTruth ==
  ASSUME BoardIInv
  PROVE  BoardTellsTruth
<1> SUFFICES ASSUME AtRest, rings = {}, bell = {}, asks = {}
             PROVE  /\ (board.loaded /\ "board" \notin cut) =>
                          /\ {b.order : b \in board.shown} =
                                {o \in MyOrders : (o \in LaterOrders) = (tab = "later")}
                          /\ board.total = Cardinality(board.shown)
                          /\ "board" \notin silent => \A b \in board.shown : b.status = recruits[b.order]
                    /\ (badge.loaded /\ {"badge"} \cap (cut \cup silent) = {}) =>
                          badge.count = Cardinality({o \in MyOrders : recruits[o] = "open"})
  BY DEF BoardTellsTruth, MyOrders, AvailableFor
<1>1. \A h \in Handlers : at[h] = "idle"
  BY DEF AtRest, Idle
<1>2. ~AsksAgain("board") /\ ~AsksAgain("badge")
  BY <1>1 DEF AsksAgain, Coming
<1>3. board.awaits = "nothing" /\ badge.awaits = "nothing"
  BY <1>1 DEF BoardIInv, BoardTyped, BoardAwaited
<1>4. Tabbed = {o \in MyOrders : (o \in LaterOrders) = (tab = "later")}
  BY DEF Tabbed, InTab
<1>5. OpenMine = {o \in MyOrders : recruits[o] = "open"}
  BY DEF OpenMine, Open
<1> QED
  BY <1>2, <1>3, <1>4, <1>5 DEF BoardIInv, BoardKept, BadgeKept, BoardIsRight

\* At the start everything is to be asked for.
LEMMA BoardInitOK ==
  ASSUME HandlersInit, place \in BoardPlaces, BoardIdle
  PROVE  BoardIInv
<1>1. at = [h \in Handlers |-> "idle"]
  BY DEF HandlersInit, Idle
<1>2. BoardTyped
  BY <1>1 DEF BoardTyped, BoardIdle, BoardLabels, BoardLooks, NoLook
<1>3. RoomKept
  BY DEF RoomKept, BoardIdle
<1>4. BoardAwaited
  BY BoardAssumption DEF BoardAwaited, BoardIdle
<1>5. AsksAgain("board") /\ AsksAgain("badge")
  BY DEF AsksAgain, BoardIdle, Parts
<1> QED
  BY <1>2, <1>3, <1>4, <1>5 DEF BoardIInv, BoardKept, BadgeKept

-----------------------------------------------------------------------------
\* When everything is still to be asked for, nothing is claimed.
LEMMA AllCut ==
  ASSUME cut' = Parts
  PROVE  RoomKept' /\ BoardKept' /\ BadgeKept'
BY DEF RoomKept, BoardKept, BadgeKept, Parts

\* A step that leaves the orders, the cast and the page as they are, and hides no news.
LEMMA PageUntouched ==
  ASSUME BoardIInv,
         recruits' = recruits, place' = place, tab' = tab, board' = board, badge' = badge,
         cut' = cut, silent' = silent,
         \A g \in Handlers : at[g] \in {"countBoard", "findBoard", "readBoard", "countBadge"} =>
            at'[g] = at[g] /\ look'[g] = look[g],
         \A part \in Parts \ cut : AsksAgain(part) => AsksAgain(part)'
  PROVE  BoardAwaited' /\ BoardKept' /\ BadgeKept'
<1>1. MyOrders' = MyOrders
  BY DEF MyOrders, AvailableFor
<1>2. Tabbed' = Tabbed /\ OpenMine' = OpenMine
  BY <1>1 DEF Tabbed, OpenMine, InTab, Open
<1>3. BoardIsRight' = BoardIsRight
  BY <1>2 DEF BoardIsRight
<1>4. \A g \in Handlers : board.awaits = g => at[g] \in {"countBoard", "findBoard", "readBoard"}
  BY DEF BoardIInv, BoardAwaited
<1>5. BoardAwaited'
  BY DEF BoardIInv, BoardAwaited
<1>6. BoardKept'
  <2>1. CASE "board" \in cut
    BY <2>1 DEF BoardKept
  <2>2. CASE AsksAgain("board") /\ "board" \notin cut
    BY <2>2 DEF BoardKept, Parts
  <2>3. CASE "board" \notin cut /\ ~AsksAgain("board")
    BY <2>3, <1>2, <1>3, <1>4 DEF BoardIInv, BoardKept, ReadRight
  <2> QED
    BY <2>1, <2>2, <2>3
<1>7. BadgeKept'
  <2>1. CASE "badge" \in cut \/ "badge" \in silent
    BY <2>1 DEF BadgeKept
  <2>2. CASE AsksAgain("badge") /\ "badge" \notin cut
    BY <2>2 DEF BadgeKept, Parts
  <2>3. CASE "badge" \notin cut /\ "badge" \notin silent /\ ~AsksAgain("badge")
    BY <2>3, <1>2 DEF BoardIInv, BadgeKept
  <2> QED
    BY <2>1, <2>2, <2>3
<1> QED
  BY <1>5, <1>6, <1>7
-----------------------------------------------------------------------------
\* The socket's steps.
LEMMA DisconnectOK ==
  ASSUME BoardIInv, Disconnect, tab' = tab
  PROVE  BoardIInv'
<1>1. cut' = Parts /\ board' = board /\ badge' = badge /\ at' = at /\ look' = look
  BY DEF Disconnect, PageStays
<1>2. recruits' = recruits /\ place' = place /\ rings' = rings
  BY DEF Disconnect
<1>3. BoardTyped'
  BY <1>1, <1>2 DEF BoardIInv, BoardTyped
<1>4. BoardAwaited'
  BY <1>1, <1>2 DEF BoardIInv, BoardAwaited, Parts
<1> QED
  BY <1>1, <1>3, <1>4, AllCut DEF BoardIInv

LEMMA RejoinRoomOK ==
  ASSUME BoardIInv, RejoinRoom, tab' = tab
  PROVE  BoardIInv'
<1>1. /\ board' = board /\ badge' = badge /\ at' = at /\ look' = look /\ recruits' = recruits
      /\ place' = place /\ cut' = cut /\ silent' = silent /\ rings' = rings /\ bell' = bell
      /\ asks' = asks /\ room' = place
  BY DEF RejoinRoom, PageStays, handlerVars
<1>2. BoardTyped'
  BY <1>1 DEF BoardIInv, BoardTyped
<1>3. RoomKept'
  BY <1>1 DEF RoomKept
<1>4. MyOrders' = MyOrders
  BY <1>1 DEF MyOrders, AvailableFor
<1>5. \A part \in Parts : AsksAgain(part)' = AsksAgain(part)
  BY <1>1, <1>4 DEF AsksAgain, Coming
<1> QED
  BY <1>1, <1>2, <1>3, <1>5, PageUntouched DEF BoardIInv

LEMMA MoveCastOK ==
  ASSUME BoardIInv, tab' = tab, NEW h \in Handlers, MoveCast(h)
  PROVE  BoardIInv'
<1>1. /\ cut' = Parts /\ board' = board /\ badge' = badge /\ look' = look
      /\ recruits' = recruits /\ place' \in BoardPlaces /\ rings' = rings
  BY DEF MoveCast, PageStays, RingsSame
<1>2. at[h] = "idle" /\ at' = [at EXCEPT ![h] = "idle"]
  BY DEF MoveCast, Begin, Deliver, Goto
<1>3. at' = at
  BY <1>2 DEF BoardIInv, BoardTyped
<1>4. BoardTyped'
  BY <1>1, <1>3 DEF BoardIInv, BoardTyped
<1>5. BoardAwaited'
  BY <1>1, <1>3 DEF BoardIInv, BoardAwaited, Parts
<1> QED
  BY <1>1, <1>4, <1>5, AllCut DEF BoardIInv

\* A ring makes the page ask again.
LEMMA RingReceivedOK ==
  ASSUME BoardIInv, RingReceived, tab' = tab
  PROVE  BoardIInv'
<1>1. /\ board' = board /\ badge' = badge /\ at' = at /\ look' = look /\ recruits' = recruits
      /\ place' = place /\ cut' = cut /\ silent' = silent /\ asks' = Parts /\ room' = room
      /\ rings' = rings
  BY DEF RingReceived, handlerVars
<1>2. BoardTyped'
  BY <1>1 DEF BoardIInv, BoardTyped
<1>3. RoomKept'
  BY <1>1 DEF BoardIInv, RoomKept
<1>4. \A part \in Parts : AsksAgain(part)'
  BY <1>1 DEF AsksAgain
<1> QED
  BY <1>1, <1>2, <1>3, <1>4, PageUntouched DEF BoardIInv

LEMMA PollCountersOK ==
  ASSUME BoardIInv, PollCounters, tab' = tab
  PROVE  BoardIInv'
<1>1. /\ board' = board /\ badge' = badge /\ at' = at /\ look' = look /\ recruits' = recruits
      /\ place' = place /\ cut' = cut /\ silent' = silent /\ asks \subseteq asks' /\ room' = room
      /\ bell' = bell /\ rings' = rings
  BY DEF PollCounters
<1>2. BoardTyped'
  BY <1>1 DEF BoardIInv, BoardTyped
<1>3. RoomKept'
  BY <1>1 DEF BoardIInv, RoomKept
<1>4. MyOrders' = MyOrders
  BY <1>1 DEF MyOrders, AvailableFor
<1>5. \A part \in Parts : AsksAgain(part) => AsksAgain(part)'
  BY <1>1, <1>4 DEF AsksAgain, Coming
<1> QED
  BY <1>1, <1>2, <1>3, <1>5, PageUntouched DEF BoardIInv

-----------------------------------------------------------------------------
\* A step of handler h, which goes to l with the look k.
BoardMove(h, l, k) ==
    at' = [at EXCEPT ![h] = l] /\ look' = [look EXCEPT ![h] = k]

\* What such a step does to the handlers.
LEMMA BoardMoves ==
  ASSUME BoardTyped, NEW h \in Handlers, NEW l \in BoardLabels, NEW k \in BoardLooks,
         BoardMove(h, l, k)
  PROVE  /\ at' \in [Handlers -> BoardLabels] /\ look' \in [Handlers -> BoardLooks]
         /\ at'[h] = l /\ look'[h] = k
         /\ \A g \in Handlers \ {h} : at'[g] = at[g] /\ look'[g] = look[g]
BY DEF BoardMove, BoardTyped

\* Deliver and Begin move an idle handler, Continue and Die one at a statement.
LEMMA BoardHandlerSteps ==
  ASSUME NEW h \in Handlers, NEW l
  PROVE  /\ (Begin(h, l) \/ Deliver(h, l)) => at[h] = "idle" /\ at' = [at EXCEPT ![h] = l]
         /\ Continue(h, l) => at' = [at EXCEPT ![h] = l]
         /\ (End(h) \/ Die(h)) => at' = [at EXCEPT ![h] = "idle"]
BY DEF Begin, Deliver, Continue, End, Die, Refused, Goto

\* What a handler that has looked at nothing but an order has read.
LEMMA BoardLooksOf ==
  ASSUME NEW o \in BoardOrders \cup {"none"}
  PROVE  /\ NoLook \in BoardLooks
         /\ [NoLook EXCEPT !.order = o] \in BoardLooks /\ [NoLook EXCEPT !.order = o].order = o
BY DEF NoLook, BoardLooks

-----------------------------------------------------------------------------
\* The cast is to be rung about an order that is opened.
LEMMA PublishOrderOK ==
  ASSUME BoardIInv, tab' = tab, NEW h \in Handlers, PublishOrder(h)
  PROVE  BoardIInv'
<1>1. PICK o \in BoardOrders : /\ recruits[o] = "new"
                               /\ recruits' = [recruits EXCEPT ![o] = "open"]
                               /\ look' = [look EXCEPT ![h] = [NoLook EXCEPT !.order = o]]
  BY DEF PublishOrder, Look
<1>2. /\ board' = board /\ badge' = badge /\ place' = place /\ cut' = cut /\ silent' = silent
      /\ asks' = asks /\ room' = room /\ bell' = bell /\ rings' = rings
  BY DEF PublishOrder, PageStays, RingsSame
<1>3. at[h] = "idle" /\ at' = [at EXCEPT ![h] = "queueRing"]
  BY BoardHandlerSteps DEF PublishOrder
<1>t. BoardTyped
  BY DEF BoardIInv
<1>l. [NoLook EXCEPT !.order = o] \in BoardLooks /\ [NoLook EXCEPT !.order = o].order = o
  BY BoardLooksOf
<1>4. /\ at' \in [Handlers -> BoardLabels] /\ look' \in [Handlers -> BoardLooks]
      /\ at'[h] = "queueRing" /\ look'[h].order = o
      /\ \A g \in Handlers \ {h} : at'[g] = at[g] /\ look'[g] = look[g]
  BY <1>1, <1>3, <1>t, <1>l DEF BoardTyped, BoardLabels
<1>5. BoardTyped'
  BY <1>1, <1>2, <1>4, <1>t DEF BoardTyped
<1>6. RoomKept'
  BY <1>2 DEF BoardIInv, RoomKept
<1>7. BoardAwaited'
  BY <1>2, <1>3, <1>4 DEF BoardIInv, BoardAwaited
<1>8. Coming(o)'
  BY <1>4 DEF Coming
<1>9. \A n \in BoardOrders : Coming(n) => Coming(n)'
  BY <1>2, <1>3, <1>4 DEF Coming
<1>10. MyOrders \subseteq MyOrders' /\ MyOrders \subseteq BoardOrders
  BY <1>1, <1>2, <1>t DEF MyOrders, AvailableFor, BoardTyped
<1>11. \A part \in Parts : AsksAgain(part) => AsksAgain(part)'
  BY <1>2, <1>9, <1>10 DEF AsksAgain
<1>12. CASE o \in MyOrders'
  <2>1. \A part \in Parts : AsksAgain(part)'
    BY <1>8, <1>12 DEF AsksAgain
  <2> QED
    BY <2>1, <1>5, <1>6, <1>7 DEF BoardIInv, BoardKept, BadgeKept, Parts
<1>13. CASE o \notin MyOrders'
  <2>1. MyOrders' = MyOrders
    BY <1>1, <1>2, <1>13, <1>t DEF MyOrders, AvailableFor, BoardTyped
  <2>2. \A n \in MyOrders : n # o /\ recruits'[n] = recruits[n]
    BY <1>1, <1>13, <2>1, <1>t, <1>10 DEF BoardTyped
  <2>3. Tabbed' = Tabbed /\ OpenMine' = OpenMine
    BY <2>1, <2>2, tab' = tab DEF Tabbed, OpenMine, InTab, Open
  <2>4. BoardIsRight => BoardIsRight'
    <3>1. ASSUME BoardIsRight, NEW b \in board.shown
          PROVE  b.order \in MyOrders
      BY <3>1 DEF BoardIsRight, Tabbed, InTab
    <3> QED
      BY <3>1, <1>2, <2>2, <2>3 DEF BoardIsRight
  <2>5. BoardKept'
    <3>1. CASE "board" \in cut \/ AsksAgain("board")
      BY <3>1, <1>2, <1>11 DEF BoardKept, Parts
    <3>2. CASE ~("board" \in cut \/ AsksAgain("board"))
      <4>1. \A g \in Handlers : board.awaits = g => ReadRight(at'[g], look'[g])
        BY <3>2, <1>3, <1>4 DEF BoardIInv, BoardKept, ReadRight
      <4>2. (board.loaded /\ board.awaits = "nothing") => BoardIsRight'
        BY <3>2, <2>4 DEF BoardIInv, BoardKept
      <4> QED
        BY <4>1, <4>2, <1>2, <2>3 DEF BoardKept, ReadRight
    <3> QED
      BY <3>1, <3>2
  <2>6. BadgeKept'
    BY <1>2, <1>11, <2>3 DEF BoardIInv, BadgeKept, Parts
  <2> QED
    BY <1>5, <1>6, <1>7, <2>5, <2>6 DEF BoardIInv
<1> QED
  BY <1>12, <1>13
\* An order that closes: by the job the cast is rung, otherwise nobody hears of it.
LEMMA CloseOrderOK ==
  ASSUME BoardIInv, tab' = tab, NEW h \in Handlers, CloseOrder(h)
  PROVE  BoardIInv'
<1>1. PICK o \in BoardOrders, job \in BOOLEAN :
         /\ recruits[o] = "open"
         /\ Begin(h, IF job THEN "queueRing" ELSE "idle")
         /\ recruits' = [recruits EXCEPT ![o] = "closed"]
         /\ look' = [look EXCEPT ![h] = IF job THEN [NoLook EXCEPT !.order = o] ELSE NoLook]
         /\ silent' = IF job THEN silent ELSE Parts
  BY DEF CloseOrder, Look
<1>2. /\ board' = board /\ badge' = badge /\ place' = place /\ cut' = cut
      /\ asks' = asks /\ room' = room /\ bell' = bell /\ rings' = rings
  BY DEF CloseOrder, PageStays, RingsSame
<1>3. at[h] = "idle" /\ at' = [at EXCEPT ![h] = IF job THEN "queueRing" ELSE "idle"]
  BY <1>1, BoardHandlerSteps
<1>t. BoardTyped
  BY DEF BoardIInv
<1>l. /\ [NoLook EXCEPT !.order = o] \in BoardLooks /\ [NoLook EXCEPT !.order = o].order = o
      /\ NoLook \in BoardLooks
  BY BoardLooksOf
<1>4. /\ at' \in [Handlers -> BoardLabels] /\ look' \in [Handlers -> BoardLooks]
      /\ at'[h] \in {"queueRing", "idle"}
      /\ job => at'[h] = "queueRing" /\ look'[h].order = o
      /\ \A g \in Handlers \ {h} : at'[g] = at[g] /\ look'[g] = look[g]
  BY <1>1, <1>3, <1>t, <1>l DEF BoardTyped, BoardLabels
<1>5. BoardTyped'
  BY <1>1, <1>2, <1>4, <1>t DEF BoardTyped
<1>6. RoomKept'
  BY <1>2 DEF BoardIInv, RoomKept
<1>7. BoardAwaited'
  BY <1>2, <1>3, <1>4 DEF BoardIInv, BoardAwaited
<1>8. job => Coming(o)'
  BY <1>4 DEF Coming
<1>9. \A n \in BoardOrders : Coming(n) => Coming(n)'
  BY <1>2, <1>3, <1>4 DEF Coming
<1>10. MyOrders' = MyOrders /\ MyOrders \subseteq BoardOrders
  BY <1>1, <1>2, <1>t DEF MyOrders, AvailableFor, BoardTyped
<1>11. \A part \in Parts : AsksAgain(part) => AsksAgain(part)'
  BY <1>2, <1>9, <1>10 DEF AsksAgain
<1>12. Tabbed' = Tabbed
  BY <1>10, tab' = tab DEF Tabbed, InTab
<1>13. CASE job /\ o \in MyOrders
  <2>1. \A part \in Parts : AsksAgain(part)'
    BY <1>8, <1>10, <1>13 DEF AsksAgain
  <2> QED
    BY <2>1, <1>5, <1>6, <1>7 DEF BoardIInv, BoardKept, BadgeKept, Parts
<1>14. CASE ~job \/ o \notin MyOrders
  <2>1. ~job \/ (silent' = silent /\ \A n \in MyOrders : n # o /\ recruits'[n] = recruits[n])
    BY <1>1, <1>14, <1>t, <1>10 DEF BoardTyped
  <2>2. ~job => silent' = Parts
    BY <1>1
  <2>3. job => OpenMine' = OpenMine
    BY <2>1, <1>10 DEF OpenMine, Open
  <2>4. BoardIsRight => BoardIsRight'
    <3>1. ASSUME BoardIsRight, NEW b \in board.shown
          PROVE  b.order \in MyOrders
      BY <3>1 DEF BoardIsRight, Tabbed, InTab
    <3>2. CASE job
      BY <3>1, <3>2, <1>2, <1>12, <2>1 DEF BoardIsRight
    <3>3. CASE ~job
      BY <3>3, <1>2, <1>12, <2>2 DEF BoardIsRight, Parts
    <3> QED
      BY <3>2, <3>3
  <2>5. BoardKept'
    <3>1. CASE "board" \in cut \/ AsksAgain("board")
      BY <3>1, <1>2, <1>11 DEF BoardKept, Parts
    <3>2. CASE ~("board" \in cut \/ AsksAgain("board"))
      <4>1. \A g \in Handlers : board.awaits = g => ReadRight(at'[g], look'[g])
        BY <3>2, <1>3, <1>4 DEF BoardIInv, BoardKept, ReadRight
      <4>2. (board.loaded /\ board.awaits = "nothing") => BoardIsRight'
        BY <3>2, <2>4 DEF BoardIInv, BoardKept
      <4> QED
        BY <4>1, <4>2, <1>2, <1>12 DEF BoardKept, ReadRight
    <3> QED
      BY <3>1, <3>2
  <2>6. BadgeKept'
    BY <1>1, <1>2, <1>11, <2>2, <2>3 DEF BoardIInv, BadgeKept, Parts
  <2> QED
    BY <1>5, <1>6, <1>7, <2>5, <2>6 DEF BoardIInv
<1> QED
  BY <1>13, <1>14

-----------------------------------------------------------------------------
\* The job is queued, ...
LEMMA EnqueueMeetingBroadcastOK ==
  ASSUME BoardIInv, tab' = tab, NEW h \in Handlers, EnqueueMeetingBroadcast(h)
  PROVE  BoardIInv'
<1>1. /\ board' = board /\ badge' = badge /\ recruits' = recruits /\ place' = place /\ cut' = cut
      /\ silent' = silent /\ asks' = asks /\ room' = room /\ bell' = bell
      /\ rings' = rings \cup {look[h].order}
      /\ look' = [look EXCEPT ![h] = NoLook]
  BY DEF EnqueueMeetingBroadcast, PageStays, LookDone, Look
<1>2. at[h] = "queueRing" /\ at' = [at EXCEPT ![h] = "idle"]
  BY BoardHandlerSteps DEF EnqueueMeetingBroadcast, LookDone
<1>t. BoardTyped /\ look[h].order \in BoardOrders \cup {"none"}
  BY DEF BoardIInv, BoardTyped, BoardLooks
<1>3. /\ at' \in [Handlers -> BoardLabels] /\ look' \in [Handlers -> BoardLooks]
      /\ \A g \in Handlers \ {h} : at'[g] = at[g] /\ look'[g] = look[g]
  BY <1>1, <1>2, <1>t DEF BoardTyped, BoardLabels, BoardLooks, NoLook
<1>4. BoardTyped'
  BY <1>1, <1>3, <1>t DEF BoardTyped
<1>5. RoomKept'
  BY <1>1 DEF BoardIInv, RoomKept
<1>6. MyOrders' = MyOrders
  BY <1>1 DEF MyOrders, AvailableFor
<1>7. \A n \in MyOrders : Coming(n) => Coming(n)'
  BY <1>1, <1>3 DEF Coming
<1>8. \A part \in Parts : AsksAgain(part) => AsksAgain(part)'
  BY <1>1, <1>6, <1>7 DEF AsksAgain
<1> QED
  BY <1>1, <1>2, <1>3, <1>4, <1>5, <1>8, PageUntouched DEF BoardIInv

\* ... taken up, ...
LEMMA MeetingBroadcastWorkerOK ==
  ASSUME BoardIInv, tab' = tab, NEW h \in Handlers, MeetingBroadcastWorker(h)
  PROVE  BoardIInv'
<1>1. PICK o \in rings : /\ Deliver(h, "ring")
                         /\ rings' = rings \ {o}
                         /\ look' = [look EXCEPT ![h] = [NoLook EXCEPT !.order = o,
                                                                     !.open = recruits[o] = "open"]]
  BY DEF MeetingBroadcastWorker, Look
<1>2. /\ board' = board /\ badge' = badge /\ recruits' = recruits /\ place' = place /\ cut' = cut
      /\ silent' = silent /\ asks' = asks /\ room' = room /\ bell' = bell
  BY DEF MeetingBroadcastWorker, PageStays
<1>3. at[h] = "idle" /\ at' = [at EXCEPT ![h] = "ring"]
  BY <1>1, BoardHandlerSteps
<1>t. BoardTyped /\ o \in BoardOrders \cup {"none"}
  BY DEF BoardIInv, BoardTyped
<1>4. [NoLook EXCEPT !.order = o, !.open = recruits[o] = "open"] \in BoardLooks
  BY <1>t DEF NoLook, BoardLooks
<1>5. /\ at' \in [Handlers -> BoardLabels] /\ look' \in [Handlers -> BoardLooks]
      /\ at'[h] = "ring" /\ look'[h].order = o
      /\ \A g \in Handlers \ {h} : at'[g] = at[g] /\ look'[g] = look[g]
  BY <1>1, <1>3, <1>4, <1>t DEF BoardTyped, BoardLabels, NoLook
<1>6. BoardTyped'
  BY <1>1, <1>2, <1>5, <1>t DEF BoardTyped
<1>7. RoomKept'
  BY <1>2 DEF BoardIInv, RoomKept
<1>8. MyOrders' = MyOrders
  BY <1>2 DEF MyOrders, AvailableFor
<1>9. \A n \in MyOrders : Coming(n) => Coming(n)'
  BY <1>1, <1>3, <1>5 DEF Coming
<1>10. \A part \in Parts : AsksAgain(part) => AsksAgain(part)'
  BY <1>2, <1>8, <1>9 DEF AsksAgain
<1> QED
  BY <1>2, <1>3, <1>5, <1>6, <1>7, <1>10, PageUntouched DEF BoardIInv

\* ... and rings in the rooms of the order, of which the cast's is one.
LEMMA BroadcastRingOK ==
  ASSUME BoardIInv, tab' = tab, NEW h \in Handlers, BroadcastRing(h)
  PROVE  BoardIInv'
<1>1. /\ board' = board /\ badge' = badge /\ recruits' = recruits /\ place' = place /\ cut' = cut
      /\ silent' = silent /\ asks' = asks /\ room' = room /\ rings' = rings
      /\ look' = [look EXCEPT ![h] = NoLook]
      /\ bell \subseteq bell' /\ (room \in PlacesOf[look[h].order] => bell' # {})
  BY DEF BroadcastRing, PageStays, LookDone, Look
<1>2. at[h] = "ring" /\ at' = [at EXCEPT ![h] = "idle"]
  BY BoardHandlerSteps DEF BroadcastRing, LookDone
<1>t. BoardTyped
  BY DEF BoardIInv
<1>3. /\ at' \in [Handlers -> BoardLabels] /\ look' \in [Handlers -> BoardLooks]
      /\ \A g \in Handlers \ {h} : at'[g] = at[g] /\ look'[g] = look[g]
  BY <1>1, <1>2, <1>t DEF BoardTyped, BoardLabels, BoardLooks, NoLook
<1>4. BoardTyped'
  BY <1>1, <1>3, <1>t DEF BoardTyped
<1>5. RoomKept'
  BY <1>1 DEF BoardIInv, RoomKept
<1>6. MyOrders' = MyOrders /\ \A n \in MyOrders : place \in PlacesOf[n]
  BY <1>1 DEF MyOrders, AvailableFor
<1>7. \A n \in MyOrders : n # look[h].order /\ Coming(n) => Coming(n)'
  BY <1>1, <1>3 DEF Coming
<1>8. ASSUME NEW part \in Parts \ cut, AsksAgain(part)
      PROVE  AsksAgain(part)'
  <2>1. room = place
    BY DEF BoardIInv, RoomKept, Parts
  <2>2. CASE bell # {} \/ part \in asks
    BY <2>2, <1>1 DEF AsksAgain
  <2>3. CASE \E n \in MyOrders : Coming(n)
    <3>1. PICK n \in MyOrders : Coming(n)
      BY <2>3
    <3>2. CASE n = look[h].order
      BY <3>2, <2>1, <1>1, <1>6 DEF AsksAgain
    <3>3. CASE n # look[h].order
      BY <3>1, <3>3, <1>6, <1>7 DEF AsksAgain
    <3> QED
      BY <3>2, <3>3
  <2> QED
    BY <1>8, <2>2, <2>3 DEF AsksAgain
<1> QED
  BY <1>1, <1>2, <1>3, <1>4, <1>5, <1>8, PageUntouched DEF BoardIInv

-----------------------------------------------------------------------------
\* The page asks for the board: all is forgiven that the request is going to read.
LEMMA AskOrderBoardOK ==
  ASSUME BoardIInv, tab' = tab, NEW h \in Handlers, AskOrderBoard(h)
  PROVE  BoardIInv'
<1>1. /\ badge' = badge /\ recruits' = recruits /\ place' = place /\ room' = room
      /\ bell' = bell /\ rings' = rings /\ asks' = asks \ {"board"}
      /\ look' = [look EXCEPT ![h] = [NoLook EXCEPT !.place = place]]
      /\ board' = [board EXCEPT !.awaits = h]
      /\ cut' = IF room = place THEN cut \ {"board"} ELSE cut
      /\ silent' = silent \ {"board"}
  BY DEF AskOrderBoard, Asked, RingsSame, Look
<1>2. at[h] = "idle" /\ at' = [at EXCEPT ![h] = "countBoard"]
  BY BoardHandlerSteps DEF AskOrderBoard
<1>t. BoardTyped
  BY DEF BoardIInv
<1>l. [NoLook EXCEPT !.place = place] \in BoardLooks /\ [NoLook EXCEPT !.place = place].place = place
  BY <1>t DEF BoardTyped, BoardLooks, NoLook
<1>3. /\ at' \in [Handlers -> BoardLabels] /\ look' \in [Handlers -> BoardLooks]
      /\ at'[h] = "countBoard" /\ look'[h].place = place
      /\ \A g \in Handlers \ {h} : at'[g] = at[g] /\ look'[g] = look[g]
  BY <1>1, <1>2, <1>t, <1>l DEF BoardTyped, BoardLabels
<1>4. board'.awaits = h
  BY <1>1, <1>t DEF BoardTyped
<1>5. BoardTyped'
  BY <1>1, <1>3, <1>t DEF BoardTyped
<1>6. RoomKept'
  BY <1>1 DEF BoardIInv, RoomKept
<1>7. "badge" \in cut' <=> "badge" \in cut
  BY <1>1
<1>8. BoardAwaited'
  BY <1>1, <1>2, <1>3, <1>4, <1>7 DEF BoardIInv, BoardAwaited
<1>9. BoardKept'
  BY <1>3, <1>4, BoardAssumption DEF BoardKept, ReadRight
<1>10. MyOrders' = MyOrders /\ OpenMine' = OpenMine
  BY <1>1 DEF MyOrders, AvailableFor, OpenMine, Open
<1>11. \A n \in MyOrders : Coming(n) => Coming(n)'
  BY <1>1, <1>2, <1>3 DEF Coming
<1>12. AsksAgain("badge") => AsksAgain("badge")'
  BY <1>1, <1>10, <1>11 DEF AsksAgain
<1>13. BadgeKept'
  BY <1>1, <1>7, <1>10, <1>12 DEF BoardIInv, BadgeKept
<1> QED
  BY <1>5, <1>6, <1>8, <1>9, <1>13 DEF BoardIInv
\* The request counts the orders ...
LEMMA CountBoardOK ==
  ASSUME BoardIInv, tab' = tab, NEW h \in Handlers, CountBoard(h)
  PROVE  BoardIInv'
<1> DEFINE n == Cardinality(InTab(AvailableFor(look[h].place)))
<1>1. /\ board' = board /\ badge' = badge /\ recruits' = recruits /\ place' = place /\ cut' = cut
      /\ silent' = silent /\ asks' = asks /\ room' = room /\ rings' = rings /\ bell' = bell
      /\ look' = [look EXCEPT ![h] = [look[h] EXCEPT !.total = n]]
  BY DEF CountBoard, PageStays, RingsSame, Look
<1>2. at[h] = "countBoard" /\ at' = [at EXCEPT ![h] = "findBoard"]
  BY BoardHandlerSteps DEF CountBoard
<1>t. BoardTyped
  BY DEF BoardIInv
<1>3. n \in Nat
  <2>1. InTab(AvailableFor(look[h].place)) \in SUBSET BoardOrders
    BY DEF InTab, AvailableFor
  <2> QED
    BY <2>1, BoardAssumption, SubsetSizes
<1> HIDE DEF n
<1>4. /\ [look[h] EXCEPT !.total = n] \in BoardLooks /\ [look[h] EXCEPT !.total = n].total = n
      /\ [look[h] EXCEPT !.total = n].place = look[h].place
      /\ [look[h] EXCEPT !.total = n].order = look[h].order
  BY <1>3, <1>t DEF BoardTyped, BoardLooks
<1>5. /\ at' \in [Handlers -> BoardLabels] /\ look' \in [Handlers -> BoardLooks]
      /\ at'[h] = "findBoard" /\ look'[h].place = look[h].place /\ look'[h].total = n
      /\ \A g \in Handlers \ {h} : at'[g] = at[g] /\ look'[g] = look[g]
  BY <1>1, <1>2, <1>4, <1>t DEF BoardTyped, BoardLabels
<1>6. BoardTyped'
  BY <1>1, <1>5, <1>t DEF BoardTyped
<1>7. RoomKept'
  BY <1>1 DEF BoardIInv, RoomKept
<1>8. BoardAwaited'
  BY <1>1, <1>2, <1>5 DEF BoardIInv, BoardAwaited
<1>9. MyOrders' = MyOrders
  BY <1>1 DEF MyOrders, AvailableFor
<1>10. Tabbed' = Tabbed /\ OpenMine' = OpenMine
  BY <1>1, <1>9, tab' = tab DEF Tabbed, InTab, OpenMine, Open
<1>11. \A m \in MyOrders : Coming(m) => Coming(m)'
  BY <1>1, <1>2, <1>5 DEF Coming
<1>12. \A part \in Parts : AsksAgain(part) => AsksAgain(part)'
  BY <1>1, <1>9, <1>11 DEF AsksAgain
<1>13. BadgeKept'
  BY <1>1, <1>10, <1>12 DEF BoardIInv, BadgeKept, Parts
<1>14. BoardKept'
  <2>1. CASE "board" \in cut \/ AsksAgain("board")
    BY <2>1, <1>1, <1>12 DEF BoardKept, Parts
  <2>2. CASE ~("board" \in cut \/ AsksAgain("board"))
    <3>1. board.awaits = h => n = Cardinality(Tabbed)
      <4>1. board.awaits = h => look[h].place = place
        BY <2>2 DEF BoardIInv, BoardAwaited
      <4> QED
        BY <4>1 DEF n, Tabbed, MyOrders
    <3>2. BoardIsRight' = BoardIsRight
      BY <1>1, <1>10 DEF BoardIsRight
    <3>3. \A g \in Handlers : board.awaits = g => ReadRight(at'[g], look'[g])
      BY <2>2, <3>1, <1>5 DEF BoardIInv, BoardKept, ReadRight
    <3>4. (board.loaded /\ board.awaits = "nothing") => BoardIsRight'
      BY <2>2, <3>2 DEF BoardIInv, BoardKept
    <3> QED
      BY <3>3, <3>4, <1>1, <1>10 DEF BoardKept, ReadRight
  <2> QED
    BY <2>1, <2>2
<1> QED
  BY <1>6, <1>7, <1>8, <1>13, <1>14 DEF BoardIInv

\* ... finds them ...
LEMMA FindBoardOK ==
  ASSUME BoardIInv, tab' = tab, NEW h \in Handlers, FindBoard(h)
  PROVE  BoardIInv'
<1> DEFINE S == InTab(AvailableFor(look[h].place))
<1>1. /\ board' = board /\ badge' = badge /\ recruits' = recruits /\ place' = place /\ cut' = cut
      /\ silent' = silent /\ asks' = asks /\ room' = room /\ rings' = rings /\ bell' = bell
      /\ look' = [look EXCEPT ![h] = [look[h] EXCEPT !.found = S]]
  BY DEF FindBoard, PageStays, RingsSame, Look
<1>2. at[h] = "findBoard" /\ at' = [at EXCEPT ![h] = "readBoard"]
  BY BoardHandlerSteps DEF FindBoard
<1>t. BoardTyped
  BY DEF BoardIInv
<1>3. S \in SUBSET BoardOrders
  BY DEF InTab, AvailableFor
<1>4. "board" \in cut \/ (board.awaits = h => S = Tabbed)
  BY DEF BoardIInv, BoardAwaited, Tabbed, MyOrders
<1> HIDE DEF S
<1>5. /\ [look[h] EXCEPT !.found = S] \in BoardLooks /\ [look[h] EXCEPT !.found = S].found = S
      /\ [look[h] EXCEPT !.found = S].place = look[h].place
      /\ [look[h] EXCEPT !.found = S].total = look[h].total
      /\ [look[h] EXCEPT !.found = S].order = look[h].order
  BY <1>3, <1>t DEF BoardTyped, BoardLooks
<1>6. /\ at' \in [Handlers -> BoardLabels] /\ look' \in [Handlers -> BoardLooks]
      /\ at'[h] = "readBoard" /\ look'[h].place = look[h].place
      /\ look'[h].total = look[h].total /\ look'[h].found = S
      /\ \A g \in Handlers \ {h} : at'[g] = at[g] /\ look'[g] = look[g]
  BY <1>1, <1>2, <1>5, <1>t DEF BoardTyped, BoardLabels
<1>7. BoardTyped'
  BY <1>1, <1>6, <1>t DEF BoardTyped
<1>8. RoomKept'
  BY <1>1 DEF BoardIInv, RoomKept
<1>9. BoardAwaited'
  BY <1>1, <1>2, <1>6 DEF BoardIInv, BoardAwaited
<1>10. MyOrders' = MyOrders
  BY <1>1 DEF MyOrders, AvailableFor
<1>11. Tabbed' = Tabbed /\ OpenMine' = OpenMine
  BY <1>1, <1>10, tab' = tab DEF Tabbed, InTab, OpenMine, Open
<1>12. \A m \in MyOrders : Coming(m) => Coming(m)'
  BY <1>1, <1>2, <1>6 DEF Coming
<1>13. \A part \in Parts : AsksAgain(part) => AsksAgain(part)'
  BY <1>1, <1>10, <1>12 DEF AsksAgain
<1>14. BadgeKept'
  BY <1>1, <1>11, <1>13 DEF BoardIInv, BadgeKept, Parts
<1>15. BoardKept'
  <2>1. CASE "board" \in cut \/ AsksAgain("board")
    BY <2>1, <1>1, <1>13 DEF BoardKept, Parts
  <2>2. CASE ~("board" \in cut \/ AsksAgain("board"))
    <3>1. BoardIsRight' = BoardIsRight
      BY <1>1, <1>11 DEF BoardIsRight
    <3>2. \A g \in Handlers : board.awaits = g => ReadRight(at'[g], look'[g])
      BY <2>2, <1>2, <1>4, <1>6 DEF BoardIInv, BoardKept, ReadRight
    <3>3. (board.loaded /\ board.awaits = "nothing") => BoardIsRight'
      BY <2>2, <3>1 DEF BoardIInv, BoardKept
    <3> QED
      BY <3>2, <3>3, <1>1, <1>11 DEF BoardKept, ReadRight
  <2> QED
    BY <2>1, <2>2
<1> QED
  BY <1>7, <1>8, <1>9, <1>14, <1>15 DEF BoardIInv

\* The rows of a set of orders are as many as the orders.
LEMMA RowsCount ==
  ASSUME NEW S \in SUBSET BoardOrders
  PROVE  LET rows == {[order |-> o, status |-> recruits[o]] : o \in S}
         IN  {b.order : b \in rows} = S /\ Cardinality(rows) = Cardinality(S)
<1> DEFINE rows == {[order |-> o, status |-> recruits[o]] : o \in S}
           f == [o \in S |-> [order |-> o, status |-> recruits[o]]]
<1>1. {b.order : b \in rows} = S
  <2>1. \A b \in rows : b.order \in S
    OBVIOUS
  <2>2. ASSUME NEW o \in S
        PROVE  \E b \in rows : b.order = o
    <3>1. [order |-> o, status |-> recruits[o]] \in rows
      OBVIOUS
    <3>2. [order |-> o, status |-> recruits[o]].order = o
      OBVIOUS
    <3> HIDE DEF rows
    <3> QED
      BY <3>1, <3>2
  <2> HIDE DEF rows
  <2> QED
    BY <2>1, <2>2
<1>2. IsFiniteSet(S)
  BY BoardAssumption, FS_Subset
<1>3. f \in Bijection(S, rows)
  BY DEF Bijection, Injection, Surjection, IsInjective
<1>4. ExistsBijection(S, rows)
  BY <1>3 DEF ExistsBijection
<1>5. Cardinality(rows) = Cardinality(S)
  <2> HIDE DEF rows, f
  <2> QED
    BY <1>2, <1>4, FS_Bijection
<1> QED
  BY <1>1, <1>5
\* ... and reads those of the tab: what it counted is what it reads, or there is news.
LEMMA ReadBoardOK ==
  ASSUME BoardIInv, tab' = tab, NEW h \in Handlers, ReadBoard(h)
  PROVE  BoardIInv'
<1> DEFINE read == look[h].found
           rows == {[order |-> o, status |-> recruits[o]] : o \in read}
<1>1. /\ badge' = badge /\ recruits' = recruits /\ place' = place /\ cut' = cut
      /\ silent' = silent /\ asks' = asks /\ room' = room /\ rings' = rings /\ bell' = bell
      /\ look' = [look EXCEPT ![h] = NoLook]
      /\ board' = IF board.awaits = h
                  THEN [board EXCEPT !.loaded = TRUE, !.total = look[h].total,
                                     !.awaits = "nothing", !.shown = rows]
                  ELSE board
  BY DEF ReadBoard, RingsSame, LookDone, Look
<1>2. at[h] = "readBoard" /\ at' = [at EXCEPT ![h] = "idle"]
  BY BoardHandlerSteps DEF ReadBoard, LookDone
<1>t. BoardTyped
  BY DEF BoardIInv
<1>3. read \in SUBSET BoardOrders
  BY <1>t DEF BoardTyped, BoardLooks
<1>4. {b.order : b \in rows} = read /\ Cardinality(rows) = Cardinality(read)
  <2> HIDE DEF read
  <2> QED
    BY <1>3, RowsCount
<1>5. rows \in SUBSET BoardRows
  <2> HIDE DEF read
  <2> QED
    BY <1>3, <1>t DEF BoardTyped, BoardRows
<1>6. \A b \in rows : b.status = recruits[b.order]
  <2> HIDE DEF read
  <2> QED
    OBVIOUS
<1> HIDE DEF rows
<1>7. /\ at' \in [Handlers -> BoardLabels] /\ look' \in [Handlers -> BoardLooks]
      /\ at'[h] = "idle"
      /\ \A g \in Handlers \ {h} : at'[g] = at[g] /\ look'[g] = look[g]
  BY <1>1, <1>2, <1>t, BoardLooksOf DEF BoardTyped, BoardLabels
<1>8. look[h].total \in Nat
  BY <1>t DEF BoardTyped, BoardLooks
<1>9. IF board.awaits = h
      THEN /\ board'.awaits = "nothing" /\ board'.loaded = TRUE /\ board'.shown = rows
           /\ board'.total = look[h].total
      ELSE board' = board
  BY <1>1, <1>t DEF BoardTyped
<1>10. BoardTyped'
  BY <1>1, <1>5, <1>7, <1>8, <1>t DEF BoardTyped
<1>11. RoomKept'
  BY <1>1 DEF BoardIInv, RoomKept
<1>12. BoardAwaited'
  BY <1>1, <1>2, <1>7, <1>9, BoardAssumption DEF BoardIInv, BoardAwaited
<1>13. MyOrders' = MyOrders
  BY <1>1 DEF MyOrders, AvailableFor
<1>14. Tabbed' = Tabbed /\ OpenMine' = OpenMine
  BY <1>1, <1>13, tab' = tab DEF Tabbed, InTab, OpenMine, Open
<1>15. \A m \in MyOrders : Coming(m) => Coming(m)'
  BY <1>1, <1>2, <1>7 DEF Coming
<1>16. \A part \in Parts : AsksAgain(part) => AsksAgain(part)'
  BY <1>1, <1>13, <1>15 DEF AsksAgain
<1>17. BadgeKept'
  BY <1>1, <1>14, <1>16 DEF BoardIInv, BadgeKept, Parts
<1>18. BoardKept'
  <2>1. CASE "board" \in cut \/ AsksAgain("board")
    BY <2>1, <1>1, <1>16 DEF BoardKept, Parts
  <2>2. CASE ~("board" \in cut \/ AsksAgain("board")) /\ board.awaits = h
    <3>1. look[h].total = Cardinality(Tabbed) /\ read = Tabbed
      BY <2>2, <1>2 DEF BoardIInv, BoardAwaited, BoardKept, ReadRight
    <3>2. BoardIsRight'
      BY <3>1, <1>1, <1>4, <1>6, <1>9, <1>14, <2>2 DEF BoardIsRight
    <3>3. \A g \in Handlers : board'.awaits # g
      BY <2>2, <1>9, BoardAssumption
    <3> QED
      BY <3>2, <3>3 DEF BoardKept
  <2>3. CASE ~("board" \in cut \/ AsksAgain("board")) /\ board.awaits # h
    <3>1. board' = board
      BY <2>3, <1>9
    <3>2. BoardIsRight' = BoardIsRight
      BY <3>1, <1>1, <1>14 DEF BoardIsRight
    <3>3. \A g \in Handlers : board.awaits = g => ReadRight(at'[g], look'[g])
      BY <2>3, <1>7 DEF BoardIInv, BoardKept, ReadRight
    <3>4. (board.loaded /\ board.awaits = "nothing") => BoardIsRight'
      BY <2>3, <3>2 DEF BoardIInv, BoardKept
    <3> QED
      BY <3>1, <3>3, <3>4, <1>14 DEF BoardKept, ReadRight
  <2> QED
    BY <2>1, <2>2, <2>3
<1> QED
  BY <1>10, <1>11, <1>12, <1>17, <1>18 DEF BoardIInv

-----------------------------------------------------------------------------
\* The page asks for the badge ...
LEMMA AskCountersOK ==
  ASSUME BoardIInv, tab' = tab, NEW h \in Handlers, AskCounters(h)
  PROVE  BoardIInv'
<1>1. /\ board' = board /\ recruits' = recruits /\ place' = place /\ room' = room
      /\ bell' = bell /\ rings' = rings /\ asks' = asks \ {"badge"}
      /\ look' = [look EXCEPT ![h] = [NoLook EXCEPT !.place = place]]
      /\ badge' = [badge EXCEPT !.awaits = h]
      /\ cut' = IF room = place THEN cut \ {"badge"} ELSE cut
      /\ silent' = silent \ {"badge"}
  BY DEF AskCounters, Asked, RingsSame, Look
<1>2. at[h] = "idle" /\ at' = [at EXCEPT ![h] = "countBadge"]
  BY BoardHandlerSteps DEF AskCounters
<1>t. BoardTyped
  BY DEF BoardIInv
<1>l. [NoLook EXCEPT !.place = place] \in BoardLooks /\ [NoLook EXCEPT !.place = place].place = place
  BY <1>t DEF BoardTyped, BoardLooks, NoLook
<1>3. /\ at' \in [Handlers -> BoardLabels] /\ look' \in [Handlers -> BoardLooks]
      /\ at'[h] = "countBadge" /\ look'[h].place = place
      /\ \A g \in Handlers \ {h} : at'[g] = at[g] /\ look'[g] = look[g]
  BY <1>1, <1>2, <1>t, <1>l DEF BoardTyped, BoardLabels
<1>4. badge'.awaits = h
  BY <1>1, <1>t DEF BoardTyped
<1>5. BoardTyped'
  BY <1>1, <1>3, <1>t DEF BoardTyped
<1>6. RoomKept'
  BY <1>1 DEF BoardIInv, RoomKept
<1>7. ("board" \in cut' <=> "board" \in cut) /\ ("board" \in silent' <=> "board" \in silent)
  BY <1>1
<1>8. BoardAwaited'
  BY <1>1, <1>2, <1>3, <1>4, <1>7 DEF BoardIInv, BoardAwaited
<1>9. BadgeKept'
  BY <1>3, <1>4, BoardAssumption DEF BadgeKept
<1>10. MyOrders' = MyOrders
  BY <1>1 DEF MyOrders, AvailableFor
<1>11. Tabbed' = Tabbed
  BY <1>10, tab' = tab DEF Tabbed, InTab
<1>12. \A n \in MyOrders : Coming(n) => Coming(n)'
  BY <1>1, <1>2, <1>3 DEF Coming
<1>13. AsksAgain("board") => AsksAgain("board")'
  BY <1>1, <1>10, <1>12 DEF AsksAgain
<1>14. BoardKept'
  <2>1. CASE "board" \in cut \/ AsksAgain("board")
    BY <2>1, <1>7, <1>13 DEF BoardKept
  <2>2. CASE ~("board" \in cut \/ AsksAgain("board"))
    <3>1. BoardIsRight' = BoardIsRight
      BY <1>1, <1>7, <1>11 DEF BoardIsRight
    <3>2. \A g \in Handlers : board.awaits = g => ReadRight(at'[g], look'[g])
      BY <2>2, <1>3 DEF BoardIInv, BoardKept, ReadRight
    <3>3. (board.loaded /\ board.awaits = "nothing") => BoardIsRight'
      BY <2>2, <3>1 DEF BoardIInv, BoardKept
    <3> QED
      BY <3>2, <3>3, <1>1, <1>11 DEF BoardKept, ReadRight
  <2> QED
    BY <2>1, <2>2
<1> QED
  BY <1>5, <1>6, <1>8, <1>9, <1>14 DEF BoardIInv

\* ... and the request counts.
LEMMA CountBadgeOK ==
  ASSUME BoardIInv, tab' = tab, NEW h \in Handlers, CountBadge(h)
  PROVE  BoardIInv'
<1> DEFINE n == Cardinality(Open(AvailableFor(look[h].place)))
<1>1. /\ board' = board /\ recruits' = recruits /\ place' = place /\ cut' = cut
      /\ silent' = silent /\ asks' = asks /\ room' = room /\ rings' = rings /\ bell' = bell
      /\ look' = [look EXCEPT ![h] = NoLook]
      /\ badge' = IF badge.awaits = h
                  THEN [count |-> n, loaded |-> TRUE, awaits |-> "nothing"] ELSE badge
  BY DEF CountBadge, RingsSame, LookDone, Look
<1>2. at[h] = "countBadge" /\ at' = [at EXCEPT ![h] = "idle"]
  BY BoardHandlerSteps DEF CountBadge, LookDone
<1>t. BoardTyped
  BY DEF BoardIInv
<1>3. n \in Nat
  <2>1. Open(AvailableFor(look[h].place)) \in SUBSET BoardOrders
    BY DEF Open, AvailableFor
  <2> QED
    BY <2>1, BoardAssumption, SubsetSizes
<1>4. badge.awaits = h /\ "badge" \notin cut => n = Cardinality(OpenMine)
  <2>1. badge.awaits = h /\ "badge" \notin cut => look[h].place = place
    BY DEF BoardIInv, BoardAwaited
  <2> QED
    BY <2>1 DEF OpenMine, MyOrders
<1> HIDE DEF n
<1>5. /\ at' \in [Handlers -> BoardLabels] /\ look' \in [Handlers -> BoardLooks]
      /\ at'[h] = "idle"
      /\ \A g \in Handlers \ {h} : at'[g] = at[g] /\ look'[g] = look[g]
  BY <1>1, <1>2, <1>t, BoardLooksOf DEF BoardTyped, BoardLabels
<1>6. BoardTyped'
  BY <1>1, <1>3, <1>5, <1>t DEF BoardTyped
<1>7. RoomKept'
  BY <1>1 DEF BoardIInv, RoomKept
<1>8. IF badge.awaits = h THEN badge'.awaits = "nothing" /\ badge'.count = n ELSE badge' = badge
  BY <1>1
<1>9. BoardAwaited'
  BY <1>1, <1>2, <1>5, <1>8, BoardAssumption DEF BoardIInv, BoardAwaited
<1>10. MyOrders' = MyOrders
  BY <1>1 DEF MyOrders, AvailableFor
<1>11. Tabbed' = Tabbed /\ OpenMine' = OpenMine
  BY <1>1, <1>10, tab' = tab DEF Tabbed, InTab, OpenMine, Open
<1>12. \A m \in MyOrders : Coming(m) => Coming(m)'
  BY <1>1, <1>2, <1>5 DEF Coming
<1>13. \A part \in Parts : AsksAgain(part) => AsksAgain(part)'
  BY <1>1, <1>10, <1>12 DEF AsksAgain
<1>14. BadgeKept'
  BY <1>1, <1>4, <1>8, <1>11, <1>13 DEF BoardIInv, BadgeKept, Parts
<1>15. BoardKept'
  <2>1. CASE "board" \in cut \/ AsksAgain("board")
    BY <2>1, <1>1, <1>13 DEF BoardKept, Parts
  <2>2. CASE ~("board" \in cut \/ AsksAgain("board"))
    <3>1. BoardIsRight' = BoardIsRight
      BY <1>1, <1>11 DEF BoardIsRight
    <3>2. \A g \in Handlers : board.awaits = g => ReadRight(at'[g], look'[g])
      BY <2>2, <1>5 DEF BoardIInv, BoardKept, ReadRight
    <3>3. (board.loaded /\ board.awaits = "nothing") => BoardIsRight'
      BY <2>2, <3>1 DEF BoardIInv, BoardKept
    <3> QED
      BY <3>2, <3>3, <1>1, <1>11 DEF BoardKept, ReadRight
  <2> QED
    BY <2>1, <2>2
<1> QED
  BY <1>6, <1>7, <1>9, <1>14, <1>15 DEF BoardIInv

-----------------------------------------------------------------------------
\* The job of a worker that dies is run again; with any other handler all is cut off.
LEMMA BoardDieOK ==
  ASSUME BoardIInv, tab' = tab, NEW h \in Handlers, BoardDie(h)
  PROVE  BoardIInv'
<1>1. /\ recruits' = recruits /\ place' = place /\ room' = room /\ bell' = bell
      /\ asks' = asks /\ silent' = silent
      /\ rings' = (IF at[h] = "ring" THEN rings \cup {look[h].order} ELSE rings)
      /\ cut' = (IF at[h] = "ring" THEN cut ELSE Parts)
      /\ look' = [look EXCEPT ![h] = NoLook]
      /\ board' = IF board.awaits = h THEN [board EXCEPT !.awaits = "nothing"] ELSE board
      /\ badge' = IF badge.awaits = h THEN [badge EXCEPT !.awaits = "nothing"] ELSE badge
  BY DEF BoardDie, Look
<1>2. at' = [at EXCEPT ![h] = "idle"]
  BY BoardHandlerSteps DEF BoardDie
<1>t. BoardTyped /\ look[h].order \in BoardOrders \cup {"none"}
  BY DEF BoardIInv, BoardTyped, BoardLooks
<1>3. /\ at' \in [Handlers -> BoardLabels] /\ look' \in [Handlers -> BoardLooks]
      /\ at'[h] = "idle"
      /\ \A g \in Handlers \ {h} : at'[g] = at[g] /\ look'[g] = look[g]
  BY <1>1, <1>2, <1>t, BoardLooksOf DEF BoardTyped, BoardLabels
<1>4. BoardTyped'
  BY <1>1, <1>3, <1>t DEF BoardTyped
<1>5. /\ board'.awaits = IF board.awaits = h THEN "nothing" ELSE board.awaits
      /\ badge'.awaits = IF badge.awaits = h THEN "nothing" ELSE badge.awaits
  BY <1>1, <1>t DEF BoardTyped
<1>6. CASE at[h] # "ring"
  <2>1. cut' = Parts
    BY <1>1, <1>6
  <2>2. BoardAwaited'
    BY <1>3, <1>5, <2>1, BoardAssumption DEF BoardIInv, BoardAwaited, Parts
  <2> QED
    BY <1>4, <2>1, <2>2, AllCut DEF BoardIInv
<1>7. CASE at[h] = "ring"
  <2>1. board.awaits # h /\ badge.awaits # h
    BY <1>7 DEF BoardIInv, BoardAwaited
  <2>2. board' = board /\ badge' = badge /\ cut' = cut
    BY <1>1, <1>7, <2>1
  <2>3. RoomKept'
    BY <1>1, <2>2 DEF BoardIInv, RoomKept
  <2>4. MyOrders' = MyOrders
    BY <1>1 DEF MyOrders, AvailableFor
  <2>5. \A n \in MyOrders : Coming(n) => Coming(n)'
    BY <1>1, <1>3, <1>7 DEF Coming
  <2>6. \A part \in Parts : AsksAgain(part) => AsksAgain(part)'
    BY <1>1, <2>4, <2>5 DEF AsksAgain
  <2> QED
    BY <1>1, <1>3, <1>4, <1>7, <2>2, <2>3, <2>6, PageUntouched DEF BoardIInv
<1> QED
  BY <1>6, <1>7

\* Nothing changes when the variables stay.
LEMMA BoardStutter ==
  ASSUME BoardIInv, UNCHANGED <<handlerVars, boardVars>>
  PROVE  BoardIInv'
<1>1. /\ at' = at /\ look' = look /\ recruits' = recruits /\ place' = place /\ tab' = tab
      /\ room' = room /\ rings' = rings /\ bell' = bell /\ board' = board /\ badge' = badge
      /\ asks' = asks /\ cut' = cut /\ silent' = silent
  BY DEF boardVars, handlerVars
<1>2. BoardTyped' /\ RoomKept'
  BY <1>1 DEF BoardIInv, BoardTyped, RoomKept
<1>3. \A part \in Parts : AsksAgain(part)' = AsksAgain(part)
  BY <1>1 DEF AsksAgain, Coming, MyOrders, AvailableFor
<1> QED
  BY <1>1, <1>2, <1>3, PageUntouched DEF BoardIInv

\* Every step of the order board keeps the invariant.
LEMMA BoardNextOK ==
  ASSUME BoardIInv, [BoardNext]_<<handlerVars, boardVars>>
  PROVE  BoardIInv'
<1>1. CASE BoardNext
  <2>1. tab' = tab
    BY <1>1 DEF BoardNext
  <2>2. CASE Disconnect
    BY <2>1, <2>2, DisconnectOK
  <2>3. CASE RejoinRoom
    BY <2>1, <2>3, RejoinRoomOK
  <2>4. CASE RingReceived
    BY <2>1, <2>4, RingReceivedOK
  <2>5. CASE PollCounters
    BY <2>1, <2>5, PollCountersOK
  <2>6. ASSUME NEW h \in Handlers,
               \/ PublishOrder(h) \/ CloseOrder(h) \/ EnqueueMeetingBroadcast(h)
               \/ MeetingBroadcastWorker(h) \/ BroadcastRing(h) \/ MoveCast(h)
        PROVE  BoardIInv'
    BY <2>1, <2>6, PublishOrderOK, CloseOrderOK, EnqueueMeetingBroadcastOK,
       MeetingBroadcastWorkerOK, BroadcastRingOK, MoveCastOK
  <2>7. ASSUME NEW h \in Handlers,
               \/ AskOrderBoard(h) \/ CountBoard(h) \/ FindBoard(h) \/ ReadBoard(h)
               \/ AskCounters(h) \/ CountBadge(h) \/ BoardDie(h)
        PROVE  BoardIInv'
    BY <2>1, <2>7, AskOrderBoardOK, CountBoardOK, FindBoardOK, ReadBoardOK, AskCountersOK,
       CountBadgeOK, BoardDieOK
  <2> QED
    BY <1>1, <2>2, <2>3, <2>4, <2>5, <2>6, <2>7 DEF BoardNext
<1>2. CASE UNCHANGED <<handlerVars, boardVars>>
  BY <1>2, BoardStutter
<1> QED
  BY <1>1, <1>2
-----------------------------------------------------------------------------
(* The settings screens *)

TableLabels == {"idle", "write", "after", "link", "destroy"}
FilledRows == {NoRow} \cup [Fields -> Int]
FormRows == [id : RowIds \cup {NewRow}, row : RowIds \cup {NewRow}, on : BOOLEAN, busy : BOOLEAN,
             fields : FilledRows, linked : SUBSET LinkOptions, touched : SUBSET Fields]
Screens == [rows : [RowIds -> FilledRows], links : [RowIds -> SUBSET LinkOptions], form : FormRows]
MeantRows == [fields : FilledRows, links : SUBSET LinkOptions]

TablesTyped ==
    /\ setting \in SettingsNames /\ zone \in Nat /\ nextId \in Nat
    /\ at \in [Handlers -> TableLabels] /\ Bounded /\ Sequential
    /\ filled \in [RowIds -> FilledRows] /\ joined \in [RowIds -> SUBSET LinkOptions]
    /\ screen \in [Handlers -> Screens] /\ meant \in [RowIds -> MeantRows]

\* A form shows field f of row as v: as it is, or as an empty password.
ShowsField(f, row, v) == v = row[f] \/ (f \in Of("secret") /\ v = Empty)

\* The form of screen s has a value for every field, and shows the row it was opened on
\* as the list has it, except for what was touched.
FormShows(s) ==
    /\ s.form.fields \in [Fields -> Int]
    /\ s.form.id # NewRow =>
          /\ s.rows[s.form.id] # NoRow
          /\ s.form.touched \cap ReadOnlyOnEdit = {}
          /\ \A f \in Fields \ s.form.touched : ShowsField(f, s.rows[s.form.id], s.form.fields[f])

ScreenHolds(s, l) ==
    /\ s.form.on => FormShows(s)
    /\ l \in {"write", "after", "link"} => s.form.on /\ s.form.busy
    /\ l \in {"after", "link"} => s.form.row # NewRow
    /\ l = "destroy" => ~s.form.on /\ s.form.row # NewRow

\* A row and its join rows are as they were meant to be.
RowMeant(i) ==
    i \notin stale /\ filled[i] # NoRow =>
        /\ \A f \in Fields : AsMeant(f, filled[i][f], meant[i].fields[f])
        /\ joined[i] = meant[i].links

RowWhole(i) == filled[i] # NoRow => meant[i].fields \in [Fields -> Int]
RowFree(i) == i >= nextId => filled[i] = NoRow /\ joined[i] = {} /\ meant[i].links = {}
RunsForward(i) ==
    setting = "event_campaigns" /\ filled[i] # NoRow => filled[i]["startAt"] < filled[i]["endAt"]

\* Banner i has the position that banner j has.
SamePlace(i, j) ==
    /\ i # j /\ filled[i] # NoRow /\ filled[j] # NoRow
    /\ filled[i]["position"] # Empty /\ filled[i]["position"] = filled[j]["position"]

\* Two banners share a position while one of them is being written.
PositionsApart ==
    setting = "banners" /\ ~overlapped /\ faults = 0 =>
        /\ \A p \in Handlers : at[p] = "after" /\ filled[Form(p).row] # NoRow =>
              filled[Form(p).row]["position"] = Form(p).fields["position"]
        /\ \A i, j \in RowIds :
              SamePlace(i, j) => \E p \in Handlers : at[p] = "after" /\ Form(p).row \in {i, j}

TablesIInv ==
    /\ TablesTyped
    /\ \A p \in Handlers : ScreenHolds(screen[p], at[p])
    /\ \A i \in RowIds : RowMeant(i) /\ RowWhole(i) /\ RowFree(i) /\ RunsForward(i)
    /\ PositionsApart

\* While the table and the time zone are the same, so are the fields and their types.
LEMMA TablesSame ==
  ASSUME setting' = setting, zone' = zone
  PROVE  /\ Fields' = Fields /\ ReadOnlyOnEdit' = ReadOnlyOnEdit
         /\ FilledRows' = FilledRows /\ Screens' = Screens /\ MeantRows' = MeantRows
         /\ Of("secret")' = Of("secret") /\ Of("number")' = Of("number")
         /\ Of("moment")' = Of("moment")
<1>1. Types' = Types
  BY DEF Types
<1>2. Fields' = Fields
  BY <1>1 DEF Fields
<1>3. Of("secret")' = Of("secret") /\ Of("number")' = Of("number") /\ Of("moment")' = Of("moment")
  BY <1>1 DEF Of
<1>4. ReadOnlyOnEdit' = ReadOnlyOnEdit
  BY DEF ReadOnlyOnEdit
<1>5. FilledRows' = FilledRows
  BY <1>2 DEF FilledRows
<1>6. FormRows' = FormRows
  BY <1>2, <1>5 DEF FormRows
<1>7. Screens' = Screens /\ MeantRows' = MeantRows
  BY <1>5, <1>6 DEF Screens, MeantRows
<1> QED
  BY <1>2, <1>3, <1>4, <1>5, <1>7

\* A banner's position is a text like any other; a campaign has two moments; neither
\* has join rows.
LEMMA TableFields ==
  ASSUME setting \in SettingsNames
  PROVE  /\ setting = "banners" =>
               /\ "position" \in Fields
               /\ "position" \notin Of("number") \cup Of("moment") \cup Of("secret")
               /\ "position" \notin ReadOnlyOnEdit /\ ~HasLinks
         /\ setting = "event_campaigns" => "startAt" \in Fields /\ "endAt" \in Fields
<1>1. ASSUME setting = "banners"
      PROVE  /\ "position" \in Fields
             /\ "position" \notin Of("number") \cup Of("moment") \cup Of("secret")
             /\ "position" \notin ReadOnlyOnEdit /\ ~HasLinks
  <2>m. "banners" \in DOMAIN MenuTables
    BY DEF MenuTables
  <2>0. Types = MenuTables["banners"]
    BY <1>1, <2>m DEF Types, FieldsByType
  <2>1. Types = [text |-> {"name", "bannerPictureUrl", "mainPictureUrl", "position"}]
    BY <2>0 DEF MenuTables
  <2>2. DOMAIN Types = {"text"} /\ Types["text"] = {"name", "bannerPictureUrl", "mainPictureUrl", "position"}
    BY <2>1
  <2>3. "position" \in Fields
    BY <2>2 DEF Fields
  <2>4. Of("number") = {} /\ Of("moment") = {} /\ Of("secret") = {}
    BY <2>2 DEF Of
  <2>5. "position" \notin ReadOnlyOnEdit /\ ~HasLinks
    BY <1>1 DEF ReadOnlyOnEdit, HasLinks
  <2> QED
    BY <2>3, <2>4, <2>5
<1>2. ASSUME setting = "event_campaigns"
      PROVE  "startAt" \in Fields /\ "endAt" \in Fields
  <2>m. "event_campaigns" \in DOMAIN MenuTables
    BY DEF MenuTables
  <2>1. Types = MenuTables["event_campaigns"]
    BY <1>2, <2>m DEF Types, FieldsByType
  <2>2. "moment" \in DOMAIN Types /\ Types["moment"] = {"startAt", "endAt"}
    BY <2>1 DEF MenuTables
  <2> QED
    BY <2>2 DEF Fields
<1> QED
  BY <1>1, <1>2

\* What is as meant stays so when it is coerced.
LEMMA CoercedAsMeant ==
  ASSUME NEW f, NEW v, NEW w, AsMeant(f, v, w)
  PROVE  AsMeant(f, Coerced(f, v), w)
BY DEF AsMeant, Coerced, Empty

LEMMA CoercedInt ==
  ASSUME NEW f, NEW v \in Int
  PROVE  Coerced(f, v) \in Int
BY DEF Coerced

\* A form opened on a row shows it.
LEMMA InFormShows ==
  ASSUME NEW row \in FilledRows
  PROVE  /\ InForm(row) \in [Fields -> Int]
         /\ row # NoRow => \A f \in Fields : ShowsField(f, row, InForm(row)[f])
<1>1. row # NoRow => \A f \in Fields : row[f] \in Int
  BY DEF FilledRows
<1>2. ASSUME NEW f \in Fields
      PROVE  /\ InForm(row)[f] \in Int
             /\ row # NoRow => ShowsField(f, row, InForm(row)[f])
  <2>1. InForm(row)[f] = CASE f \in Of("flag") -> IF row = NoRow THEN 1 ELSE row[f]
                           [] f \in Of("secret") -> Empty
                           [] OTHER -> IF row = NoRow THEN Empty ELSE row[f]
    BY DEF InForm
  <2>2. Empty \in Int
    BY DEF Empty
  <2> QED
    BY <1>1, <2>1, <2>2 DEF ShowsField
<1> QED
  BY <1>2 DEF InForm

\* Operator p's screen becomes s and its handler goes to l; the other screens stay.
LEMMA ScreensHold ==
  ASSUME TablesIInv, NEW p \in Handlers, NEW s \in Screens, NEW l \in TableLabels,
         screen' = [screen EXCEPT ![p] = s], setting' = setting, zone' = zone,
         MovesTo(p, l), ScreenHolds(s, l)
  PROVE  /\ (screen \in [Handlers -> Screens])'
         /\ (\A q \in Handlers : ScreenHolds(screen[q], at[q]))'
         /\ screen'[p] = s
         /\ \A q \in Handlers \ {p} : screen'[q] = screen[q]
<1>1. screen \in [Handlers -> Screens] /\ \A q \in Handlers : ScreenHolds(screen[q], at[q])
  BY DEF TablesIInv, TablesTyped
<1>2. screen'[p] = s /\ \A q \in Handlers \ {p} : screen'[q] = screen[q]
  BY <1>1
<1>3. screen' \in [Handlers -> Screens]
  BY <1>1
<1>4. Screens' = Screens /\ Fields' = Fields /\ ReadOnlyOnEdit' = ReadOnlyOnEdit
      /\ Of("secret")' = Of("secret")
  BY TablesSame
<1>5. ASSUME NEW q \in Handlers
      PROVE  ScreenHolds(screen[q], at[q])'
  <2>1. PICK t, m : t = screen'[q] /\ m = at'[q]
    OBVIOUS
  <2>2. ScreenHolds(t, m)
    BY <1>1, <1>2, <2>1 DEF MovesTo
  <2> QED
    BY <1>4, <2>1, <2>2 DEF ScreenHolds, FormShows, ShowsField
<1> QED
  BY <1>2, <1>3, <1>4, <1>5

\* A step of operator p on its screen, or of its handler, that leaves the table as it is.
LEMMA ScreenStep ==
  ASSUME TablesIInv, NEW p \in Handlers, NEW s \in Screens, NEW l \in TableLabels,
         screen' = [screen EXCEPT ![p] = s], setting' = setting, zone' = zone,
         UNCHANGED TableRows,
         at' \in [Handlers -> TableLabels], MovesTo(p, l), Bounded', Sequential',
         ScreenHolds(s, l),
         ~overlapped' /\ faults' = 0 =>
            ~overlapped /\ faults = 0 /\ at[p] # "after" /\ l # "after"
  PROVE  TablesIInv'
<1>1. /\ (screen \in [Handlers -> Screens])'
      /\ (\A q \in Handlers : ScreenHolds(screen[q], at[q]))'
      /\ \A q \in Handlers \ {p} : screen'[q] = screen[q]
  BY ScreensHold
<1>2. /\ filled' = filled /\ joined' = joined /\ nextId' = nextId /\ meant' = meant /\ stale' = stale
  BY DEF TableRows
<1>3. /\ Fields' = Fields /\ FilledRows' = FilledRows /\ MeantRows' = MeantRows
      /\ Of("secret")' = Of("secret") /\ Of("number")' = Of("number")
      /\ Of("moment")' = Of("moment")
  BY TablesSame
<1>4. TablesTyped'
  BY <1>1, <1>2, <1>3 DEF TablesIInv, TablesTyped
<1>5. ASSUME NEW i \in RowIds
      PROVE  RowMeant(i)' /\ RowWhole(i)' /\ RowFree(i)' /\ RunsForward(i)'
  <2>1. RowMeant(i) /\ RowWhole(i) /\ RowFree(i) /\ RunsForward(i)
    BY DEF TablesIInv
  <2>2. RowMeant(i)'
    BY <1>2, <1>3, <2>1 DEF RowMeant, AsMeant
  <2>3. RowWhole(i)' /\ RowFree(i)' /\ RunsForward(i)'
    BY <1>2, <1>3, <2>1 DEF RowWhole, RowFree, RunsForward
  <2> QED
    BY <2>2, <2>3
<1>6. PositionsApart'
  <2> SUFFICES ASSUME setting' = "banners", ~overlapped', faults' = 0
               PROVE  /\ \A q \in Handlers : at'[q] = "after" /\ filled'[Form(q)'.row] # NoRow =>
                            filled'[Form(q)'.row]["position"] = Form(q)'.fields["position"]
                      /\ \A i, j \in RowIds :
                            SamePlace(i, j)' => \E q \in Handlers : at'[q] = "after" /\ Form(q)'.row \in {i, j}
    BY DEF PositionsApart
  <2>1. setting = "banners" /\ ~overlapped /\ faults = 0 /\ at[p] # "after" /\ at'[p] # "after"
    BY DEF MovesTo
  <2>2. ASSUME NEW q \in Handlers
        PROVE  /\ at'[q] = "after" <=> at[q] = "after"
               /\ at[q] = "after" => Form(q)' = Form(q)
    BY <1>1, <2>1 DEF MovesTo, Form
  <2>3. \A q \in Handlers : at'[q] = "after" /\ filled'[Form(q)'.row] # NoRow =>
            filled'[Form(q)'.row]["position"] = Form(q)'.fields["position"]
    BY <1>2, <2>1, <2>2 DEF TablesIInv, PositionsApart
  <2>4. ASSUME NEW i \in RowIds, NEW j \in RowIds, SamePlace(i, j)'
        PROVE  \E q \in Handlers : at'[q] = "after" /\ Form(q)'.row \in {i, j}
    <3>1. SamePlace(i, j)
      BY <1>2, <2>4 DEF SamePlace
    <3>2. PICK q \in Handlers : at[q] = "after" /\ Form(q).row \in {i, j}
      BY <2>1, <3>1 DEF TablesIInv, PositionsApart
    <3> QED
      BY <2>2, <3>2
  <2> QED
    BY <2>3, <2>4
<1> QED
  BY <1>1, <1>4, <1>5, <1>6 DEF TablesIInv

\* Operator p's screen with form w.
WithForm(p, w) == [rows |-> screen[p].rows, links |-> screen[p].links, form |-> w]

LEMMA SetFormIs ==
  ASSUME TablesIInv, NEW p \in Handlers, NEW w \in FormRows, SetForm(p, w)
  PROVE  screen' = [screen EXCEPT ![p] = WithForm(p, w)] /\ WithForm(p, w) \in Screens
<1>1. screen[p] \in Screens
  BY DEF TablesIInv, TablesTyped
<1>2. [screen[p] EXCEPT !.form = w] = WithForm(p, w) /\ WithForm(p, w) \in Screens
  BY <1>1 DEF Screens, WithForm
<1> QED
  BY <1>2 DEF SetForm

LEMMA ScreenOf ==
  ASSUME TablesIInv, NEW p \in Handlers
  PROVE  /\ screen[p] \in Screens /\ Form(p) \in FormRows
         /\ screen[p].form = Form(p) /\ ScreenHolds(screen[p], at[p])
         /\ NoForm \in FormRows /\ ~NoForm.on
<1>1. screen[p] \in Screens /\ ScreenHolds(screen[p], at[p])
  BY DEF TablesIInv, TablesTyped
<1>2. NoRow \in FilledRows /\ ~NoForm.on
  BY DEF FilledRows, NoForm
<1>3. NoForm \in FormRows
  BY <1>2 DEF NoForm, FormRows
<1> QED
  BY <1>1, <1>2, <1>3 DEF Screens, Form

\* A step of operator p on its screen only.
LEMMA ScreenOnly ==
  ASSUME TablesIInv, NEW p \in Handlers, NEW s \in Screens,
         screen' = [screen EXCEPT ![p] = s], UNCHANGED <<handlerVars, setting, zone, TableRows>>,
         ScreenHolds(s, at[p]), at[p] # "after"
  PROVE  TablesIInv'
<1>1. at' = at /\ begun' = begun /\ faults' = faults /\ overlapped' = overlapped
  BY DEF handlerVars
<1>2. at \in [Handlers -> TableLabels] /\ Bounded /\ Sequential
  BY DEF TablesIInv, TablesTyped
<1>3. Bounded' /\ Sequential'
  BY <1>2, StillSequential
<1>4. at' \in [Handlers -> TableLabels] /\ MovesTo(p, at[p]) /\ at[p] \in TableLabels
  BY <1>1, <1>2 DEF MovesTo
<1>5. setting' = setting /\ zone' = zone /\ UNCHANGED TableRows
  OBVIOUS
<1>6. ~overlapped' /\ faults' = 0 => ~overlapped /\ faults = 0 /\ at[p] # "after" /\ at[p] # "after"
  BY <1>1
<1> QED
  BY <1>3, <1>4, <1>5, <1>6, ScreenStep

LEMMA LoadListOK ==
  ASSUME TablesIInv, NEW p \in Handlers, LoadList(p)
  PROVE  TablesIInv'
<1> DEFINE s == [rows |-> filled, links |-> joined, form |-> Form(p)]
<1>1. screen[p] \in Screens /\ Form(p) \in FormRows /\ screen[p].form = Form(p)
      /\ ScreenHolds(screen[p], at[p]) /\ ~Form(p).on
  BY ScreenOf DEF LoadList
<1>2. filled \in [RowIds -> FilledRows] /\ joined \in [RowIds -> SUBSET LinkOptions]
      /\ screen \in [Handlers -> Screens]
  BY DEF TablesIInv, TablesTyped
<1>3. s \in Screens
  BY <1>1, <1>2 DEF Screens
<1>4. screen' = [screen EXCEPT ![p] = s]
  BY DEF LoadList
<1>5. ScreenHolds(s, at[p]) /\ at[p] # "after"
  BY <1>1 DEF ScreenHolds
<1>6. UNCHANGED <<handlerVars, setting, zone, TableRows>>
  BY DEF LoadList
<1> HIDE DEF s
<1> QED
  BY <1>3, <1>4, <1>5, <1>6, ScreenOnly

LEMMA OpenModalOK ==
  ASSUME TablesIInv, NEW p \in Handlers, NEW i \in RowIds \cup {NewRow}, OpenModal(p, i)
  PROVE  TablesIInv'
<1> DEFINE row == IF i = NewRow THEN NoRow ELSE screen[p].rows[i]
           w == [id |-> i, row |-> i, on |-> TRUE, busy |-> FALSE, fields |-> InForm(row), touched |-> {},
                 linked |-> IF i = NewRow THEN {} ELSE screen[p].links[i]]
<1>1. screen[p] \in Screens /\ at[p] = "idle" /\ (i # NewRow => i \in RowIds /\ screen[p].rows[i] # NoRow)
  BY ScreenOf DEF OpenModal
<1>2. row \in FilledRows /\ (i # NewRow => row # NoRow)
  BY <1>1 DEF Screens, FilledRows
<1>3. InForm(row) \in [Fields -> Int] /\ (row # NoRow => \A f \in Fields : ShowsField(f, row, InForm(row)[f]))
  BY <1>2, InFormShows
<1>4. w \in FormRows
  BY <1>1, <1>3 DEF FormRows, FilledRows, Screens
<1>5. SetForm(p, w) /\ UNCHANGED <<handlerVars, setting, zone, TableRows>>
  BY DEF OpenModal
<1>6. screen' = [screen EXCEPT ![p] = WithForm(p, w)] /\ WithForm(p, w) \in Screens
  BY <1>4, <1>5, SetFormIs
<1>7. ScreenHolds(WithForm(p, w), at[p]) /\ at[p] # "after"
  BY <1>1, <1>2, <1>3 DEF ScreenHolds, WithForm, FormShows
<1> QED
  BY <1>5, <1>6, <1>7, ScreenOnly

LEMMA TouchOK ==
  ASSUME TablesIInv, NEW p \in Handlers, NEW f \in Fields, NEW v \in Settable(f), Touch(p, f, v)
  PROVE  TablesIInv'
<1> DEFINE w == [Form(p) EXCEPT !.fields[f] = v, !.touched = @ \cup {f}]
<1>1. screen[p] \in Screens /\ Form(p) \in FormRows /\ screen[p].form = Form(p)
      /\ ScreenHolds(screen[p], at[p]) /\ Form(p).on /\ ~Form(p).busy
      /\ f \notin (IF Form(p).id = NewRow THEN {} ELSE ReadOnlyOnEdit)
  BY ScreenOf DEF Touch
<1>2. v \in Int
  BY DEF Settable, Empty
<1>3. FormShows(screen[p]) /\ Form(p).fields \in [Fields -> Int]
  BY <1>1 DEF ScreenHolds, FormShows
<1>4. w = [Form(p) EXCEPT !.fields = [Form(p).fields EXCEPT ![f] = v], !.touched = Form(p).touched \cup {f}]
  BY <1>1 DEF FormRows
<1>5. w \in FormRows
  BY <1>1, <1>2, <1>3, <1>4 DEF FormRows, FilledRows
<1>6. /\ w.on /\ w.id = Form(p).id /\ w.row = Form(p).row
      /\ w.fields = [Form(p).fields EXCEPT ![f] = v] /\ w.touched = Form(p).touched \cup {f}
  BY <1>1, <1>4 DEF FormRows
<1>7. SetForm(p, w) /\ UNCHANGED <<handlerVars, setting, zone, TableRows>>
  BY DEF Touch
<1> HIDE DEF w
<1>8. screen' = [screen EXCEPT ![p] = WithForm(p, w)] /\ WithForm(p, w) \in Screens
  BY <1>5, <1>7, SetFormIs
<1>9. /\ WithForm(p, w).form = w /\ WithForm(p, w).rows = screen[p].rows
  BY DEF WithForm
<1>10. FormShows(WithForm(p, w))
  <2>1. w.fields \in [Fields -> Int]
    BY <1>2, <1>3, <1>6
  <2>2. ASSUME w.id # NewRow
        PROVE  /\ screen[p].rows[w.id] # NoRow /\ w.touched \cap ReadOnlyOnEdit = {}
               /\ \A g \in Fields \ w.touched : ShowsField(g, screen[p].rows[w.id], w.fields[g])
    BY <1>1, <1>3, <1>6, <2>2 DEF FormShows
  <2> QED
    BY <1>9, <2>1, <2>2 DEF FormShows
<1>11. ScreenHolds(WithForm(p, w), at[p]) /\ at[p] # "after"
  BY <1>1, <1>6, <1>9, <1>10 DEF ScreenHolds
<1> QED
  BY <1>7, <1>8, <1>11, ScreenOnly

\* The form stays open with the same fields, or is closed.
LEMMA FormKept ==
  ASSUME TablesIInv, NEW p \in Handlers, NEW w \in FormRows,
         w.on => /\ Form(p).on /\ w.id = Form(p).id /\ w.fields = Form(p).fields
                 /\ w.touched = Form(p).touched
  PROVE  /\ WithForm(p, w).form = w
         /\ w.on => FormShows(WithForm(p, w))
<1>1. screen[p].form = Form(p) /\ ScreenHolds(screen[p], at[p])
  BY ScreenOf
<1>2. WithForm(p, w).form = w /\ WithForm(p, w).rows = screen[p].rows
  BY DEF WithForm
<1> QED
  BY <1>1, <1>2 DEF ScreenHolds, FormShows

LEMMA ToggleOK ==
  ASSUME TablesIInv, NEW p \in Handlers, NEW o \in LinkOptions, Toggle(p, o)
  PROVE  TablesIInv'
<1> DEFINE c == IF o \in Form(p).linked THEN Form(p).linked \ {o} ELSE Form(p).linked \cup {o}
           w == [Form(p) EXCEPT !.linked = c]
<1>1. /\ Form(p) \in FormRows /\ screen[p].form = Form(p)
      /\ ScreenHolds(screen[p], at[p]) /\ Form(p).on /\ ~Form(p).busy
  BY ScreenOf DEF Toggle
<1>2. /\ w \in FormRows /\ w.on /\ w.id = Form(p).id /\ w.fields = Form(p).fields
      /\ w.touched = Form(p).touched
  BY <1>1 DEF FormRows
<1>3. SetForm(p, w) /\ UNCHANGED <<handlerVars, setting, zone, TableRows>>
  BY <1>1 DEF Toggle, FormRows
<1> HIDE DEF w
<1>4. screen' = [screen EXCEPT ![p] = WithForm(p, w)] /\ WithForm(p, w) \in Screens
  BY <1>2, <1>3, SetFormIs
<1>5. WithForm(p, w).form = w /\ FormShows(WithForm(p, w))
  BY <1>1, <1>2, FormKept
<1>6. ScreenHolds(WithForm(p, w), at[p]) /\ at[p] # "after"
  BY <1>1, <1>2, <1>5 DEF ScreenHolds
<1> QED
  BY <1>3, <1>4, <1>6, ScreenOnly

LEMMA CloseModalOK ==
  ASSUME TablesIInv, NEW p \in Handlers, CloseModal(p)
  PROVE  TablesIInv'
<1>1. /\ screen[p].form = Form(p) /\ ScreenHolds(screen[p], at[p]) /\ Form(p).on /\ ~Form(p).busy
      /\ NoForm \in FormRows /\ ~NoForm.on
  BY ScreenOf DEF CloseModal
<1>2. SetForm(p, NoForm) /\ UNCHANGED <<handlerVars, setting, zone, TableRows>>
  BY DEF CloseModal
<1>3. screen' = [screen EXCEPT ![p] = WithForm(p, NoForm)] /\ WithForm(p, NoForm) \in Screens
  BY <1>1, <1>2, SetFormIs
<1>4. WithForm(p, NoForm).form = NoForm
  BY DEF WithForm
<1>5. ScreenHolds(WithForm(p, NoForm), at[p]) /\ at[p] # "after"
  BY <1>1, <1>4 DEF ScreenHolds
<1> QED
  BY <1>2, <1>3, <1>5, ScreenOnly

\* A step of operator p on its form and its handler that leaves the table as it is.
LEMMA FormStep ==
  ASSUME TablesIInv, NEW p \in Handlers, NEW w \in FormRows, NEW l \in TableLabels,
         SetForm(p, w), UNCHANGED <<setting, zone, TableRows>>,
         at' \in [Handlers -> TableLabels], MovesTo(p, l), Bounded', Sequential',
         ScreenHolds(WithForm(p, w), l),
         ~overlapped' /\ faults' = 0 =>
            ~overlapped /\ faults = 0 /\ at[p] # "after" /\ l # "after"
  PROVE  TablesIInv'
<1>1. screen' = [screen EXCEPT ![p] = WithForm(p, w)] /\ WithForm(p, w) \in Screens
  BY SetFormIs
<1>2. setting' = setting /\ zone' = zone /\ UNCHANGED TableRows
  OBVIOUS
<1> QED
  BY <1>1, <1>2, ScreenStep

LEMMA SaveOK ==
  ASSUME TablesIInv, NEW p \in Handlers, Save(p)
  PROVE  TablesIInv'
<1> DEFINE w == [Form(p) EXCEPT !.busy = TRUE]
<1>1. /\ Form(p) \in FormRows /\ Form(p).on
  BY ScreenOf DEF Save
<1>2. /\ w \in FormRows /\ w.on /\ w.busy /\ w.id = Form(p).id /\ w.fields = Form(p).fields
      /\ w.touched = Form(p).touched
  BY <1>1 DEF FormRows
<1>3. SetForm(p, w) /\ UNCHANGED <<setting, zone, TableRows>> /\ Begin(p, "write")
  BY DEF Save
<1> HIDE DEF w
<1>4. "write" \in TableLabels
  BY DEF TableLabels
<1>5. at \in [Handlers -> TableLabels] /\ Bounded /\ Sequential
  BY DEF TablesIInv, TablesTyped
<1>6. /\ at' \in [Handlers -> TableLabels] /\ Bounded' /\ Sequential'
      /\ MovesTo(p, "write") /\ at[p] = "idle" /\ faults' = faults
      /\ ~overlapped' => ~overlapped /\ AtRest
  BY <1>3, <1>4, <1>5, BeginMoves
<1>7. WithForm(p, w).form = w /\ FormShows(WithForm(p, w))
  BY <1>1, <1>2, FormKept
<1>8. ScreenHolds(WithForm(p, w), "write")
  BY <1>2, <1>7 DEF ScreenHolds
<1>9. ~overlapped' /\ faults' = 0 =>
         ~overlapped /\ faults = 0 /\ at[p] # "after" /\ "write" # "after"
  BY <1>6
<1> QED
  BY <1>2, <1>3, <1>4, <1>6, <1>8, <1>9, FormStep

LEMMA DestroyOK ==
  ASSUME TablesIInv, NEW p \in Handlers, NEW i \in RowIds, Destroy(p, i)
  PROVE  TablesIInv'
<1> DEFINE w == [NoForm EXCEPT !.row = i]
<1>0. i # NewRow
  BY DEF RowIds, NewRow
<1>1. NoForm \in FormRows /\ ~NoForm.on
  BY ScreenOf
<1>2. w \in FormRows /\ ~w.on /\ w.row = i
  BY <1>1 DEF FormRows
<1>3. SetForm(p, w) /\ UNCHANGED <<setting, zone, TableRows>> /\ Begin(p, "destroy")
  BY DEF Destroy
<1> HIDE DEF w
<1>4. "destroy" \in TableLabels
  BY DEF TableLabels
<1>5. at \in [Handlers -> TableLabels] /\ Bounded /\ Sequential
  BY DEF TablesIInv, TablesTyped
<1>6. /\ at' \in [Handlers -> TableLabels] /\ Bounded' /\ Sequential'
      /\ MovesTo(p, "destroy") /\ at[p] = "idle" /\ faults' = faults
      /\ ~overlapped' => ~overlapped /\ AtRest
  BY <1>3, <1>4, <1>5, BeginMoves
<1>7. ScreenHolds(WithForm(p, w), "destroy")
  BY <1>0, <1>2 DEF ScreenHolds, WithForm
<1>8. ~overlapped' /\ faults' = 0 =>
         ~overlapped /\ faults = 0 /\ at[p] # "after" /\ "destroy" # "after"
  BY <1>6
<1> QED
  BY <1>2, <1>3, <1>4, <1>6, <1>7, <1>8, FormStep

\* The form an answer leaves open is the one that was sent, and no longer busy.
LEMMA FormBack ==
  ASSUME TablesIInv, NEW p \in Handlers
  PROVE  /\ Form(p).on =>
              /\ [Form(p) EXCEPT !.busy = FALSE] \in FormRows
              /\ ScreenHolds(WithForm(p, [Form(p) EXCEPT !.busy = FALSE]), "idle")
         /\ NoForm \in FormRows /\ ScreenHolds(WithForm(p, NoForm), "idle")
<1>1. Form(p) \in FormRows /\ NoForm \in FormRows /\ ~NoForm.on
  BY ScreenOf
<1>2. WithForm(p, NoForm).form = NoForm
  BY DEF WithForm
<1>3. ScreenHolds(WithForm(p, NoForm), "idle")
  BY <1>1, <1>2 DEF ScreenHolds
<1>4. ASSUME Form(p).on, NEW w, w = [Form(p) EXCEPT !.busy = FALSE]
      PROVE  w \in FormRows /\ ScreenHolds(WithForm(p, w), "idle")
  <2>1. /\ w \in FormRows /\ w.on /\ w.id = Form(p).id /\ w.fields = Form(p).fields
        /\ w.touched = Form(p).touched
    BY <1>1, <1>4 DEF FormRows
  <2>2. WithForm(p, w).form = w /\ FormShows(WithForm(p, w))
    BY <1>4, <2>1, FormKept
  <2> QED
    BY <2>1, <2>2 DEF ScreenHolds
<1> QED
  BY <1>1, <1>3, <1>4

LEMMA AnsweredOK ==
  ASSUME TablesIInv, NEW p \in Handlers, Answered(p), at[p] = "write"
  PROVE  TablesIInv'
<1>1. PICK w : w = IF Form(p).on THEN [Form(p) EXCEPT !.busy = FALSE] ELSE NoForm
  OBVIOUS
<1>2. w \in FormRows /\ ScreenHolds(WithForm(p, w), "idle")
  BY <1>1, FormBack
<1>3. SetForm(p, w) /\ UNCHANGED <<setting, zone, TableRows>> /\ Continue(p, "idle")
  BY <1>1 DEF Answered, End
<1>4. "idle" \in TableLabels /\ at[p] # "idle"
  BY DEF TableLabels
<1>5. at \in [Handlers -> TableLabels] /\ Bounded /\ Sequential
  BY DEF TablesIInv, TablesTyped
<1>6. /\ at' \in [Handlers -> TableLabels] /\ Bounded' /\ Sequential'
      /\ MovesTo(p, "idle") /\ faults' = faults /\ overlapped' = overlapped
  BY <1>3, <1>4, <1>5, ContinueMoves
<1>7. ~overlapped' /\ faults' = 0 =>
         ~overlapped /\ faults = 0 /\ at[p] # "after" /\ "idle" # "after"
  BY <1>6
<1> QED
  BY <1>2, <1>3, <1>4, <1>6, <1>7, FormStep

LEMMA TableDieOK ==
  ASSUME TablesIInv, NEW p \in Handlers, TableDie(p)
  PROVE  TablesIInv'
<1>1. PICK w : w = IF at[p] \in {"write", "after"} THEN [Form(p) EXCEPT !.busy = FALSE] ELSE NoForm
  OBVIOUS
<1>2. at[p] \in {"write", "after"} => Form(p).on
  BY ScreenOf DEF ScreenHolds
<1>3. w \in FormRows /\ ScreenHolds(WithForm(p, w), "idle")
  BY <1>1, <1>2, FormBack
<1>4. SetForm(p, w) /\ UNCHANGED <<setting, zone, TableRows>> /\ Refused(p, "idle") /\ at[p] # "idle"
  BY <1>1 DEF TableDie, Die
<1>5. "idle" \in TableLabels
  BY DEF TableLabels
<1>6. at \in [Handlers -> TableLabels] /\ Bounded /\ Sequential
  BY DEF TablesIInv, TablesTyped
<1>7. /\ at' \in [Handlers -> TableLabels] /\ Bounded' /\ Sequential'
      /\ MovesTo(p, "idle") /\ faults' = faults + 1
  BY <1>4, <1>5, <1>6, RefusedMoves
<1>8. ~overlapped' /\ faults' = 0 =>
         ~overlapped /\ faults = 0 /\ at[p] # "after" /\ "idle" # "after"
  BY <1>6, <1>7 DEF Bounded
<1> QED
  BY <1>3, <1>4, <1>5, <1>7, <1>8, FormStep

\* Row i is written as row and is meant to be m; operator p's handler goes on at l.
LEMMA TableRowWritten ==
  ASSUME TablesIInv, NEW p \in Handlers, NEW i \in RowIds, at[p] = "write",
         NEW row \in [Fields -> Int], NEW m \in [Fields -> Int],
         NEW s \in Screens, NEW l \in TableLabels,
         screen' = [screen EXCEPT ![p] = s], setting' = setting, zone' = zone,
         at' \in [Handlers -> TableLabels], MovesTo(p, l), Bounded', Sequential',
         overlapped' = overlapped, faults' = faults, ~overlapped => OnlyOne(p),
         ScreenHolds(s, l),
         filled' = [filled EXCEPT ![i] = row], meant' = [meant EXCEPT ![i].fields = m],
         joined' = joined, nextId' \in Nat, nextId <= nextId', i < nextId',
         stale \subseteq stale',
         i \notin stale' => joined[i] = meant[i].links /\ \A f \in Fields : AsMeant(f, row[f], m[f]),
         setting = "event_campaigns" => row["startAt"] < row["endAt"],
         setting = "banners" => (row["position"] # Empty <=> l = "after"),
         l = "after" => s.form.row = i /\ s.form.fields["position"] = row["position"]
  PROVE  TablesIInv'
<1>1. /\ (screen \in [Handlers -> Screens])'
      /\ (\A q \in Handlers : ScreenHolds(screen[q], at[q]))'
      /\ screen'[p] = s
      /\ \A q \in Handlers \ {p} : screen'[q] = screen[q]
  BY ScreensHold
<1>2. /\ Fields' = Fields /\ FilledRows' = FilledRows /\ MeantRows' = MeantRows
      /\ Of("secret")' = Of("secret") /\ Of("number")' = Of("number")
      /\ Of("moment")' = Of("moment")
  BY TablesSame
<1>3. /\ filled \in [RowIds -> FilledRows] /\ joined \in [RowIds -> SUBSET LinkOptions]
      /\ meant \in [RowIds -> MeantRows] /\ setting \in SettingsNames /\ zone \in Nat /\ nextId \in Nat
  BY DEF TablesIInv, TablesTyped
<1>4. /\ filled' \in [RowIds -> FilledRows] /\ filled'[i] = row
      /\ \A j \in RowIds \ {i} : filled'[j] = filled[j]
  BY <1>3 DEF FilledRows
<1>5. /\ meant' \in [RowIds -> MeantRows] /\ meant'[i].fields = m /\ meant'[i].links = meant[i].links
      /\ \A j \in RowIds \ {i} : meant'[j] = meant[j]
  <2>1. meant[i] \in MeantRows
    BY <1>3
  <2>2. [meant[i] EXCEPT !.fields = m] = [fields |-> m, links |-> meant[i].links]
    BY <2>1 DEF MeantRows
  <2>3. [fields |-> m, links |-> meant[i].links] \in MeantRows
    BY <2>1 DEF MeantRows, FilledRows
  <2> QED
    BY <1>3, <2>2, <2>3
<1>6. TablesTyped'
  BY <1>1, <1>2, <1>3, <1>4, <1>5 DEF TablesTyped
<1>7. ASSUME NEW j \in RowIds
      PROVE  RowMeant(j)' /\ RowWhole(j)' /\ RowFree(j)' /\ RunsForward(j)'
  <2>1. RowMeant(j) /\ RowWhole(j) /\ RowFree(j) /\ RunsForward(j)
    BY DEF TablesIInv
  <2>2. CASE j # i
    <3>1. filled'[j] = filled[j] /\ meant'[j] = meant[j] /\ joined'[j] = joined[j]
      BY <1>4, <1>5, <2>2
    <3>2. RowMeant(j)'
      BY <1>2, <2>1, <3>1 DEF RowMeant, AsMeant
    <3>3. RowWhole(j)' /\ RunsForward(j)'
      BY <1>2, <2>1, <3>1 DEF RowWhole, RunsForward
    <3>4. RowFree(j)'
      BY <1>3, <2>1, <3>1 DEF RowFree, RowIds
    <3> QED
      BY <3>2, <3>3, <3>4
  <2>3. CASE j = i
    <3>1. RowMeant(j)'
      BY <1>2, <1>4, <1>5, <2>3 DEF RowMeant, AsMeant
    <3>2. RowWhole(j)' /\ RunsForward(j)'
      BY <1>2, <1>4, <1>5, <2>3 DEF RowWhole, RunsForward
    <3>3. RowFree(j)'
      BY <1>3, <2>3 DEF RowFree, RowIds
    <3> QED
      BY <3>1, <3>2, <3>3
  <2> QED
    BY <2>2, <2>3
<1>8. PositionsApart'
  <2> SUFFICES ASSUME setting' = "banners", ~overlapped', faults' = 0
               PROVE  /\ \A q \in Handlers : at'[q] = "after" /\ filled'[Form(q)'.row] # NoRow =>
                            filled'[Form(q)'.row]["position"] = Form(q)'.fields["position"]
                      /\ \A j, k \in RowIds :
                            SamePlace(j, k)' => \E q \in Handlers : at'[q] = "after" /\ Form(q)'.row \in {j, k}
    BY DEF PositionsApart
  <2>1. \A q \in Handlers \ {p} : at[q] = "idle" /\ at'[q] = "idle"
    BY DEF OnlyOne, MovesTo
  <2>2. at'[p] = l /\ Form(p)' = s.form
    BY <1>1 DEF MovesTo, Form
  <2>3. \A q \in Handlers : at'[q] = "after" /\ filled'[Form(q)'.row] # NoRow =>
            filled'[Form(q)'.row]["position"] = Form(q)'.fields["position"]
    BY <1>4, <2>1, <2>2
  <2>4. ASSUME NEW j \in RowIds, NEW k \in RowIds, SamePlace(j, k)'
        PROVE  \E q \in Handlers : at'[q] = "after" /\ Form(q)'.row \in {j, k}
    <3>1. /\ j # k /\ filled'[j] # NoRow /\ filled'[k] # NoRow
          /\ filled'[j]["position"] # Empty /\ filled'[j]["position"] = filled'[k]["position"]
      BY <2>4 DEF SamePlace
    <3>2. j = i \/ k = i
      <4> SUFFICES ASSUME j # i, k # i PROVE FALSE
        OBVIOUS
      <4>1. SamePlace(j, k)
        BY <1>4, <3>1 DEF SamePlace
      <4>2. \E q \in Handlers : at[q] = "after"
        BY <4>1 DEF TablesIInv, PositionsApart
      <4> QED
        BY <2>1, <4>2
    <3>3. row["position"] # Empty
      BY <1>4, <3>1, <3>2
    <3> QED
      BY <2>2, <3>2, <3>3
  <2> QED
    BY <2>3, <2>4
<1> QED
  BY <1>1, <1>6, <1>7, <1>8 DEF TablesIInv

\* Saved: the list is loaded again.
LEMMA SavedIs ==
  ASSUME TablesIInv, NEW p \in Handlers, Saved(p), at[p] # "idle",
         filled' \in [RowIds -> FilledRows], joined' \in [RowIds -> SUBSET LinkOptions]
  PROVE  \E s \in Screens :
            /\ screen' = [screen EXCEPT ![p] = s] /\ ScreenHolds(s, "idle") /\ s.form = NoForm
            /\ at' \in [Handlers -> TableLabels] /\ MovesTo(p, "idle") /\ Bounded' /\ Sequential'
            /\ overlapped' = overlapped /\ faults' = faults /\ (~overlapped => OnlyOne(p))
            /\ "idle" \in TableLabels
<1>1. PICK s : s = [rows |-> filled', links |-> joined', form |-> NoForm]
  OBVIOUS
<1>2. NoForm \in FormRows /\ ~NoForm.on
  BY ScreenOf
<1>3. s \in Screens /\ s.form = NoForm
  BY <1>1, <1>2 DEF Screens
<1>4. screen' = [screen EXCEPT ![p] = s] /\ Continue(p, "idle")
  BY <1>1 DEF Saved, End
<1>5. ScreenHolds(s, "idle")
  BY <1>2, <1>3 DEF ScreenHolds
<1>6. "idle" \in TableLabels
  BY DEF TableLabels
<1>7. at \in [Handlers -> TableLabels] /\ Bounded /\ Sequential
  BY DEF TablesIInv, TablesTyped
<1>8. /\ at' \in [Handlers -> TableLabels] /\ Bounded' /\ Sequential'
      /\ MovesTo(p, "idle") /\ faults' = faults /\ overlapped' = overlapped
      /\ ~overlapped => OnlyOne(p)
  BY <1>4, <1>6, <1>7, ContinueMoves
<1> QED
  BY <1>3, <1>4, <1>5, <1>6, <1>8

\* What an operator means the fields of row i to be, whose form has been saved.
Meaning(p, i) ==
    [f \in Fields |-> IF f \in Form(p).touched \/ Form(p).id = NewRow
                      THEN Form(p).fields[f] ELSE meant[i].fields[f]]

LEMMA WrittenOK ==
  ASSUME TablesIInv, NEW p \in Handlers, NEW i \in RowIds, at[p] = "write",
         NEW row \in [Fields -> Int], Written(p, i, row),
         Form(p).id # NewRow => filled[i] # NoRow,
         nextId' \in Nat, nextId <= nextId', i < nextId', stale \subseteq stale',
         i \notin stale' =>
            /\ joined[i] = meant[i].links
            /\ \A f \in Fields : AsMeant(f, row[f], Meaning(p, i)[f]),
         setting = "event_campaigns" => row["startAt"] < row["endAt"],
         setting = "banners" => row["position"] = Form(p).fields["position"]
  PROVE  TablesIInv'
<1> DEFINE m == Meaning(p, i)
<1>1. /\ Form(p) \in FormRows /\ screen[p].form = Form(p) /\ ScreenHolds(screen[p], at[p])
      /\ Form(p).on /\ FormShows(screen[p]) /\ Form(p).fields \in [Fields -> Int]
  BY ScreenOf DEF ScreenHolds, FormShows
<1>2. filled \in [RowIds -> FilledRows] /\ joined \in [RowIds -> SUBSET LinkOptions]
      /\ at \in [Handlers -> TableLabels] /\ Bounded /\ Sequential /\ setting \in SettingsNames
  BY DEF TablesIInv, TablesTyped
<1>3. m \in [Fields -> Int]
  BY <1>1 DEF TablesIInv, RowWhole, Meaning
<1>4. /\ filled' = [filled EXCEPT ![i] = row] /\ meant' = [meant EXCEPT ![i].fields = m]
      /\ setting' = setting /\ zone' = zone /\ joined' = joined
  BY DEF Written, Meaning
<1>5. filled' \in [RowIds -> FilledRows] /\ joined' \in [RowIds -> SUBSET LinkOptions]
  BY <1>2, <1>4 DEF FilledRows
<1>6. setting = "banners" => (row["position"] # Empty <=> AfterRow(p, row) = "after")
  BY <1>2, TableFields DEF AfterRow
<1>7. setting # "banners" => AfterRow(p, row) # "after"
  BY DEF AfterRow
<1>8. i # NewRow
  BY DEF RowIds, NewRow
<1> HIDE DEF m
<1>9. CASE AfterRow(p, row) = "idle"
  <2>1. Saved(p)
    BY <1>9 DEF Written
  <2>2. PICK s \in Screens :
            /\ screen' = [screen EXCEPT ![p] = s] /\ ScreenHolds(s, "idle") /\ s.form = NoForm
            /\ at' \in [Handlers -> TableLabels] /\ MovesTo(p, "idle") /\ Bounded' /\ Sequential'
            /\ overlapped' = overlapped /\ faults' = faults /\ (~overlapped => OnlyOne(p))
            /\ "idle" \in TableLabels
    BY <1>5, <2>1, SavedIs
  <2>3. setting = "banners" => (row["position"] # Empty <=> "idle" = "after")
    BY <1>6, <1>9
  <2>4. "idle" = "after" => s.form.row = i /\ s.form.fields["position"] = row["position"]
    OBVIOUS
  <2>5. i \notin stale' => joined[i] = meant[i].links /\ \A f \in Fields : AsMeant(f, row[f], m[f])
    BY DEF m
  <2> QED
    BY <1>3, <1>4, <2>2, <2>3, <2>4, <2>5, TableRowWritten
<1>10. CASE AfterRow(p, row) # "idle"
  <2>1. PICK l : l = AfterRow(p, row)
    OBVIOUS
  <2>2. PICK w : w = [Form(p) EXCEPT !.row = i]
    OBVIOUS
  <2>3. SetForm(p, w) /\ Continue(p, l)
    BY <1>10, <2>1, <2>2 DEF Written
  <2>4. l \in {"after", "link"}
    BY <1>10, <2>1 DEF AfterRow
  <2>5. l \in TableLabels /\ at[p] # "idle"
    BY <2>4 DEF TableLabels
  <2>6. /\ at' \in [Handlers -> TableLabels] /\ Bounded' /\ Sequential'
        /\ MovesTo(p, l) /\ faults' = faults /\ overlapped' = overlapped
        /\ ~overlapped => OnlyOne(p)
    BY <1>2, <2>3, <2>5, ContinueMoves
  <2>7. /\ w \in FormRows /\ w.on /\ w.id = Form(p).id /\ w.fields = Form(p).fields
        /\ w.touched = Form(p).touched /\ w.row = i /\ w.busy = Form(p).busy
    BY <1>1, <2>2 DEF FormRows
  <2>8. screen' = [screen EXCEPT ![p] = WithForm(p, w)] /\ WithForm(p, w) \in Screens
    BY <2>3, <2>7, SetFormIs
  <2>9. WithForm(p, w).form = w /\ FormShows(WithForm(p, w))
    BY <1>1, <2>7, FormKept
  <2>10. ScreenHolds(WithForm(p, w), l)
    BY <1>1, <1>8, <2>4, <2>7, <2>9 DEF ScreenHolds
  <2>11. setting = "banners" => (row["position"] # Empty <=> l = "after")
    BY <1>6, <2>1
  <2>12. l = "after" => /\ WithForm(p, w).form.row = i
                        /\ WithForm(p, w).form.fields["position"] = row["position"]
    BY <1>7, <2>1, <2>7, <2>9
  <2>13. i \notin stale' => joined[i] = meant[i].links /\ \A f \in Fields : AsMeant(f, row[f], m[f])
    BY DEF m
  <2> QED
    BY <1>3, <1>4, <2>5, <2>6, <2>8, <2>10, <2>11, <2>12, <2>13, TableRowWritten
<1> QED
  BY <1>9, <1>10

\* What is sent for a field: its value in the form, or a moment moved by the time zone.
LEMMA BodyIs ==
  ASSUME NEW w, w.fields \in [Fields -> Int], zone \in Nat
  PROVE  /\ DOMAIN Body(w) \subseteq Fields
         /\ \A f \in Fields : f \notin DOMAIN Body(w) =>
               \/ f \in Of("secret") /\ w.fields[f] = Empty
               \/ f \in ReadOnlyOnEdit /\ w.id # NewRow
         /\ \A f \in DOMAIN Body(w) :
               /\ Body(w)[f] \in Int
               /\ Body(w)[f] = w.fields[f] \/ (f \in Of("moment") /\ zone # 0)
<1>1. \A f \in DOMAIN Body(w) : f \in Fields
         /\ Body(w)[f] = IF f \in Of("moment") /\ w.fields[f] # Empty THEN w.fields[f] - zone ELSE w.fields[f]
  BY DEF Body
<1>2. \A f \in Fields : f \notin DOMAIN Body(w) =>
               \/ f \in Of("secret") /\ w.fields[f] = Empty
               \/ f \in ReadOnlyOnEdit /\ w.id # NewRow
  BY DEF Body
<1>3. ASSUME NEW f \in DOMAIN Body(w)
      PROVE  /\ Body(w)[f] \in Int
             /\ Body(w)[f] = w.fields[f] \/ (f \in Of("moment") /\ zone # 0)
  <2>1. f \in Fields /\ w.fields[f] \in Int
    BY <1>1
  <2>2. Body(w)[f] = IF f \in Of("moment") /\ w.fields[f] # Empty THEN w.fields[f] - zone ELSE w.fields[f]
    BY <1>1
  <2>3. PICK b : b = Body(w)[f]
    OBVIOUS
  <2>4. PICK v : v = w.fields[f]
    OBVIOUS
  <2>5. v \in Int /\ b = IF f \in Of("moment") /\ v # Empty THEN v - zone ELSE v
    BY <2>1, <2>2, <2>3, <2>4
  <2>6. b \in Int /\ (b = v \/ (f \in Of("moment") /\ zone # 0))
    BY <2>5
  <2> QED
    BY <2>3, <2>4, <2>6
<1> QED
  BY <1>1, <1>2, <1>3

LEMMA CreateOK ==
  ASSUME TablesIInv, NEW p \in Handlers, CreateResource(p)
  PROVE  TablesIInv'
<1> DEFINE body == Body(Form(p))
           row == [f \in Fields |-> Coerced(f, body[f])]
           i == nextId
<1>1. /\ Form(p) \in FormRows /\ Form(p).fields \in [Fields -> Int]
      /\ at[p] = "write" /\ Form(p).id = NewRow
  BY ScreenOf DEF CreateResource, ScreenHolds, FormShows
<1>2. zone \in Nat /\ nextId \in Nat /\ setting \in SettingsNames
  BY DEF TablesIInv, TablesTyped
<1>3. /\ DOMAIN body \subseteq Fields
      /\ \A f \in DOMAIN body : /\ body[f] \in Int
                                /\ body[f] = Form(p).fields[f] \/ (f \in Of("moment") /\ zone # 0)
  BY <1>1, <1>2, BodyIs
<1>4. CASE Fields \ DOMAIN body # {} \/ ~Acceptable(body, body)
  <2>1. Answered(p)
    BY <1>4 DEF CreateResource
  <2> QED
    BY <1>1, <2>1, AnsweredOK
<1>5. CASE ~(Fields \ DOMAIN body # {} \/ ~Acceptable(body, body))
  <2>1. /\ nextId \in RowIds /\ nextId' = nextId + 1 /\ stale' = stale
        /\ Written(p, nextId, row) /\ Acceptable(body, body)
    BY <1>5 DEF CreateResource
  <2>2. DOMAIN body = Fields
    BY <1>3, <1>5
  <2>3. row \in [Fields -> Int]
    BY <1>3, <2>2, CoercedInt
  <2>4. \A f \in Fields : Meaning(p, i)[f] = Form(p).fields[f]
    BY <1>1 DEF Meaning
  <2>5. ASSUME NEW f \in Fields
        PROVE  AsMeant(f, row[f], Meaning(p, i)[f])
    <3>1. AsMeant(f, body[f], Form(p).fields[f])
      BY <1>3, <2>2 DEF AsMeant
    <3> QED
      BY <2>4, <3>1, CoercedAsMeant
  <2>r. RowFree(nextId)
    BY <2>1 DEF TablesIInv
  <2>6. joined[i] = meant[i].links
    BY <1>2, <2>r DEF RowFree
  <2>7. setting = "event_campaigns" => row["startAt"] < row["endAt"]
    BY <1>2, <2>1, TableFields DEF Acceptable
  <2>8. setting = "banners" => row["position"] = Form(p).fields["position"]
    <3> SUFFICES ASSUME setting = "banners" PROVE row["position"] = Form(p).fields["position"]
      OBVIOUS
    <3>1. "position" \in Fields /\ "position" \notin Of("number") \cup Of("moment") \cup Of("secret")
      BY <1>2, TableFields
    <3>2. body["position"] = Form(p).fields["position"]
      BY <1>3, <2>2, <3>1
    <3> QED
      BY <3>1, <3>2 DEF Coerced
  <2>9. nextId' \in Nat /\ nextId <= nextId' /\ nextId < nextId' /\ stale \subseteq stale'
    BY <1>2, <2>1
  <2>10. /\ Form(p).id # NewRow => filled[i] # NoRow
         /\ i \notin stale' => joined[i] = meant[i].links /\ \A f \in Fields : AsMeant(f, row[f], Meaning(p, i)[f])
    BY <1>1, <2>5, <2>6
  <2> HIDE DEF row
  <2> QED
    BY <1>1, <2>1, <2>3, <2>7, <2>8, <2>9, <2>10, WrittenOK
<1> QED
  BY <1>4, <1>5

LEMMA UpdateOK ==
  ASSUME TablesIInv, NEW p \in Handlers, UpdateResource(p)
  PROVE  TablesIInv'
<1> DEFINE i == Form(p).id
           body == Body(Form(p))
           old == [f \in Fields |-> IF f \in DOMAIN body THEN body[f] ELSE filled[i][f]]
           row == [f \in Fields |-> Coerced(f, old[f])]
<1>1. /\ Form(p) \in FormRows /\ Form(p).fields \in [Fields -> Int]
      /\ screen[p].form = Form(p) /\ FormShows(screen[p])
      /\ at[p] = "write" /\ Form(p).id # NewRow
  BY ScreenOf DEF UpdateResource, ScreenHolds, FormShows
<1>2. zone \in Nat /\ nextId \in Nat /\ setting \in SettingsNames /\ filled \in [RowIds -> FilledRows]
  BY DEF TablesIInv, TablesTyped
<1>3. /\ DOMAIN body \subseteq Fields
      /\ \A f \in Fields : f \notin DOMAIN body =>
            \/ f \in Of("secret") /\ Form(p).fields[f] = Empty
            \/ f \in ReadOnlyOnEdit /\ Form(p).id # NewRow
      /\ \A f \in DOMAIN body : /\ body[f] \in Int
                                /\ body[f] = Form(p).fields[f] \/ (f \in Of("moment") /\ zone # 0)
  BY <1>1, <1>2, BodyIs
<1>i. i \in RowIds
  BY <1>1 DEF FormRows
<1>4. CASE filled[i] = NoRow \/ ~Acceptable(body, old)
  <2>1. Answered(p)
    BY <1>4 DEF UpdateResource
  <2> QED
    BY <1>1, <2>1, AnsweredOK
<1>5. CASE ~(filled[i] = NoRow \/ ~Acceptable(body, old))
  <2>1. /\ filled[i] # NoRow /\ nextId' = nextId /\ Acceptable(body, old)
        /\ stale' = IF screen[p].rows[i] = filled[i] THEN stale ELSE stale \cup {i}
        /\ Written(p, i, row)
    BY <1>5 DEF UpdateResource
  <2>2. filled[i] \in [Fields -> Int]
    BY <1>2, <1>i, <2>1 DEF FilledRows
  <2>3. \A f \in Fields : old[f] \in Int
    BY <1>3, <2>2
  <2>4. row \in [Fields -> Int]
    BY <2>3, CoercedInt
  <2>5. i < nextId
    BY <1>2, <1>i, <2>1 DEF TablesIInv, RowFree, RowIds
  <2>6. ASSUME i \notin stale'
        PROVE  joined[i] = meant[i].links /\ \A f \in Fields : AsMeant(f, row[f], Meaning(p, i)[f])
    <3>1. i \notin stale /\ screen[p].rows[i] = filled[i]
      BY <2>1, <2>6
    <3>2. joined[i] = meant[i].links /\ \A f \in Fields : AsMeant(f, filled[i][f], meant[i].fields[f])
      BY <1>i, <2>1, <3>1 DEF TablesIInv, RowMeant
    <3>3. Form(p).touched \cap ReadOnlyOnEdit = {}
          /\ \A f \in Fields \ Form(p).touched : ShowsField(f, filled[i], Form(p).fields[f])
      BY <1>1, <3>1 DEF FormShows
    <3>4. ASSUME NEW f \in Fields
          PROVE  AsMeant(f, old[f], Meaning(p, i)[f])
      <4>1. CASE f \in Form(p).touched
        <5>1. Meaning(p, i)[f] = Form(p).fields[f] /\ f \notin ReadOnlyOnEdit
          BY <3>3, <4>1 DEF Meaning
        <5>2. f \in DOMAIN body \/ (f \in Of("secret") /\ Form(p).fields[f] = Empty)
          BY <1>3, <5>1
        <5> QED
          BY <1>3, <5>1, <5>2 DEF AsMeant
      <4>2. CASE f \notin Form(p).touched
        <5>1. Meaning(p, i)[f] = meant[i].fields[f] /\ ShowsField(f, filled[i], Form(p).fields[f])
          BY <1>1, <3>3, <4>2 DEF Meaning
        <5>2. AsMeant(f, filled[i][f], meant[i].fields[f])
          BY <3>2
        <5>3. CASE f \notin DOMAIN body
          BY <5>1, <5>2, <5>3
        <5>4. CASE f \in DOMAIN body
          <6>1. Form(p).fields[f] # Empty \/ f \notin Of("secret")
            BY <5>4 DEF Body
          <6>2. Form(p).fields[f] = filled[i][f]
            BY <5>1, <6>1 DEF ShowsField
          <6>3. old[f] = filled[i][f] \/ (f \in Of("moment") /\ zone # 0)
            BY <1>3, <5>4, <6>2
          <6> QED
            BY <5>1, <5>2, <6>3 DEF AsMeant
        <5> QED
          BY <5>3, <5>4
      <4> QED
        BY <4>1, <4>2
    <3>5. ASSUME NEW f \in Fields
          PROVE  AsMeant(f, row[f], Meaning(p, i)[f])
      BY <3>4, CoercedAsMeant
    <3> QED
      BY <3>2, <3>5
  <2>7. setting = "event_campaigns" => row["startAt"] < row["endAt"]
    <3> SUFFICES ASSUME setting = "event_campaigns" PROVE row["startAt"] < row["endAt"]
      OBVIOUS
    <3>1. Coerced("startAt", old["startAt"]) < Coerced("endAt", old["endAt"])
      BY <2>1 DEF Acceptable
    <3> QED
      BY <1>2, <3>1, TableFields
  <2>8. setting = "banners" => row["position"] = Form(p).fields["position"]
    <3> SUFFICES ASSUME setting = "banners" PROVE row["position"] = Form(p).fields["position"]
      OBVIOUS
    <3>1. /\ "position" \in Fields /\ "position" \notin Of("number") \cup Of("moment") \cup Of("secret")
          /\ "position" \notin ReadOnlyOnEdit
      BY <1>2, TableFields
    <3>2. "position" \in DOMAIN body
      BY <1>3, <3>1
    <3>3. old["position"] = Form(p).fields["position"]
      BY <1>3, <3>1, <3>2
    <3> QED
      BY <3>1, <3>3 DEF Coerced
  <2>9. nextId' \in Nat /\ nextId <= nextId' /\ i < nextId' /\ stale \subseteq stale'
    BY <1>2, <2>1, <2>5
  <2> HIDE DEF row
  <2> QED
    BY <1>1, <1>i, <2>1, <2>4, <2>6, <2>7, <2>8, <2>9, WrittenOK
<1> QED
  BY <1>4, <1>5

LEMMA AfterWriteOK ==
  ASSUME TablesIInv, NEW p \in Handlers, AfterWrite(p)
  PROVE  TablesIInv'
<1> DEFINE r == Form(p).row
           pos == Form(p).fields["position"]
<1>1. /\ Form(p) \in FormRows /\ screen[p].form = Form(p) /\ at[p] = "after" /\ r \in RowIds
  BY ScreenOf DEF AfterWrite, ScreenHolds, FormRows
<1>2. /\ filled \in [RowIds -> FilledRows] /\ joined \in [RowIds -> SUBSET LinkOptions]
      /\ meant \in [RowIds -> MeantRows] /\ setting \in SettingsNames /\ zone \in Nat /\ nextId \in Nat
  BY DEF TablesIInv, TablesTyped
<1>3. /\ filled' = [i \in RowIds |-> IF Loses(p, i) THEN [filled[i] EXCEPT !["position"] = Empty] ELSE filled[i]]
      /\ meant' = [i \in RowIds |->
                    IF i # r /\ Loses(p, i)
                    THEN [meant[i] EXCEPT !.fields["position"] = Empty] ELSE meant[i]]
      /\ setting' = setting /\ zone' = zone /\ joined' = joined /\ nextId' = nextId /\ stale' = stale
      /\ Saved(p)
  BY DEF AfterWrite
<1>4. ASSUME NEW i \in RowIds
      PROVE  /\ filled'[i] \in FilledRows /\ (filled'[i] = NoRow => filled[i] = NoRow)
             /\ Loses(p, i) => /\ i # r /\ filled[i] # NoRow /\ filled[i] \in [Fields -> Int]
                               /\ filled'[i] = [filled[i] EXCEPT !["position"] = Empty]
             /\ ~Loses(p, i) => filled'[i] = filled[i] /\ meant'[i] = meant[i]
  <2>1. Loses(p, i) => /\ i # r /\ filled[i] # NoRow /\ filled[i] \in [Fields -> Int]
                       /\ filled'[i] = [filled[i] EXCEPT !["position"] = Empty]
    BY <1>2, <1>3 DEF Loses, Holds, FilledRows
  <2>2. ~Loses(p, i) => filled'[i] = filled[i] /\ meant'[i] = meant[i]
    BY <1>3
  <2>3. Loses(p, i) => filled'[i] \in [Fields -> Int]
    BY <2>1 DEF Empty
  <2>4. Loses(p, i) => filled'[i] # NoRow
    <3> SUFFICES ASSUME Loses(p, i), filled'[i] = NoRow PROVE FALSE
      OBVIOUS
    <3>1. DOMAIN filled'[i] = Fields
      BY <2>3
    <3>2. Fields = {}
      BY <3>1 DEF NoRow
    <3>3. filled[i] = NoRow
      BY <2>1, <3>2 DEF NoRow
    <3> QED
      BY <2>1, <3>3
  <2>5. filled'[i] \in FilledRows
    BY <1>2, <2>2, <2>3 DEF FilledRows
  <2> QED
    BY <2>1, <2>2, <2>4, <2>5
<1>5. ASSUME NEW i \in RowIds, Loses(p, i)
      PROVE  \E g \in [Fields -> Int], h \in [Fields -> Int] :
                /\ g = meant[i].fields /\ h = [g EXCEPT !["position"] = Empty]
                /\ meant'[i].fields = h /\ meant'[i].links = meant[i].links
                /\ meant'[i] \in MeantRows
  <2>1. meant[i].fields \in [Fields -> Int] /\ meant[i] \in MeantRows
    BY <1>2, <1>4, <1>5 DEF TablesIInv, RowWhole
  <2>2. PICK g : g = meant[i].fields
    OBVIOUS
  <2>3. PICK h : h = [g EXCEPT !["position"] = Empty]
    OBVIOUS
  <2>4. g \in [Fields -> Int] /\ h \in [Fields -> Int]
    <3>1. g \in [Fields -> Int]
      BY <2>1, <2>2
    <3>2. ASSUME NEW x \in Fields
          PROVE  h[x] \in Int
      BY <2>3, <3>1 DEF Empty
    <3>3. DOMAIN h = Fields /\ h = [x \in DOMAIN h |-> h[x]]
      BY <2>3, <3>1
    <3>4. h \in [Fields -> Int]
      BY <3>2, <3>3
    <3> QED
      BY <3>1, <3>4
  <2>5. meant'[i] = [meant[i] EXCEPT !.fields["position"] = Empty]
    BY <1>3, <1>4, <1>5
  <2>6. meant'[i] = [fields |-> h, links |-> meant[i].links]
    BY <2>1, <2>2, <2>3, <2>5 DEF MeantRows
  <2>7. meant'[i] \in MeantRows
    BY <2>1, <2>4, <2>6 DEF MeantRows, FilledRows
  <2> QED
    BY <2>2, <2>3, <2>4, <2>6, <2>7
<1>6. filled' \in [RowIds -> FilledRows] /\ meant' \in [RowIds -> MeantRows]
  BY <1>2, <1>3, <1>4, <1>5
<1>7. joined' \in [RowIds -> SUBSET LinkOptions] /\ at[p] # "idle"
  BY <1>1, <1>2, <1>3
<1>8. PICK s \in Screens :
            /\ screen' = [screen EXCEPT ![p] = s] /\ ScreenHolds(s, "idle") /\ s.form = NoForm
            /\ at' \in [Handlers -> TableLabels] /\ MovesTo(p, "idle") /\ Bounded' /\ Sequential'
            /\ overlapped' = overlapped /\ faults' = faults /\ (~overlapped => OnlyOne(p))
            /\ "idle" \in TableLabels
  BY <1>3, <1>6, <1>7, SavedIs
<1>9. /\ (screen \in [Handlers -> Screens])'
      /\ (\A q \in Handlers : ScreenHolds(screen[q], at[q]))'
  BY <1>3, <1>8, ScreensHold
<1>10. /\ Fields' = Fields /\ FilledRows' = FilledRows /\ MeantRows' = MeantRows
       /\ Of("secret")' = Of("secret") /\ Of("number")' = Of("number")
       /\ Of("moment")' = Of("moment")
  BY <1>3, TablesSame
<1>11. TablesTyped'
  BY <1>2, <1>3, <1>6, <1>8, <1>9, <1>10 DEF TablesTyped
<1>12. ASSUME NEW i \in RowIds
       PROVE  RowMeant(i)' /\ RowWhole(i)' /\ RowFree(i)' /\ RunsForward(i)'
  <2>1. RowMeant(i) /\ RowWhole(i) /\ RowFree(i) /\ RunsForward(i)
    BY DEF TablesIInv
  <2>2. CASE ~Loses(p, i)
    <3>1. filled'[i] = filled[i] /\ meant'[i] = meant[i]
      BY <1>4, <2>2
    <3>2. RowMeant(i)'
      BY <1>3, <1>10, <2>1, <3>1 DEF RowMeant, AsMeant
    <3>3. RowWhole(i)' /\ RowFree(i)' /\ RunsForward(i)'
      BY <1>3, <1>10, <2>1, <3>1 DEF RowWhole, RowFree, RunsForward
    <3> QED
      BY <3>2, <3>3
  <2>3. CASE Loses(p, i)
    <3>0. PICK g \in [Fields -> Int], h \in [Fields -> Int] :
                /\ g = meant[i].fields /\ h = [g EXCEPT !["position"] = Empty]
                /\ meant'[i].fields = h /\ meant'[i].links = meant[i].links
      BY <1>5, <2>3
    <3>1. /\ filled[i] # NoRow /\ filled[i] \in [Fields -> Int]
          /\ filled'[i] = [filled[i] EXCEPT !["position"] = Empty]
          /\ meant'[i].fields = h /\ meant'[i].links = meant[i].links
          /\ h = [g EXCEPT !["position"] = Empty] /\ g = meant[i].fields
          /\ h \in [Fields -> Int] /\ g \in [Fields -> Int]
      BY <1>4, <2>3, <3>0
    <3>2. ASSUME i \notin stale, NEW f \in Fields
          PROVE  AsMeant(f, filled'[i][f], meant'[i].fields[f])
      <4>1. AsMeant(f, filled[i][f], meant[i].fields[f])
        BY <2>1, <3>1, <3>2 DEF RowMeant
      <4>2. CASE f = "position"
        BY <3>1, <4>2 DEF AsMeant
      <4>3. CASE f # "position"
        BY <3>1, <4>1, <4>3
      <4> QED
        BY <4>2, <4>3
    <3>3. i \notin stale => joined[i] = meant[i].links
      BY <2>1, <3>1 DEF RowMeant
    <3>4. RowMeant(i)'
      BY <1>3, <1>10, <3>1, <3>2, <3>3 DEF RowMeant, AsMeant
    <3>5. RowWhole(i)'
      BY <1>10, <3>1 DEF RowWhole, Empty
    <3>6. RowFree(i)'
      BY <1>3, <2>1, <3>1 DEF RowFree
    <3>7. RunsForward(i)'
      <4> SUFFICES ASSUME setting = "event_campaigns" PROVE filled'[i]["startAt"] < filled'[i]["endAt"]
        BY <1>3 DEF RunsForward
      <4>1. "startAt" \in Fields /\ "endAt" \in Fields
        BY <1>2, TableFields
      <4>2. filled'[i]["startAt"] = filled[i]["startAt"] /\ filled'[i]["endAt"] = filled[i]["endAt"]
        BY <3>1, <4>1
      <4> QED
        BY <2>1, <3>1, <4>2 DEF RunsForward
    <3> QED
      BY <3>4, <3>5, <3>6, <3>7
  <2> QED
    BY <2>2, <2>3
<1>13. PositionsApart'
  <2> SUFFICES ASSUME setting' = "banners", ~overlapped', faults' = 0
               PROVE  /\ \A q \in Handlers : at'[q] # "after"
                      /\ \A i, j \in RowIds : ~SamePlace(i, j)'
    BY DEF PositionsApart
  <2>1. setting = "banners" /\ ~overlapped /\ faults = 0 /\ "position" \in Fields
    BY <1>2, <1>3, <1>8, TableFields
  <2>2. \A q \in Handlers \ {p} : at[q] = "idle" /\ at'[q] = "idle"
    BY <1>8, <2>1 DEF OnlyOne, MovesTo
  <2>3. \A q \in Handlers : at'[q] # "after"
    BY <1>8, <2>2 DEF MovesTo
  <2>4. filled[r] # NoRow => filled[r]["position"] = pos
    BY <1>1, <2>1 DEF TablesIInv, PositionsApart
  <2>5. ASSUME NEW i \in RowIds, NEW j \in RowIds, SamePlace(i, j)'
        PROVE  FALSE
    <3>1. /\ i # j /\ filled'[i] # NoRow /\ filled'[j] # NoRow
          /\ filled'[i]["position"] # Empty /\ filled'[i]["position"] = filled'[j]["position"]
      BY <2>5 DEF SamePlace
    <3>2. \A k \in RowIds : Loses(p, k) => filled'[k]["position"] = Empty
      BY <1>4, <2>1
    <3>3. ~Loses(p, i) /\ ~Loses(p, j)
      BY <3>1, <3>2
    <3>4. filled'[i] = filled[i] /\ filled'[j] = filled[j]
      BY <1>4, <3>3
    <3>5. SamePlace(i, j)
      BY <3>1, <3>4 DEF SamePlace
    <3>6. r \in {i, j}
      BY <2>1, <2>2, <3>5 DEF TablesIInv, PositionsApart
    <3> QED
      BY <2>4, <3>1, <3>3, <3>4, <3>6 DEF Loses, Holds
  <2> QED
    BY <2>3, <2>5
<1> QED
  BY <1>9, <1>11, <1>12, <1>13 DEF TablesIInv

LEMMA PutLinksOK ==
  ASSUME TablesIInv, NEW p \in Handlers, PutLinks(p)
  PROVE  TablesIInv'
<1> DEFINE r == Form(p).row
<1>1. /\ Form(p) \in FormRows /\ screen[p].form = Form(p) /\ at[p] = "link" /\ r \in RowIds
  BY ScreenOf DEF PutLinks, ScreenHolds, FormRows
<1>2. /\ filled \in [RowIds -> FilledRows] /\ joined \in [RowIds -> SUBSET LinkOptions]
      /\ meant \in [RowIds -> MeantRows] /\ setting \in SettingsNames /\ zone \in Nat /\ nextId \in Nat
      /\ meant[r] \in MeantRows /\ Form(p).linked \in SUBSET LinkOptions
  BY <1>1 DEF TablesIInv, TablesTyped, FormRows
<1>3. setting' = setting /\ zone' = zone /\ filled' = filled /\ nextId' = nextId /\ Saved(p)
  BY DEF PutLinks
<1>5. \/ joined' = joined /\ meant' = meant /\ stale' = stale
      \/ /\ filled[r] # NoRow /\ joined' = [joined EXCEPT ![r] = Form(p).linked]
         /\ meant' = [meant EXCEPT ![r].links = Form(p).linked]
         /\ stale \subseteq stale'
  BY DEF PutLinks
<1>6. [meant[r] EXCEPT !.links = Form(p).linked] = [fields |-> meant[r].fields, links |-> Form(p).linked]
      /\ [fields |-> meant[r].fields, links |-> Form(p).linked] \in MeantRows
  BY <1>2 DEF MeantRows
<1>7. /\ joined' \in [RowIds -> SUBSET LinkOptions] /\ meant' \in [RowIds -> MeantRows]
      /\ stale \subseteq stale'
      /\ \A i \in RowIds : meant'[i].fields = meant[i].fields
      /\ \A i \in RowIds : \/ joined'[i] = joined[i] /\ meant'[i].links = meant[i].links
                           \/ filled[i] # NoRow /\ joined'[i] = meant'[i].links
  BY <1>1, <1>2, <1>5, <1>6
<1>8. at[p] # "idle" /\ filled' \in [RowIds -> FilledRows]
  BY <1>1, <1>2, <1>3
<1>9. PICK s \in Screens :
            /\ screen' = [screen EXCEPT ![p] = s] /\ ScreenHolds(s, "idle") /\ s.form = NoForm
            /\ at' \in [Handlers -> TableLabels] /\ MovesTo(p, "idle") /\ Bounded' /\ Sequential'
            /\ overlapped' = overlapped /\ faults' = faults /\ (~overlapped => OnlyOne(p))
            /\ "idle" \in TableLabels
  BY <1>3, <1>7, <1>8, SavedIs
<1>10. /\ (screen \in [Handlers -> Screens])'
       /\ (\A q \in Handlers : ScreenHolds(screen[q], at[q]))'
  BY <1>3, <1>9, ScreensHold
<1>11. /\ Fields' = Fields /\ FilledRows' = FilledRows /\ MeantRows' = MeantRows
       /\ Of("secret")' = Of("secret") /\ Of("number")' = Of("number")
       /\ Of("moment")' = Of("moment")
  BY <1>3, TablesSame
<1>12. TablesTyped'
  BY <1>2, <1>3, <1>7, <1>8, <1>9, <1>10, <1>11 DEF TablesTyped
<1>13. ASSUME NEW i \in RowIds
       PROVE  RowMeant(i)' /\ RowWhole(i)' /\ RowFree(i)' /\ RunsForward(i)'
  <2>1. RowMeant(i) /\ RowWhole(i) /\ RowFree(i) /\ RunsForward(i)
    BY DEF TablesIInv
  <2>2. RowMeant(i)'
    BY <1>3, <1>7, <1>11, <2>1 DEF RowMeant, AsMeant
  <2>3. RowWhole(i)' /\ RowFree(i)' /\ RunsForward(i)'
    BY <1>3, <1>7, <1>11, <2>1 DEF RowWhole, RowFree, RunsForward
  <2> QED
    BY <2>2, <2>3
<1>14. PositionsApart'
  <2> SUFFICES ASSUME setting' = "banners", ~overlapped', faults' = 0
               PROVE  /\ \A q \in Handlers : at'[q] # "after"
                      /\ \A i, j \in RowIds : ~SamePlace(i, j)'
    BY DEF PositionsApart
  <2>1. setting = "banners" /\ ~overlapped /\ faults = 0
    BY <1>3, <1>9
  <2>2. \A q \in Handlers \ {p} : at[q] = "idle" /\ at'[q] = "idle"
    BY <1>9, <2>1 DEF OnlyOne, MovesTo
  <2>3. \A q \in Handlers : at[q] # "after" /\ at'[q] # "after"
    BY <1>1, <1>9, <2>2 DEF MovesTo
  <2>4. ASSUME NEW i \in RowIds, NEW j \in RowIds
        PROVE  ~SamePlace(i, j)'
    <3>1. ~SamePlace(i, j)
      BY <2>1, <2>3 DEF TablesIInv, PositionsApart
    <3> QED
      BY <1>3, <3>1 DEF SamePlace
  <2> QED
    BY <2>3, <2>4
<1> QED
  BY <1>10, <1>12, <1>13, <1>14 DEF TablesIInv

LEMMA DestroyResourceOK ==
  ASSUME TablesIInv, NEW p \in Handlers, DestroyResource(p)
  PROVE  TablesIInv'
<1> DEFINE r == Form(p).row
<1>1. /\ Form(p) \in FormRows /\ screen[p].form = Form(p) /\ at[p] = "destroy" /\ r \in RowIds
  BY ScreenOf DEF DestroyResource, ScreenHolds, FormRows
<1>2. /\ filled \in [RowIds -> FilledRows] /\ joined \in [RowIds -> SUBSET LinkOptions]
      /\ meant \in [RowIds -> MeantRows] /\ setting \in SettingsNames /\ zone \in Nat /\ nextId \in Nat
  BY DEF TablesIInv, TablesTyped
<1>3. /\ setting' = setting /\ zone' = zone /\ nextId' = nextId /\ meant' = meant /\ stale' = stale
      /\ filled' = [filled EXCEPT ![r] = NoRow] /\ joined' = [joined EXCEPT ![r] = {}] /\ Saved(p)
  BY DEF DestroyResource
<1>4. /\ filled' \in [RowIds -> FilledRows] /\ joined' \in [RowIds -> SUBSET LinkOptions]
      /\ filled'[r] = NoRow /\ joined'[r] = {}
      /\ \A i \in RowIds \ {r} : filled'[i] = filled[i] /\ joined'[i] = joined[i]
  BY <1>1, <1>2, <1>3 DEF FilledRows
<1>5. at[p] # "idle"
  BY <1>1
<1>6. PICK s \in Screens :
            /\ screen' = [screen EXCEPT ![p] = s] /\ ScreenHolds(s, "idle") /\ s.form = NoForm
            /\ at' \in [Handlers -> TableLabels] /\ MovesTo(p, "idle") /\ Bounded' /\ Sequential'
            /\ overlapped' = overlapped /\ faults' = faults /\ (~overlapped => OnlyOne(p))
            /\ "idle" \in TableLabels
  BY <1>3, <1>4, <1>5, SavedIs
<1>7. /\ (screen \in [Handlers -> Screens])'
      /\ (\A q \in Handlers : ScreenHolds(screen[q], at[q]))'
  BY <1>3, <1>6, ScreensHold
<1>8. /\ Fields' = Fields /\ FilledRows' = FilledRows /\ MeantRows' = MeantRows
      /\ Of("secret")' = Of("secret") /\ Of("number")' = Of("number")
      /\ Of("moment")' = Of("moment")
  BY <1>3, TablesSame
<1>9. TablesTyped'
  BY <1>2, <1>3, <1>4, <1>6, <1>7, <1>8 DEF TablesTyped
<1>10. ASSUME NEW i \in RowIds
       PROVE  RowMeant(i)' /\ RowWhole(i)' /\ RowFree(i)' /\ RunsForward(i)'
  <2>1. RowMeant(i) /\ RowWhole(i) /\ RowFree(i) /\ RunsForward(i)
    BY DEF TablesIInv
  <2>2. (i = r /\ filled'[i] = NoRow /\ joined'[i] = {})
        \/ (filled'[i] = filled[i] /\ joined'[i] = joined[i])
    BY <1>4
  <2>3. RowMeant(i)'
    BY <1>3, <1>8, <2>1, <2>2 DEF RowMeant, AsMeant
  <2>4. RowWhole(i)' /\ RunsForward(i)'
    BY <1>3, <1>8, <2>1, <2>2 DEF RowWhole, RunsForward
  <2>5. RowFree(i)'
    BY <1>3, <2>1, <2>2 DEF RowFree
  <2> QED
    BY <2>3, <2>4, <2>5
<1>11. PositionsApart'
  <2> SUFFICES ASSUME setting' = "banners", ~overlapped', faults' = 0
               PROVE  /\ \A q \in Handlers : at'[q] # "after"
                      /\ \A i, j \in RowIds : ~SamePlace(i, j)'
    BY DEF PositionsApart
  <2>1. setting = "banners" /\ ~overlapped /\ faults = 0
    BY <1>3, <1>6
  <2>2. \A q \in Handlers \ {p} : at[q] = "idle" /\ at'[q] = "idle"
    BY <1>6, <2>1 DEF OnlyOne, MovesTo
  <2>3. \A q \in Handlers : at[q] # "after" /\ at'[q] # "after"
    BY <1>1, <1>6, <2>2 DEF MovesTo
  <2>4. ASSUME NEW i \in RowIds, NEW j \in RowIds
        PROVE  ~SamePlace(i, j)'
    <3>1. ~SamePlace(i, j)
      BY <2>1, <2>3 DEF TablesIInv, PositionsApart
    <3> QED
      BY <1>4, <3>1 DEF SamePlace
  <2> QED
    BY <2>3, <2>4
<1> QED
  BY <1>7, <1>9, <1>10, <1>11 DEF TablesIInv

\* Every step of the screens and their handlers keeps the invariant.
LEMMA TablesNextOK ==
  ASSUME TablesIInv, [TablesNext]_<<handlerVars, settingsVars>>
  PROVE  TablesIInv'
<1>1. CASE TablesNext
  <2>1. PICK p \in Handlers :
          \/ LoadList(p) \/ CloseModal(p) \/ Save(p) \/ TableDie(p)
          \/ CreateResource(p) \/ UpdateResource(p) \/ AfterWrite(p) \/ PutLinks(p) \/ DestroyResource(p)
          \/ \E i \in RowIds \cup {NewRow} : OpenModal(p, i)
          \/ \E i \in RowIds : Destroy(p, i)
          \/ \E f \in Fields \cap FieldsTouched : \E v \in Settable(f) : Touch(p, f, v)
          \/ \E o \in LinkOptions : Toggle(p, o)
    BY <1>1 DEF TablesNext
  <2> QED
    BY <2>1, LoadListOK, CloseModalOK, SaveOK, TableDieOK, CreateOK, UpdateOK, AfterWriteOK, PutLinksOK,
       DestroyResourceOK, OpenModalOK, DestroyOK, TouchOK, ToggleOK
<1>2. CASE UNCHANGED <<handlerVars, settingsVars>>
  <2>1. /\ setting' = setting /\ zone' = zone /\ filled' = filled /\ joined' = joined
        /\ nextId' = nextId /\ screen' = screen /\ meant' = meant /\ stale' = stale
        /\ at' = at /\ begun' = begun /\ faults' = faults /\ overlapped' = overlapped
    BY <1>2 DEF handlerVars, settingsVars
  <2>2. /\ Fields' = Fields /\ ReadOnlyOnEdit' = ReadOnlyOnEdit /\ Screens' = Screens
        /\ FilledRows' = FilledRows /\ MeantRows' = MeantRows
        /\ Of("secret")' = Of("secret") /\ Of("number")' = Of("number")
        /\ Of("moment")' = Of("moment")
    BY <2>1, TablesSame
  <2>3. TablesTyped'
    BY <2>1, <2>2 DEF TablesIInv, TablesTyped, Bounded, Sequential, OnlyOne
  <2>4. ASSUME NEW q \in Handlers
        PROVE  ScreenHolds(screen[q], at[q])'
    BY <2>1, <2>2 DEF TablesIInv, ScreenHolds, FormShows, ShowsField
  <2>5. ASSUME NEW i \in RowIds
        PROVE  RowMeant(i)' /\ RowWhole(i)' /\ RowFree(i)' /\ RunsForward(i)'
    BY <2>1, <2>2 DEF TablesIInv, RowMeant, AsMeant, RowWhole, RowFree, RunsForward
  <2>6. PositionsApart'
    BY <2>1 DEF TablesIInv, PositionsApart, SamePlace, Form
  <2> QED
    BY <2>3, <2>4, <2>5, <2>6 DEF TablesIInv
<1> QED
  BY <1>1, <1>2

LEMMA TablesInitOK ==
  ASSUME TablesInit
  PROVE  TablesIInv
<1>1. at = Idle /\ begun = 0 /\ faults = 0 /\ Bounded /\ Sequential
  BY InitBounded DEF TablesInit
<1>2. /\ setting \in SettingsNames /\ zone \in ZonesFor(setting)
      /\ filled = [i \in RowIds |-> IF i = 1 THEN Opened(TRUE) ELSE IF i = 2 THEN Opened(FALSE) ELSE NoRow]
      /\ joined = [i \in RowIds |-> {}] /\ nextId = 3 /\ stale = {}
      /\ screen = [p \in Handlers |-> [rows |-> filled, links |-> joined, form |-> NoForm]]
      /\ meant = [i \in RowIds |-> [fields |-> filled[i], links |-> {}]]
  BY DEF TablesInit, TablesIdle
<1>3. zone \in Nat
  BY <1>2, TablesAssumption DEF ZonesFor
<1>4. ASSUME NEW full \in BOOLEAN
      PROVE  Opened(full) \in [Fields -> Int]
  <2>1. ASSUME NEW f \in Fields
        PROVE  Opened(full)[f] \in Int
    BY DEF Opened, Empty
  <2> QED
    BY <2>1 DEF Opened
<1>5. NoRow \in FilledRows
  BY DEF FilledRows
<1>6. \A i \in RowIds : filled[i] \in FilledRows /\ (filled[i] # NoRow => filled[i] \in [Fields -> Int])
  BY <1>2, <1>4 DEF FilledRows
<1>7. NoForm \in FormRows /\ ~NoForm.on
  BY <1>5 DEF NoForm, FormRows
<1>8. /\ filled \in [RowIds -> FilledRows] /\ joined \in [RowIds -> SUBSET LinkOptions]
      /\ meant \in [RowIds -> MeantRows]
  BY <1>2, <1>6 DEF MeantRows
<1>9. [rows |-> filled, links |-> joined, form |-> NoForm] \in Screens
  BY <1>7, <1>8 DEF Screens
<1>10. TablesTyped
  BY <1>1, <1>2, <1>3, <1>8, <1>9 DEF TablesTyped, Idle, TableLabels
<1>11. ASSUME NEW p \in Handlers
       PROVE  ScreenHolds(screen[p], at[p])
  BY <1>1, <1>2, <1>7 DEF ScreenHolds, Idle
<1>12. ASSUME NEW i \in RowIds
       PROVE  RowMeant(i) /\ RowWhole(i) /\ RowFree(i) /\ RunsForward(i)
  <2>1. RowMeant(i)
    BY <1>2 DEF RowMeant, AsMeant
  <2>2. RowWhole(i)
    BY <1>2, <1>6 DEF RowWhole
  <2>3. RowFree(i)
    <3>1. i >= 3 => i # 1 /\ i # 2
      BY DEF RowIds
    <3>2. meant[i] = [fields |-> filled[i], links |-> {}] /\ joined[i] = {}
      BY <1>2
    <3>3. meant[i].links = {}
      BY <3>2
    <3>4. i >= 3 => filled[i] = NoRow
      BY <1>2, <3>1
    <3> QED
      BY <1>2, <3>2, <3>3, <3>4 DEF RowFree
  <2>4. RunsForward(i)
    <3> SUFFICES ASSUME setting = "event_campaigns", filled[i] # NoRow
                 PROVE  filled[i]["startAt"] < filled[i]["endAt"]
      BY DEF RunsForward
    <3>1. Types = MenuTables["event_campaigns"]
      BY <1>2 DEF Types, FieldsByType, MenuTables
    <3>2. Of("flag") = {}
      BY <3>1 DEF Of, MenuTables
    <3>3. "startAt" \in Fields /\ "endAt" \in Fields
      BY <1>2, TableFields
    <3>4. Nullable = {"limitedStickerTemplateIds"} /\ Of("list") = {}
      <4>1. setting \in DOMAIN NullableMenus /\ setting \notin DOMAIN NullableSchemas
            /\ NullableMenus["event_campaigns"] = {"limitedStickerTemplateIds"}
        BY DEF NullableMenus, NullableSchemas
      <4>2. Nullable = {"limitedStickerTemplateIds"}
        BY <4>1 DEF Nullable
      <4>3. Of("list") = {}
        BY <3>1 DEF Of, MenuTables
      <4> QED
        BY <4>2, <4>3
    <3>5. Opened(TRUE)["startAt"] = 4 /\ Opened(TRUE)["endAt"] = 6
      BY <3>2, <3>3, <3>4 DEF Opened
    <3>6. Opened(FALSE)["startAt"] = 4 /\ Opened(FALSE)["endAt"] = 6
      BY <3>2, <3>3, <3>4 DEF Opened
    <3>7. filled[i] = Opened(TRUE) \/ filled[i] = Opened(FALSE)
      BY <1>2
    <3>8. filled[i]["startAt"] = 4 /\ filled[i]["endAt"] = 6
      BY Zenon, <3>5, <3>6, <3>7
    <3> QED
      BY <3>8
  <2> QED
    BY <2>1, <2>2, <2>3, <2>4
<1>13. PositionsApart
  <2> SUFFICES ASSUME setting = "banners"
               PROVE  /\ \A q \in Handlers : at[q] # "after"
                      /\ \A i, j \in RowIds : ~SamePlace(i, j)
    BY DEF PositionsApart
  <2>1. \A q \in Handlers : at[q] # "after"
    BY <1>1 DEF Idle
  <2>2. Opened(FALSE)["position"] = Empty
    <3>1. "position" \in Fields
      BY <1>2, TableFields
    <3>2. Types = MenuTables["banners"]
      BY <1>2 DEF Types, FieldsByType, MenuTables
    <3>3. Of("flag") = {}
      BY <3>2 DEF Of, MenuTables
    <3>4. setting \in DOMAIN NullableMenus /\ NullableMenus[setting] = {"name", "mainPictureUrl", "position"}
      BY DEF NullableMenus
    <3>5. "position" \in Nullable
      BY <3>4 DEF Nullable, NullableSchemas
    <3> QED
      BY <3>1, <3>3, <3>5 DEF Opened
  <2>3. \A i, j \in RowIds : ~SamePlace(i, j)
    BY <1>2, <2>2 DEF SamePlace
  <2> QED
    BY <2>1, <2>3
<1> QED
  BY <1>10, <1>11, <1>12, <1>13 DEF TablesIInv

\* At rest, rows are as meant.
LEMMA TablesIInvMeant ==
  ASSUME TablesIInv
  PROVE  SavedAsMeant
<1>1. ASSUME NEW i \in RowIds \ stale, filled[i] # NoRow
      PROVE  /\ \A f \in Fields : AsMeant(f, filled[i][f], meant[i].fields[f])
             /\ joined[i] = meant[i].links
  BY <1>1 DEF TablesIInv, RowMeant
<1>2. ASSUME setting = "event_campaigns", NEW i \in RowIds, filled[i] # NoRow
      PROVE  filled[i]["startAt"] < filled[i]["endAt"]
  BY <1>2 DEF TablesIInv, RunsForward
<1>3. ASSUME setting = "banners", Undisturbed, NEW i \in RowIds, NEW j \in RowIds,
             i # j, filled[i] # NoRow, filled[j] # NoRow, filled[i]["position"] # Empty,
             filled[i]["position"] = filled[j]["position"]
      PROVE  FALSE
  <2>1. SamePlace(i, j)
    BY <1>3 DEF SamePlace
  <2>2. PICK p \in Handlers : at[p] = "after"
    BY <1>3, <2>1 DEF TablesIInv, PositionsApart, Undisturbed
  <2> QED
    BY <1>3, <2>2 DEF Undisturbed, AtRest, Idle
<1> QED
  BY <1>1, <1>2, <1>3 DEF SavedAsMeant

-----------------------------------------------------------------------------
(* The seed script *)

SampleLabels == {"user", "settings", "blanks", "systemRoom", "adminRoom", "extras", "next"}
PastLabels == {"order", "orderRoom", "link", "book", "attendance", "credit"}
SeedPhases == Reference \cup Samples
RunLabels == SeedPhases \cup SampleLabels \cup PastLabels \cup {"lastChat"}
SeedLabels == {"idle", "system"} \cup RunLabels

\* The places of the phases.
PhaseNo(t) == CASE t = "company" -> 1 [] t = "branches" -> 2 [] t = "menus" -> 3
           [] t = "customerLevels" -> 4 [] t = "attributes" -> 5 [] t = "preferences" -> 6
           [] t = "balance" -> 7 [] t = "admins" -> 8 [] t = "rules" -> 9 [] t = "venues" -> 10
           [] t = "gifts" -> 11 [] t = "notices" -> 12 [] t = "chats" -> 13 [] t = "posts" -> 14
           [] OTHER -> 15

\* The phase that comes next for a run at l, with account i.
NextPhase(l, i) ==
    IF l \in SampleLabels THEN IF i <= 6 THEN 9 ELSE 13
    ELSE IF l \in PastLabels \cup {"lastChat"} THEN 14 ELSE PhaseNo(l)

Things == {"settings", "blanks", "systemRoom", "adminRoom", "extras"}
SampleRows == [type : {"admin", "cast", "inviter", "customer", "operator"},
               has : SUBSET Things, support : SUBSET Nat]
PastRows == [fee : Nat, casts : {2} \X SampleCasts, room : BOOLEAN,
             booked : SUBSET {1, 2}, linked : SUBSET {1, 2}]
SeedPlaces == [account : DOMAIN Roster, order : Nat, cast : {1, 2}]

SeedTyped ==
    /\ at \in [Handlers -> SeedLabels] /\ faults \in Nat
    /\ production \in BOOLEAN /\ nextUser \in Nat \ {0} /\ completed \in Nat
    /\ seeded \in [SeedPhases -> Nat]
    /\ accounts \in Seq(SampleRows) /\ pastOrders \in Seq(PastRows)
    /\ wallet \in [DOMAIN Roster -> Nat]
    /\ reached \in [Handlers -> SeedPlaces]

\* The phases before the n-th have been written, once.
WrittenOnce(n) == \A t \in SeedPhases : seeded[t] = IF PhaseNo(t) < n THEN 1 ELSE 0

\* Accounts: the i-th is as it should be; what it has when a run is at l.
WellMade(i) ==
    /\ accounts[i].type = Roster[i] /\ Complete(i)
    /\ Roster[i] # "admin" => accounts[i].support = {1}

AllMade(n) == Len(accounts) = n /\ \A i \in 1..n : WellMade(i)

HasAt(l) ==
    CASE l = "settings" -> {} [] l = "blanks" -> {"settings"} [] l = "systemRoom" -> {"settings", "blanks"}
      [] l = "adminRoom" -> {"settings", "blanks", "systemRoom"}
      [] OTHER -> {"settings", "blanks", "systemRoom", "adminRoom"}

InMaking(l, i) ==
    /\ Len(accounts) = i /\ \A j \in 1..i - 1 : WellMade(j)
    /\ accounts[i].type = Roster[i]
    /\ l = "next" => WellMade(i)
    /\ l # "next" => accounts[i].has = HasAt(l)
    /\ l = "adminRoom" => Roster[i] # "admin"
    /\ l = "extras" => HasExtras(i) /\ accounts[i].support = {1}

AccountsAt(l, i) ==
    /\ l \in Reference \cup {"admins"} => accounts = <<>> /\ i = 1
    /\ l = "user" => AllMade(i - 1)
    /\ l \in SampleLabels \ {"user"} => InMaking(l, i)
    /\ l \in {"rules", "venues", "gifts", "notices"} => AllMade(6) /\ i = 7
    /\ l \in PastLabels \cup {"chats", "lastChat", "posts", "friendships"} => AllMade(Len(Roster))

\* Orders: the o-th is as it should be; what the last one has when a run is at l for cast c.
WellSettled(o) == pastOrders[o].room /\ pastOrders[o].booked = {1, 2} /\ pastOrders[o].linked = {1, 2}

LastAt(l, c) ==
    LET o == pastOrders[Len(pastOrders)]
    IN  /\ o.room = (l \notin {"orderRoom", "link"})
        /\ o.booked = IF l \in {"attendance", "credit"} THEN 1..c ELSE 1..c - 1
        /\ o.linked = IF l = "credit" THEN 1..c ELSE 1..c - 1
        /\ l \in {"orderRoom", "link"} => c = 1

OrdersAt(l, p) ==
    /\ l \notin PastLabels \cup {"lastChat", "posts", "friendships"} => pastOrders = <<>>
    /\ l \in {"lastChat", "posts", "friendships"} => Len(pastOrders) = SampleOrders
    /\ l = "order" => Len(pastOrders) < SampleOrders
    /\ \A o \in DOMAIN pastOrders :
          o < Len(pastOrders) \/ l \notin PastLabels \ {"order"} => WellSettled(o)
    /\ l \in PastLabels \ {"order"} =>
          /\ p.order = Len(pastOrders) /\ p.order \in 1..SampleOrders
          /\ LastAt(l, p.cast)

\* What is booked for an account and not yet credited.
Uncredited(l, p, i) ==
    IF l \in {"attendance", "credit"} /\ pastOrders[p.order].casts[p.cast] = i
    THEN pastOrders[p.order].fee ELSE 0

SeedProgress(l, p) ==
    /\ l \notin Reference => ~production
    /\ WrittenOnce(NextPhase(l, p.account))
    /\ AccountsAt(l, p.account)
    /\ OrdersAt(l, p)
    /\ \A i \in DOMAIN Roster : wallet[i] + Uncredited(l, p, i) = EarnedBy(i)

\* A run has been through.
SeededAll ==
    /\ WrittenOnce(IF production THEN 8 ELSE 16)
    /\ ~production =>
          /\ AllMade(Len(Roster)) /\ Len(pastOrders) = SampleOrders
          /\ \A o \in DOMAIN pastOrders : WellSettled(o)
          /\ \A i \in DOMAIN Roster : wallet[i] = EarnedBy(i)

SeedRuns(h) == at[h] \in RunLabels

\* Only the run that drew id 1 goes on.
SeedIInv ==
    /\ SeedTyped
    /\ \A h \in Handlers : at[h] = "system" => reached[h] = Start
    /\ \A g, h \in Handlers : SeedRuns(g) /\ SeedRuns(h) => g = h
    /\ \A h \in Handlers : SeedRuns(h) =>
          nextUser > 1 /\ 1 \in systems /\ completed = 0 /\ SeedProgress(at[h], reached[h])
    /\ (\A h \in Handlers : ~SeedRuns(h)) =>
          \/ nextUser = 1 /\ completed = 0 /\ SeedProgress("company", Start)
          \/ nextUser > 1 /\ completed = 1 /\ 1 \in systems /\ SeededAll
          \/ /\ nextUser > 1 /\ completed = 0 /\ faults > 0
             /\ \A t \in SeedPhases : seeded[t] <= 1
             /\ seeded["company"] = 1 => 1 \in systems

LEMMA JoinedSeq ==
  ASSUME NEW R, NEW s \in Seq(R), NEW t \in Seq(R)
  PROVE  /\ s \o t \in Seq(R) /\ Len(s \o t) = Len(s) + Len(t)
         /\ \A i \in 1..Len(s) : (s \o t)[i] = s[i]
         /\ \A i \in 1..Len(s) + Len(t) : i > Len(s) => (s \o t)[i] = t[i - Len(s)]
<1>1. s \o t \in Seq(R)
  OBVIOUS
<1>2. Len(s \o t) = Len(s) + Len(t)
  OBVIOUS
<1>3. \A i \in 1..Len(s) : (s \o t)[i] = s[i]
  OBVIOUS
<1>4. \A i \in 1..Len(s) + Len(t) : i > Len(s) => (s \o t)[i] = t[i - Len(s)]
  OBVIOUS
<1> QED
  BY <1>1, <1>2, <1>3, <1>4

LEMMA SeedSets ==
  /\ DOMAIN Roster = 1..Len(Roster) /\ Len(Roster) \in Nat /\ Len(Roster) > 7
  /\ Roster[1] = "admin" /\ \A i \in DOMAIN Roster : i # 1 => Roster[i] # "admin"
  /\ \A i \in DOMAIN Roster : Roster[i] \in {"admin", "cast", "inviter", "customer", "operator"}
  /\ Len(Named) = 6 /\ SampleOrders \in Nat
<1>1. PICK n, pairs : n = 2 * SamplePairs
                      /\ pairs = [i \in 1..n |-> IF i % 2 = 1 THEN "cast" ELSE "customer"]
  OBVIOUS
<1>2. n \in Nat /\ n > 1 /\ SampleOrders \in Nat
  BY <1>1, SeedAssumption
<1>3. /\ pairs \in Seq({"cast", "customer"}) /\ Len(pairs) = n
      /\ \A i \in 1..n : pairs[i] \in {"cast", "customer"}
  BY <1>1, <1>2
<1>4. /\ Len(Named) = 6 /\ Named[1] = "admin"
      /\ \A i \in 1..6 : Named[i] \in {"admin", "cast", "inviter", "customer", "operator"}
      /\ \A i \in 2..6 : Named[i] # "admin"
  BY DEF Named
<1>5. Named \in Seq({"admin", "cast", "inviter", "customer", "operator"})
  BY DEF Named
<1>6. Roster = Named \o pairs
  BY <1>1 DEF Roster
<1>7. /\ Len(Roster) = 6 + n /\ DOMAIN Roster = 1..6 + n
      /\ \A i \in 1..6 : Roster[i] = Named[i]
      /\ \A i \in 7..6 + n : Roster[i] = pairs[i - 6]
  <2>1. PICK s, R : s = Named /\ R = {"admin", "cast", "inviter", "customer", "operator"}
    OBVIOUS
  <2>2. s \in Seq(R) /\ pairs \in Seq(R) /\ Len(s) = 6 /\ Len(pairs) = n
    BY <1>3, <1>4, <1>5, <2>1
  <2>3. PICK j : j = s \o pairs
    OBVIOUS
  <2>4. /\ j \in Seq(R) /\ Len(j) = Len(s) + Len(pairs)
        /\ \A i \in 1..Len(s) : j[i] = s[i]
        /\ \A i \in 1..Len(s) + Len(pairs) : i > Len(s) => j[i] = pairs[i - Len(s)]
    BY <2>2, <2>3, JoinedSeq
  <2>5. Len(j) = 6 + n /\ DOMAIN j = 1..6 + n /\ \A i \in 1..6 : j[i] = s[i]
    BY <2>2, <2>4
  <2>6. \A i \in 7..6 + n : j[i] = pairs[i - 6]
    BY <1>2, <2>2, <2>4
  <2> QED
    BY <1>6, <2>1, <2>3, <2>5, <2>6
<1>8. \A i \in 7..6 + n : Roster[i] \in {"cast", "customer"}
  BY <1>2, <1>3, <1>7
<1>9. \A i \in 1..6 + n : i \in 1..6 \/ i \in 7..6 + n
  BY <1>2
<1> QED
  BY <1>2, <1>4, <1>7, <1>8, <1>9

LEMMA OneAdmin ==
  ASSUME NEW n \in 1..Len(Roster)
  PROVE  Admins(n) = {1}
BY SeedSets DEF Admins

LEMMA ExtrasForMembers ==
  ASSUME NEW i \in DOMAIN Roster
  PROVE  /\ i > 6 => HasExtras(i)
         /\ Roster[i] = "admin" => ~HasExtras(i)
BY SeedSets DEF HasExtras

-----------------------------------------------------------------------------
(* What the rows of the settled orders say an account has earned *)

BookedIn(r, i) == {x \in (DOMAIN r) \X {1, 2} : x[2] \in r[x[1]].booked /\ r[x[1]].casts[x[2]] = i}
FeesIn(r, i) == [x \in BookedIn(r, i) |-> r[x[1]].fee]
EarnedIn(r, i) == SumOver(FeesIn(r, i), BookedIn(r, i))

LEMMA EarnedByRows == \A i : EarnedBy(i) = EarnedIn(pastOrders, i)
<1> SUFFICES ASSUME NEW i PROVE EarnedBy(i) = EarnedIn(pastOrders, i)
  OBVIOUS
<1>1. DOMAIN FeesIn(pastOrders, i) = BookedIn(pastOrders, i)
  BY DEF FeesIn
<1>2. EarnedBy(i) = FoldFunction(LAMBDA m, n : m + n, 0, FeesIn(pastOrders, i))
  BY DEF EarnedBy, FeesIn, BookedIn
<1> QED
  BY <1>1, <1>2, Zenon DEF FoldFunction, SumOver, EarnedIn

LEMMA EarnedByRowsThen == \A i : EarnedBy(i)' = EarnedIn(pastOrders', i)
<1>1. (\A i : EarnedBy(i) = EarnedIn(pastOrders, i))'
  BY EarnedByRows, PTL
<1> QED
  BY <1>1

LEMMA BookedFinite ==
  ASSUME NEW r \in Seq(PastRows), NEW i
  PROVE  /\ IsFiniteSet(BookedIn(r, i))
         /\ \A x \in BookedIn(r, i) : FeesIn(r, i)[x] \in Nat
<1>1. IsFiniteSet(DOMAIN r)
  <2>1. DOMAIN r = 1..Len(r) /\ Len(r) \in Nat
    OBVIOUS
  <2> QED
    BY <2>1, FS_Interval
<1>2. IsFiniteSet({1, 2})
  <2>1. {1, 2} = 1..2
    OBVIOUS
  <2>2. 1 \in Int /\ 2 \in Int
    OBVIOUS
  <2>3. IsFiniteSet(1..2)
    BY <2>2, FS_Interval, Zenon
  <2> QED
    BY <2>1, <2>3
<1>3. IsFiniteSet((DOMAIN r) \X {1, 2})
  BY <1>1, <1>2, FS_Product
<1>4. IsFiniteSet(BookedIn(r, i))
  BY <1>3, FS_Subset DEF BookedIn
<1>5. \A o \in DOMAIN r : r[o].fee \in Nat
  <2>1. \A o \in DOMAIN r : r[o] \in PastRows
    OBVIOUS
  <2> QED
    BY <2>1 DEF PastRows
<1> QED
  BY <1>4, <1>5 DEF BookedIn, FeesIn

\* Nothing is booked, or one more.
LEMMA SameEarnings ==
  ASSUME NEW r, NEW q, NEW i, BookedIn(q, i) = BookedIn(r, i),
         \A x \in BookedIn(r, i) : q[x[1]].fee = r[x[1]].fee
  PROVE  EarnedIn(q, i) = EarnedIn(r, i)
<1>1. FeesIn(q, i) = FeesIn(r, i)
  BY DEF FeesIn
<1> QED
  BY <1>1 DEF EarnedIn

LEMMA MoreEarnings ==
  ASSUME NEW r \in Seq(PastRows), NEW q \in Seq(PastRows), NEW i, NEW y, y \notin BookedIn(r, i),
         BookedIn(q, i) = BookedIn(r, i) \cup {y},
         \A x \in BookedIn(r, i) : q[x[1]].fee = r[x[1]].fee
  PROVE  EarnedIn(q, i) = EarnedIn(r, i) + q[y[1]].fee
<1>1. PICK S, T, f, g : S = BookedIn(r, i) /\ T = BookedIn(q, i) /\ f = FeesIn(r, i) /\ g = FeesIn(q, i)
  OBVIOUS
<1>2. /\ IsFiniteSet(S) /\ IsFiniteSet(T)
      /\ (\A x \in T : g[x] \in Int) /\ (\A x \in S : f[x] \in Int)
  <2>1. IsFiniteSet(S) /\ \A x \in S : f[x] \in Nat
    BY <1>1, BookedFinite
  <2>2. IsFiniteSet(T) /\ \A x \in T : g[x] \in Nat
    BY <1>1, BookedFinite
  <2> QED
    BY <2>1, <2>2
<1>3. y \in T /\ T \ {y} = S
  BY <1>1
<1>4. SumOver(g, T) = g[y] + SumOver(g, T \ {y})
  BY <1>2, <1>3, SumRemove
<1>5. \A x \in S : g[x] = f[x]
  BY <1>1 DEF FeesIn
<1>6. SumOver(g, S) = SumOver(f, S)
  BY <1>2, <1>5, SumSame
<1>7. SumOver(f, S) \in Int
  BY <1>2, SumInt
<1>10. SumOver(g, T) = g[y] + SumOver(g, S)
  BY <1>3, <1>4
<1>8. g[y] = q[y[1]].fee /\ g[y] \in Int
  BY <1>1, <1>2, <1>3 DEF FeesIn
<1>9. EarnedIn(r, i) = SumOver(f, S) /\ EarnedIn(q, i) = SumOver(g, T)
  BY <1>1 DEF EarnedIn
<1> QED
  BY <1>6, <1>7, <1>8, <1>9, <1>10

\* Without orders nobody has earned anything.
LEMMA NothingEarned ==
  ASSUME NEW i
  PROVE  EarnedIn(<<>>, i) = 0
<1>1. BookedIn(<<>>, i) = {}
  BY DEF BookedIn
<1> QED
  BY <1>1, FS_EmptySet, SumZero DEF EarnedIn

-----------------------------------------------------------------------------
(* What the steps have in common *)

LEMMA SeedInitOK ==
  ASSUME HandlersInit, SeedIdle, production \in BOOLEAN
  PROVE  SeedIInv
<1>1. at = [h \in Handlers |-> "idle"] /\ faults = 0
  BY DEF HandlersInit, Idle
<1>2. /\ nextUser = 1 /\ systems = {} /\ seeded = [t \in SeedPhases |-> 0]
      /\ accounts = <<>> /\ pastOrders = <<>> /\ wallet = [i \in DOMAIN Roster |-> 0]
      /\ reached = [h \in Handlers |-> Start] /\ completed = 0
  BY DEF SeedIdle, SeedPhases
<1>3. Start \in SeedPlaces /\ Start.account = 1
  BY SeedSets DEF Start, SeedPlaces
<1>4. SeedTyped
  BY <1>1, <1>2, <1>3 DEF SeedTyped, SeedLabels
<1>5. \A h \in Handlers : at[h] = "idle" /\ ~SeedRuns(h)
  BY <1>1 DEF SeedRuns, RunLabels, SeedPhases, Reference, Samples, SampleLabels, PastLabels
<1>6. WrittenOnce(NextPhase("company", 1))
  <2>1. NextPhase("company", 1) = 1
    BY DEF NextPhase, PhaseNo, SampleLabels, PastLabels
  <2>2. \A t \in SeedPhases : ~(PhaseNo(t) < 1)
    BY DEF PhaseNo
  <2> QED
    BY <1>2, <2>1, <2>2 DEF WrittenOnce
<1>7. AccountsAt("company", 1)
  BY <1>2 DEF AccountsAt, Reference, SampleLabels, PastLabels
<1>8. OrdersAt("company", Start)
  BY <1>2 DEF OrdersAt, PastLabels
<1>9. \A i \in DOMAIN Roster : wallet[i] + Uncredited("company", Start, i) = EarnedBy(i)
  <2>1. \A i \in DOMAIN Roster : EarnedBy(i) = 0
    BY <1>2, EarnedByRows, NothingEarned
  <2> QED
    BY <1>2, <2>1 DEF Uncredited
<1>10. SeedProgress("company", Start)
  BY <1>3, <1>6, <1>7, <1>8, <1>9 DEF SeedProgress, Reference
<1> QED
  BY <1>2, <1>4, <1>5, <1>10 DEF SeedIInv

\* A run that goes on takes the others along: they are idle or about to look.
LEMMA RunGoesOn ==
  ASSUME SeedIInv, NEW h \in Handlers, SeedRuns(h), NEW l \in RunLabels, MovesTo(h, l),
         nextUser' >= nextUser, systems' = systems, completed' = completed, SeedTyped',
         \A g \in Handlers \ {h} : reached'[g] = reached[g],
         SeedProgress(l, reached[h])'
  PROVE  SeedIInv'
<1>1. \A g \in Handlers \ {h} : ~SeedRuns(g) /\ ~SeedRuns(g)'
  BY DEF SeedIInv, SeedRuns, MovesTo
<1>2. nextUser > 1 /\ 1 \in systems /\ completed = 0
  BY DEF SeedIInv
<1>3. nextUser' > 1 /\ 1 \in systems' /\ completed' = 0
  BY <1>2 DEF SeedIInv, SeedTyped
<1>4. at'[h] = l /\ SeedRuns(h)'
  BY DEF SeedRuns, MovesTo
<1>5. l # "system"
  BY DEF RunLabels, SeedPhases, Reference, Samples, SampleLabels, PastLabels
<1>6. \A g \in Handlers : at'[g] = "system" => reached'[g] = Start
  BY <1>4, <1>5 DEF SeedIInv, MovesTo
<1>7. \A g, k \in Handlers : SeedRuns(g)' /\ SeedRuns(k)' => g = k
  BY <1>1
<1>8. SeedProgress(at[h], reached[h])'
  BY <1>4
<1>9. \A g \in Handlers : SeedRuns(g)' => SeedProgress(at[g], reached[g])'
  BY <1>1, <1>8
<1> QED
  BY <1>3, <1>4, <1>6, <1>7, <1>9 DEF SeedIInv

\* It is the only one that can get through.
LEMMA RunEnds ==
  ASSUME SeedIInv, NEW h \in Handlers, SeedRuns(h), MovesTo(h, "idle"),
         nextUser' = nextUser, systems' = systems, completed' = 1, SeedTyped',
         reached' = reached, SeededAll'
  PROVE  SeedIInv'
<1>1. \A g \in Handlers \ {h} : ~SeedRuns(g) /\ ~SeedRuns(g)'
  BY DEF SeedIInv, SeedRuns, MovesTo
<1>2. nextUser' > 1 /\ 1 \in systems'
  BY DEF SeedIInv
<1>3. ~SeedRuns(h)'
  BY DEF SeedRuns, MovesTo, RunLabels, SeedPhases, Reference, Samples, SampleLabels, PastLabels
<1>4. \A g \in Handlers : at'[g] = "system" => reached'[g] = Start
  BY DEF SeedIInv, MovesTo
<1> QED
  BY <1>1, <1>2, <1>3, <1>4 DEF SeedIInv

-----------------------------------------------------------------------------
(* The phases *)

LEMMA PhasesDiffer ==
  ASSUME NEW s \in SeedPhases, NEW t \in SeedPhases, PhaseNo(s) = PhaseNo(t)
  PROVE  s = t
BY DEF SeedPhases, Reference, Samples, PhaseNo

LEMMA PhasesCounted ==
  ASSUME NEW t \in SeedPhases
  PROVE  /\ PhaseNo(t) \in 1..15 /\ NextPhase(t, 1) = PhaseNo(t)
         /\ \A i : NextPhase(t, i) = PhaseNo(t)
         /\ t \in RunLabels /\ t \in SeedLabels /\ t \notin SampleLabels \cup PastLabels \cup {"lastChat"}
<1>1. t \notin SampleLabels \cup PastLabels \cup {"lastChat"}
  BY DEF SeedPhases, Reference, Samples, SampleLabels, PastLabels
<1>2. PhaseNo(t) \in 1..15
  BY DEF PhaseNo
<1> QED
  BY <1>1, <1>2 DEF NextPhase, RunLabels, SeedLabels

\* A handler of the script goes on.
LEMMA SeedMoves ==
  ASSUME SeedTyped, NEW h \in Handlers, NEW l \in SeedLabels, Continue(h, l)
  PROVE  /\ at' \in [Handlers -> SeedLabels] /\ MovesTo(h, l)
         /\ faults' = faults /\ faults' \in Nat
<1>1. at' = [at EXCEPT ![h] = l] /\ faults' = faults
  BY DEF Continue, Goto
<1> QED
  BY <1>1 DEF SeedTyped, MovesTo

\* What a run knows.
LEMMA RunKnows ==
  ASSUME SeedIInv, NEW h \in Handlers, NEW l \in RunLabels, at[h] = l
  PROVE  /\ SeedTyped /\ SeedRuns(h) /\ nextUser > 1 /\ 1 \in systems /\ completed = 0
         /\ SeedProgress(l, reached[h]) /\ reached[h] \in SeedPlaces
<1>1. SeedRuns(h)
  BY DEF SeedRuns
<1> QED
  BY <1>1 DEF SeedIInv, SeedTyped

\* The rows of a phase are written once.
LEMMA PhaseWritten ==
  ASSUME SeedTyped, NEW t \in SeedPhases, WrittenOnce(PhaseNo(t)), seeded' = [seeded EXCEPT ![t] = @ + 1],
         NEW m \in Nat, m = PhaseNo(t) + 1
  PROVE  WrittenOnce(m)' /\ seeded' \in [SeedPhases -> Nat]
<1>1. seeded \in [SeedPhases -> Nat]
  BY DEF SeedTyped
<1>2. ASSUME NEW s \in SeedPhases
      PROVE  seeded'[s] = IF PhaseNo(s) < m THEN 1 ELSE 0
  <2>1. PhaseNo(s) \in 1..15 /\ PhaseNo(t) \in 1..15
    BY PhasesCounted
  <2>2. CASE s = t
    <3>1. seeded[t] = 0
      BY <2>1 DEF WrittenOnce
    <3> QED
      BY <1>1, <2>1, <2>2, <3>1
  <2>3. CASE s # t
    <3>1. PhaseNo(s) # PhaseNo(t)
      BY <2>3, PhasesDiffer
    <3>2. seeded'[s] = seeded[s]
      BY <1>1, <2>3
    <3> QED
      BY <2>1, <3>1, <3>2 DEF WrittenOnce
  <2> QED
    BY <2>2, <2>3
<1>3. seeded' \in [SeedPhases -> Nat]
  BY <1>1
<1> QED
  BY <1>2, <1>3 DEF WrittenOnce

\* The accounts and orders stay as they are.
LEMMA SameRows ==
  ASSUME UNCHANGED <<accounts, pastOrders>>, NEW l, NEW p, NEW i
  PROVE  /\ AccountsAt(l, i) => AccountsAt(l, i)'
         /\ OrdersAt(l, p) => OrdersAt(l, p)'
         /\ EarnedBy(i)' = EarnedBy(i)
<1>1. EarnedBy(i)' = EarnedBy(i)
  BY EarnedByRows, EarnedByRowsThen, Zenon
<1>2. AccountsAt(l, i) => AccountsAt(l, i)'
  BY DEF AccountsAt, AllMade, InMaking, WellMade, Complete
<1>3. OrdersAt(l, p) => OrdersAt(l, p)'
  BY DEF OrdersAt, WellSettled, LastAt
<1> QED
  BY <1>1, <1>2, <1>3

\* A phase that leads to a label of the run.
LEMMA PhaseStep ==
  ASSUME SeedIInv, NEW h \in Handlers, NEW t \in SeedPhases, NEW l \in RunLabels,
         Phase(h, t, l),
         t \in Reference <=> l \in Reference,
         l \notin {"attendance", "credit"},
         \A i \in DOMAIN Roster : AccountsAt(t, i) => /\ AccountsAt(l, i)
                                                      /\ NextPhase(l, i) = PhaseNo(t) + 1,
         \A p \in SeedPlaces : OrdersAt(t, p) => OrdersAt(l, p)
  PROVE  SeedIInv'
<1>1. PICK p : p = reached[h]
  OBVIOUS
<1>2. /\ at[h] = t /\ seeded' = [seeded EXCEPT ![t] = @ + 1] /\ Continue(h, l)
      /\ production' = production /\ nextUser' = nextUser /\ systems' = systems
      /\ accounts' = accounts /\ pastOrders' = pastOrders /\ wallet' = wallet
      /\ reached' = reached /\ completed' = completed
  BY DEF Phase, Writes
<1>3. t \in RunLabels /\ l \in SeedLabels
  BY PhasesCounted DEF SeedLabels
<1>4. SeedTyped /\ SeedRuns(h) /\ SeedProgress(t, p) /\ p \in SeedPlaces /\ nextUser \in Nat
  BY <1>1, <1>2, <1>3, RunKnows DEF SeedTyped
<1>5. at' \in [Handlers -> SeedLabels] /\ MovesTo(h, l) /\ faults' \in Nat
  BY <1>2, <1>3, <1>4, SeedMoves
<1>6. p.account \in DOMAIN Roster
  BY <1>4 DEF SeedPlaces
<1>7. /\ t \notin Reference => ~production
      /\ WrittenOnce(PhaseNo(t)) /\ AccountsAt(t, p.account) /\ OrdersAt(t, p)
      /\ \A i \in DOMAIN Roster : wallet[i] + Uncredited(t, p, i) = EarnedBy(i)
  BY <1>4, PhasesCounted DEF SeedProgress
<1>8. PhaseNo(t) + 1 \in Nat /\ NextPhase(l, p.account) = PhaseNo(t) + 1
  BY <1>6, <1>7, PhasesCounted
<1>9. WrittenOnce(NextPhase(l, p.account))' /\ seeded' \in [SeedPhases -> Nat]
  BY <1>2, <1>4, <1>7, <1>8, PhaseWritten
<1>10. SeedTyped'
  BY <1>2, <1>4, <1>5, <1>9 DEF SeedTyped
<1>11. AccountsAt(l, p.account)' /\ OrdersAt(l, p)'
  BY <1>2, <1>4, <1>6, <1>7, SameRows
<1>12. \A i \in DOMAIN Roster : wallet'[i] + Uncredited(l, p, i)' = EarnedBy(i)'
  <2>1. t \notin {"attendance", "credit"}
    BY PhasesCounted DEF PastLabels
  <2>2. \A i : Uncredited(t, p, i) = 0 /\ Uncredited(l, p, i)' = 0
    BY <2>1 DEF Uncredited
  <2>3. \A i \in DOMAIN Roster : EarnedBy(i)' = EarnedBy(i)
    BY <1>2, SameRows
  <2> QED
    BY <1>2, <1>7, <2>2, <2>3
<1>13. SeedProgress(l, p)'
  BY <1>2, <1>7, <1>9, <1>11, <1>12 DEF SeedProgress
<1>14. SeedProgress(l, reached[h])'
  BY <1>1, <1>2, <1>13
<1> QED
  BY <1>2, <1>4, <1>5, <1>10, <1>14, RunGoesOn

\* The run is at the end of the phases, in production or not.
LEMMA LastPhase ==
  ASSUME SeedIInv, NEW h \in Handlers, NEW t \in {"balance", "friendships"},
         Writes(h, t, "idle"), completed' = completed + 1, t = "balance" <=> production
  PROVE  SeedIInv'
<1>1. PICK p : p = reached[h]
  OBVIOUS
<1>2. /\ at[h] = t /\ seeded' = [seeded EXCEPT ![t] = @ + 1] /\ Continue(h, "idle")
      /\ production' = production /\ nextUser' = nextUser /\ systems' = systems
      /\ accounts' = accounts /\ pastOrders' = pastOrders /\ wallet' = wallet
      /\ reached' = reached
  BY DEF Writes
<1>3. t \in SeedPhases /\ t \in RunLabels /\ "idle" \in SeedLabels
  BY DEF SeedPhases, Reference, Samples, RunLabels, SeedLabels
<1>4. SeedTyped /\ SeedRuns(h) /\ SeedProgress(t, p) /\ p \in SeedPlaces /\ completed = 0
  BY <1>1, <1>2, <1>3, RunKnows
<1>5. at' \in [Handlers -> SeedLabels] /\ MovesTo(h, "idle") /\ faults' \in Nat
  BY <1>2, <1>3, <1>4, SeedMoves
<1>6. /\ WrittenOnce(PhaseNo(t)) /\ AccountsAt(t, p.account) /\ OrdersAt(t, p)
      /\ \A i \in DOMAIN Roster : wallet[i] + Uncredited(t, p, i) = EarnedBy(i)
  BY <1>3, <1>4, PhasesCounted DEF SeedProgress
<1>7. PhaseNo(t) + 1 \in Nat
  BY <1>3, PhasesCounted
<1>8. PhaseNo(t) + 1 = IF production THEN 8 ELSE 16
  BY DEF PhaseNo
<1>9. WrittenOnce(PhaseNo(t) + 1)' /\ seeded' \in [SeedPhases -> Nat]
  BY <1>2, <1>3, <1>4, <1>6, <1>7, PhaseWritten
<1>10. SeedTyped'
  BY <1>2, <1>4, <1>5, <1>9 DEF SeedTyped
<1>11. WrittenOnce(IF production THEN 8 ELSE 16)'
  BY <1>2, <1>8, <1>9 DEF WrittenOnce
<1>12. ASSUME ~production
       PROVE  /\ AllMade(Len(Roster))' /\ Len(pastOrders') = SampleOrders
              /\ \A o \in DOMAIN pastOrders' : WellSettled(o)'
              /\ \A i \in DOMAIN Roster : wallet'[i] = EarnedBy(i)'
  <2>1. t = "friendships"
    BY <1>12
  <2>2. AllMade(Len(Roster))
    BY <1>6, <2>1 DEF AccountsAt, PastLabels
  <2>3. /\ Len(pastOrders) = SampleOrders
        /\ \A o \in DOMAIN pastOrders : WellSettled(o)
    BY <1>6, <2>1 DEF OrdersAt, PastLabels
  <2>4. \A i \in DOMAIN Roster : wallet[i] = EarnedBy(i)
    <3>1. \A i : Uncredited(t, p, i) = 0
      BY <2>1 DEF Uncredited
    <3>2. \A i \in DOMAIN Roster : wallet[i] \in Nat
      BY <1>4 DEF SeedTyped
    <3> QED
      BY <1>6, <3>1, <3>2
  <2>5. AllMade(Len(Roster))'
    BY <1>2, <2>2 DEF AllMade, WellMade, Complete
  <2>6. \A o \in DOMAIN pastOrders' : WellSettled(o)'
    BY <1>2, <2>3 DEF WellSettled
  <2>7. \A i \in DOMAIN Roster : EarnedBy(i)' = EarnedBy(i)
    BY <1>2, SameRows
  <2> QED
    BY <1>2, <2>3, <2>4, <2>5, <2>6, <2>7
<1>13. SeededAll'
  BY <1>2, <1>11, <1>12 DEF SeededAll
<1> QED
  BY <1>2, <1>4, <1>5, <1>10, <1>13, RunEnds

\* The phases that lead from one to the next.
LEMMA PhaseActions ==
  ASSUME SeedIInv, NEW h \in Handlers,
         \/ Company(h) \/ Branches(h) \/ Menus(h) \/ CustomerLevels(h) \/ Attributes(h)
         \/ Preferences(h) \/ Rules(h) \/ Venues(h) \/ GiftMenu(h) \/ SamplePosts(h)
  PROVE  SeedIInv'
<1>1. ASSUME NEW t \in SeedPhases, NEW l \in SeedPhases, Phase(h, t, l),
             t \in Reference <=> l \in Reference,
             PhaseNo(l) = PhaseNo(t) + 1,
             \A i \in DOMAIN Roster : AccountsAt(t, i) => AccountsAt(l, i),
             \A p \in SeedPlaces : OrdersAt(t, p) => OrdersAt(l, p)
      PROVE  SeedIInv'
  <2>1. l \in RunLabels /\ \A i : NextPhase(l, i) = PhaseNo(l)
    BY PhasesCounted
  <2>2. l \notin {"attendance", "credit"}
    BY PhasesCounted DEF PastLabels
  <2> QED
    BY <1>1, <2>1, <2>2, PhaseStep
<1>2. ASSUME NEW t \in Reference, NEW l \in Reference, Phase(h, t, l), PhaseNo(l) = PhaseNo(t) + 1
      PROVE  SeedIInv'
  <2>1. t \in SeedPhases /\ l \in SeedPhases
    BY DEF SeedPhases
  <2>2. \A i \in DOMAIN Roster : AccountsAt(t, i) => AccountsAt(l, i)
    BY DEF AccountsAt, Reference, SampleLabels, PastLabels
  <2>3. \A p \in SeedPlaces : OrdersAt(t, p) => OrdersAt(l, p)
    BY DEF OrdersAt, Reference, PastLabels
  <2>4. t \in Reference <=> l \in Reference
    BY <1>2
  <2>5. Phase(h, t, l) /\ PhaseNo(l) = PhaseNo(t) + 1
    BY <1>2
  <2> QED
    BY <1>1, <2>1, <2>2, <2>3, <2>4, <2>5
<1>3. ASSUME NEW t \in {"rules", "venues", "gifts", "notices"},
             NEW l \in {"rules", "venues", "gifts", "notices"},
             Phase(h, t, l), PhaseNo(l) = PhaseNo(t) + 1
      PROVE  SeedIInv'
  <2>1. t \in SeedPhases /\ l \in SeedPhases /\ t \notin Reference /\ l \notin Reference
    BY DEF SeedPhases, Samples, Reference
  <2>2. \A i \in DOMAIN Roster : AccountsAt(t, i) => AccountsAt(l, i)
    BY DEF AccountsAt, Reference, SampleLabels, PastLabels
  <2>3. \A p \in SeedPlaces : OrdersAt(t, p) => OrdersAt(l, p)
    BY DEF OrdersAt, PastLabels
  <2>4. t \in Reference <=> l \in Reference
    BY <2>1
  <2>5. Phase(h, t, l) /\ PhaseNo(l) = PhaseNo(t) + 1
    BY <1>3
  <2> QED
    BY <1>1, <2>1, <2>2, <2>3, <2>4, <2>5
<1>4. CASE SamplePosts(h)
  <2>1. Phase(h, "posts", "friendships") /\ PhaseNo("friendships") = PhaseNo("posts") + 1
    BY <1>4 DEF SamplePosts, PhaseNo
  <2>2. {"posts", "friendships"} \subseteq SeedPhases \ Reference
    BY DEF SeedPhases, Samples, Reference
  <2>3. \A i \in DOMAIN Roster : AccountsAt("posts", i) => AccountsAt("friendships", i)
    BY DEF AccountsAt, Reference, SampleLabels, PastLabels
  <2>4. \A p \in SeedPlaces : OrdersAt("posts", p) => OrdersAt("friendships", p)
    BY DEF OrdersAt, PastLabels
  <2> QED
    BY <1>1, <2>1, <2>2, <2>3, <2>4
<1>5. CASE \/ Company(h) \/ Branches(h) \/ Menus(h) \/ CustomerLevels(h) \/ Attributes(h)
           \/ Preferences(h)
  <2>1. \E t \in Reference, l \in Reference : Phase(h, t, l) /\ PhaseNo(l) = PhaseNo(t) + 1
    BY <1>5 DEF Company, Branches, Menus, CustomerLevels, Attributes, Preferences, Reference, PhaseNo
  <2> QED
    BY <1>2, <2>1
<1>6. CASE Rules(h) \/ Venues(h) \/ GiftMenu(h)
  <2>1. \E t \in {"rules", "venues", "gifts", "notices"}, l \in {"rules", "venues", "gifts", "notices"} :
           Phase(h, t, l) /\ PhaseNo(l) = PhaseNo(t) + 1
    BY <1>6 DEF Rules, Venues, GiftMenu, PhaseNo
  <2> QED
    BY <1>3, <2>1
<1> QED
  BY <1>4, <1>5, <1>6

\* The phases that lead to the accounts and to the orders.
LEMMA PhasesBefore ==
  ASSUME SeedIInv, NEW h \in Handlers, AdminLogins(h) \/ SampleNotices(h) \/ Chats(h)
  PROVE  SeedIInv'
<1>0. /\ {"admins", "notices", "chats", "posts"} \subseteq SeedPhases \ Reference
      /\ "user" \in RunLabels /\ "order" \in RunLabels /\ "posts" \in RunLabels
      /\ "user" \notin Reference /\ "order" \notin Reference
  BY DEF SeedPhases, Samples, Reference, RunLabels, SampleLabels, PastLabels
<1>1. CASE AdminLogins(h)
  <2>1. Phase(h, "admins", "user")
    BY <1>1 DEF AdminLogins
  <2>2. \A i \in DOMAIN Roster : AccountsAt("admins", i) => /\ AccountsAt("user", i)
                                         /\ NextPhase("user", i) = PhaseNo("admins") + 1
    BY DEF AccountsAt, NextPhase, PhaseNo, Reference, SampleLabels, PastLabels, AllMade
  <2>3. \A p \in SeedPlaces : OrdersAt("admins", p) => OrdersAt("user", p)
    BY DEF OrdersAt, PastLabels
  <2> QED
    BY <1>0, <2>1, <2>2, <2>3, PhaseStep
<1>2. CASE SampleNotices(h)
  <2>1. Phase(h, "notices", "user")
    BY <1>2 DEF SampleNotices
  <2>2. \A i \in DOMAIN Roster : AccountsAt("notices", i) => /\ AccountsAt("user", i)
                                         /\ NextPhase("user", i) = PhaseNo("notices") + 1
    BY DEF AccountsAt, NextPhase, PhaseNo, Reference, SampleLabels, PastLabels
  <2>3. \A p \in SeedPlaces : OrdersAt("notices", p) => OrdersAt("user", p)
    BY DEF OrdersAt, PastLabels
  <2> QED
    BY <1>0, <2>1, <2>2, <2>3, PhaseStep
<1>3. ASSUME NEW l \in {"posts", "order"}, Phase(h, "chats", l),
             l = "posts" => SampleOrders = 0, l = "order" => SampleOrders # 0
      PROVE  SeedIInv'
  <2>1. \A i \in DOMAIN Roster : AccountsAt("chats", i) => /\ AccountsAt(l, i)
                                         /\ NextPhase(l, i) = PhaseNo("chats") + 1
    BY DEF AccountsAt, NextPhase, PhaseNo, Reference, SampleLabels, PastLabels
  <2>2. \A p \in SeedPlaces : OrdersAt("chats", p) => OrdersAt(l, p)
    BY <1>3, SeedSets DEF OrdersAt, PastLabels
  <2>3. l \in RunLabels /\ l \notin Reference /\ l \notin {"attendance", "credit"}
    BY <1>0
  <2> QED
    BY <1>0, <1>3, <2>1, <2>2, <2>3, PhaseStep
<1>4. CASE Chats(h)
  BY <1>3, <1>4 DEF Chats
<1> QED
  BY <1>1, <1>2, <1>4

LEMMA BalanceOK ==
  ASSUME SeedIInv, NEW h \in Handlers, Balance(h)
  PROVE  SeedIInv'
<1>1. production \in BOOLEAN
  BY DEF SeedIInv, SeedTyped
<1>2. CASE production
  BY <1>2, LastPhase DEF Balance
<1>3. CASE ~production
  <2>1. Phase(h, "balance", "admins")
    BY <1>3 DEF Balance, Phase
  <2>2. at[h] = "balance" /\ seeded' = [seeded EXCEPT !["balance"] = @ + 1] /\ Continue(h, "admins")
        /\ production' = production /\ nextUser' = nextUser /\ systems' = systems
        /\ accounts' = accounts /\ pastOrders' = pastOrders /\ wallet' = wallet
        /\ reached' = reached /\ completed' = completed
    BY <2>1 DEF Phase, Writes
  <2>3. "balance" \in SeedPhases /\ "balance" \in RunLabels /\ "admins" \in RunLabels /\ "admins" \in SeedLabels
        /\ "admins" \in SeedPhases
    BY DEF SeedPhases, Reference, Samples, RunLabels, SeedLabels
  <2>4. PICK p : p = reached[h]
    OBVIOUS
  <2>5. SeedTyped /\ SeedRuns(h) /\ SeedProgress("balance", p) /\ nextUser \in Nat
    BY <2>2, <2>3, <2>4, RunKnows DEF SeedTyped
  <2>6. at' \in [Handlers -> SeedLabels] /\ MovesTo(h, "admins") /\ faults' \in Nat
    BY <2>2, <2>3, <2>5, SeedMoves
  <2>7. /\ WrittenOnce(PhaseNo("balance")) /\ AccountsAt("balance", p.account) /\ OrdersAt("balance", p)
        /\ \A i \in DOMAIN Roster : wallet[i] + Uncredited("balance", p, i) = EarnedBy(i)
    BY <2>3, <2>5, PhasesCounted DEF SeedProgress
  <2>8. PhaseNo("balance") = 7 /\ PhaseNo("admins") = 8
    BY DEF PhaseNo
  <2>9. WrittenOnce(8)' /\ seeded' \in [SeedPhases -> Nat]
    <3>1. PICK m : m = 8
      OBVIOUS
    <3>2. m \in Nat /\ m = PhaseNo("balance") + 1
      BY <2>8, <3>1
    <3>3. WrittenOnce(PhaseNo("balance")) /\ "balance" \in SeedPhases
      BY <2>3, <2>7
    <3>4. WrittenOnce(m)' /\ seeded' \in [SeedPhases -> Nat]
      BY <2>2, <2>5, <3>2, <3>3, PhaseWritten
    <3> QED
      BY <3>1, <3>4
  <2>10. SeedTyped'
    BY <2>2, <2>5, <2>6, <2>9 DEF SeedTyped
  <2>11. AccountsAt("admins", p.account) /\ OrdersAt("admins", p)
    BY <2>7 DEF AccountsAt, OrdersAt, Reference, SampleLabels, PastLabels
  <2>12. AccountsAt("admins", p.account)' /\ OrdersAt("admins", p)'
    BY <2>2, <2>11, SameRows
  <2>13. \A i \in DOMAIN Roster : wallet'[i] + Uncredited("admins", p, i)' = EarnedBy(i)'
    <3>1. \A i : Uncredited("balance", p, i) = 0 /\ Uncredited("admins", p, i)' = 0
      BY DEF Uncredited
    <3>2. \A i \in DOMAIN Roster : EarnedBy(i)' = EarnedBy(i)
      BY <2>2, SameRows
    <3> QED
      BY <2>2, <2>7, <3>1, <3>2
  <2>14. NextPhase("admins", p.account) = 8
    BY <2>3, <2>8, PhasesCounted
  <2>15. SeedProgress("admins", p)'
    BY <1>3, <2>2, <2>9, <2>12, <2>13, <2>14 DEF SeedProgress
  <2>16. SeedProgress("admins", reached[h])'
    BY <2>2, <2>4, <2>15
  <2> QED
    BY <2>2, <2>3, <2>5, <2>6, <2>10, <2>16, RunGoesOn
<1> QED
  BY <1>2, <1>3

LEMMA FriendshipsOK ==
  ASSUME SeedIInv, NEW h \in Handlers, Friendships(h)
  PROVE  SeedIInv'
<1>1. at[h] = "friendships" /\ "friendships" \in RunLabels /\ "friendships" \notin Reference
  BY DEF Friendships, Writes, RunLabels, SeedPhases, Samples, Reference
<1>2. SeedProgress("friendships", reached[h])
  BY <1>1, RunKnows
<1>3. ~production
  BY <1>1, <1>2 DEF SeedProgress
<1> QED
  BY <1>3, LastPhase DEF Friendships

-----------------------------------------------------------------------------
(* Who may run *)

LEMMA SameProgress ==
  ASSUME UNCHANGED <<production, seeded, accounts, pastOrders, wallet>>, NEW m, NEW p
  PROVE  SeedProgress(m, p) => SeedProgress(m, p)'
<1> SUFFICES ASSUME SeedProgress(m, p) PROVE SeedProgress(m, p)'
  OBVIOUS
<1>1. AccountsAt(m, p.account)' /\ OrdersAt(m, p)'
  BY SameRows DEF SeedProgress
<1>2. \A i : EarnedBy(i)' = EarnedBy(i)
  BY SameRows
<1>3. \A i : Uncredited(m, p, i)' = Uncredited(m, p, i)
  BY DEF Uncredited
<1>4. WrittenOnce(NextPhase(m, p.account))'
  BY DEF WrittenOnce, SeedProgress
<1> QED
  BY <1>1, <1>2, <1>3, <1>4 DEF SeedProgress

\* A handler that does not run and comes to no run leaves the run alone.
LEMMA OthersLook ==
  ASSUME SeedIInv, NEW h \in Handlers, ~SeedRuns(h), NEW l \in {"idle", "system"}, MovesTo(h, l),
         SeedTyped', nextUser' >= nextUser, systems \subseteq systems', faults' >= faults,
         UNCHANGED <<production, seeded, accounts, pastOrders, wallet, completed>>,
         \A g \in Handlers \ {h} : reached'[g] = reached[g],
         l = "system" => reached'[h] = Start,
         nextUser = 1 /\ nextUser' # 1 => faults' > 0
  PROVE  SeedIInv'
<1>0. nextUser \in Nat /\ nextUser # 0 /\ nextUser' \in Nat /\ faults \in Nat /\ faults' \in Nat
  BY DEF SeedIInv, SeedTyped
<1>1. ~SeedRuns(h)'
  BY DEF SeedRuns, MovesTo, RunLabels, SeedPhases, Reference, Samples, SampleLabels, PastLabels
<1>2. \A g \in Handlers \ {h} : at'[g] = at[g] /\ (SeedRuns(g)' <=> SeedRuns(g))
  BY DEF SeedRuns, MovesTo
<1>3. \A g \in Handlers : at'[g] = "system" => reached'[g] = Start
  BY <1>2 DEF SeedIInv, MovesTo
<1>4. \A g, k \in Handlers : SeedRuns(g)' /\ SeedRuns(k)' => g = k
  BY <1>1, <1>2 DEF SeedIInv
<1>5. \A m, p : SeedProgress(m, p) => SeedProgress(m, p)'
  BY SameProgress
<1>6. ASSUME NEW g \in Handlers, SeedRuns(g)'
      PROVE  nextUser' > 1 /\ 1 \in systems' /\ completed' = 0 /\ SeedProgress(at[g], reached[g])'
  <2>1. g # h /\ SeedRuns(g)
    BY <1>1, <1>2, <1>6
  <2>2. nextUser > 1 /\ 1 \in systems /\ completed = 0 /\ SeedProgress(at[g], reached[g])
    BY <2>1 DEF SeedIInv
  <2>3. PICK m, p : m = at[g] /\ p = reached[g]
    OBVIOUS
  <2>4. SeedProgress(m, p)'
    BY <1>5, <2>2, <2>3
  <2>5. m = at'[g] /\ p = reached'[g]
    BY <1>2, <2>1, <2>3
  <2>6. SeedProgress(at[g], reached[g])'
    BY <2>4, <2>5
  <2> QED
    BY <1>0, <2>2, <2>6
<1>7. (\A g \in Handlers : ~SeedRuns(g)') => \A g \in Handlers : ~SeedRuns(g)
  BY <1>2
<1>8. ASSUME \A g \in Handlers : ~SeedRuns(g)
      PROVE  \/ nextUser' = 1 /\ completed' = 0 /\ SeedProgress("company", Start)'
             \/ nextUser' > 1 /\ completed' = 1 /\ 1 \in systems' /\ SeededAll'
             \/ /\ nextUser' > 1 /\ completed' = 0 /\ faults' > 0
                /\ \A t \in SeedPhases : seeded'[t] <= 1
                /\ seeded'["company"] = 1 => 1 \in systems'
  <2>1. CASE nextUser = 1 /\ completed = 0 /\ SeedProgress("company", Start)
    <3>1. CASE nextUser' = 1
      BY <1>5, <2>1, <3>1
    <3>2. CASE nextUser' # 1
      <4>1. NextPhase("company", Start.account) = 1
        BY DEF NextPhase, PhaseNo, SampleLabels, PastLabels
      <4>2. \A t \in SeedPhases : ~(PhaseNo(t) < 1)
        BY DEF PhaseNo
      <4>3. \A t \in SeedPhases : seeded[t] = 0
        BY <2>1, <4>1, <4>2 DEF SeedProgress, WrittenOnce
      <4>4. "company" \in SeedPhases
        BY DEF SeedPhases, Reference
      <4> QED
        BY <1>0, <2>1, <3>2, <4>3, <4>4
    <3> QED
      BY <3>1, <3>2
  <2>2. CASE nextUser > 1 /\ completed = 1 /\ 1 \in systems /\ SeededAll
    <3>1. SeededAll'
      <4>1. WrittenOnce(IF production THEN 8 ELSE 16)'
        BY <2>2 DEF SeededAll, WrittenOnce
      <4>2. ~production => AllMade(Len(Roster))'
        BY <2>2 DEF SeededAll, AllMade, WellMade, Complete
      <4>3. ~production => \A o \in DOMAIN pastOrders' : WellSettled(o)'
        BY <2>2 DEF SeededAll, WellSettled
      <4>4. \A i \in DOMAIN Roster : EarnedBy(i)' = EarnedBy(i)
        BY SameRows
      <4> QED
        BY <2>2, <4>1, <4>2, <4>3, <4>4 DEF SeededAll
    <3> QED
      BY <1>0, <2>2, <3>1
  <2>3. CASE /\ nextUser > 1 /\ completed = 0 /\ faults > 0
             /\ \A t \in SeedPhases : seeded[t] <= 1
             /\ seeded["company"] = 1 => 1 \in systems
    BY <1>0, <2>3
  <2> QED
    BY <1>8, <2>1, <2>2, <2>3 DEF SeedIInv
<1> QED
  BY <1>3, <1>4, <1>6, <1>7, <1>8 DEF SeedIInv

-----------------------------------------------------------------------------
(* The guard, and a run that dies *)

LEMMA NotRunning ==
  /\ "idle" \notin RunLabels /\ "system" \notin RunLabels
  /\ "idle" \in SeedLabels /\ "system" \in SeedLabels
  /\ RunLabels \subseteq SeedLabels
BY DEF RunLabels, SeedPhases, Reference, Samples, SampleLabels, PastLabels, SeedLabels

LEMMA FindSystemOK ==
  ASSUME SeedIInv, NEW h \in Handlers, FindSystem(h)
  PROVE  SeedIInv'
<1>1. PICK l : l \in {"idle", "system"} /\ Begin(h, l)
  BY DEF FindSystem
<1>2. /\ reached' = [reached EXCEPT ![h] = Start] /\ nextUser' = nextUser /\ systems' = systems
      /\ UNCHANGED <<production, seeded, accounts, pastOrders, wallet, completed>>
  BY DEF FindSystem, Data
<1>3. SeedTyped /\ nextUser \in Nat /\ faults \in Nat
  BY DEF SeedIInv, SeedTyped
<1>4. at[h] = "idle" /\ at' = [at EXCEPT ![h] = l] /\ faults' = faults
  BY <1>1 DEF Begin, Deliver, Goto
<1>5. at' \in [Handlers -> SeedLabels] /\ MovesTo(h, l)
  BY <1>1, <1>3, <1>4, NotRunning DEF SeedTyped, MovesTo
<1>6. Start \in SeedPlaces
  BY SeedSets DEF Start, SeedPlaces
<1>7. SeedTyped'
  BY <1>2, <1>3, <1>4, <1>5, <1>6 DEF SeedTyped
<1>8. ~SeedRuns(h)
  BY <1>4, NotRunning DEF SeedRuns
<1>9. reached'[h] = Start /\ \A g \in Handlers \ {h} : reached'[g] = reached[g]
  BY <1>2, <1>3 DEF SeedTyped
<1> QED
  BY <1>1, <1>2, <1>3, <1>4, <1>5, <1>7, <1>8, <1>9, OthersLook

LEMMA CreateSystemOK ==
  ASSUME SeedIInv, NEW h \in Handlers, CreateSystem(h)
  PROVE  SeedIInv'
<1>1. /\ at[h] = "system" /\ systems' = systems \cup {nextUser} /\ nextUser' = nextUser + 1
      /\ Continue(h, IF nextUser = 1 THEN "company" ELSE "idle")
      /\ production' = production /\ seeded' = seeded /\ accounts' = accounts
      /\ pastOrders' = pastOrders /\ wallet' = wallet /\ reached' = reached /\ completed' = completed
  BY DEF CreateSystem, Pinned
<1>2. SeedTyped /\ nextUser \in Nat /\ nextUser # 0 /\ faults \in Nat
  BY DEF SeedIInv, SeedTyped
<1>3. "company" \in RunLabels /\ "company" \in SeedLabels
  BY NotRunning DEF RunLabels, SeedPhases, Reference
<1>4. ~SeedRuns(h) /\ reached[h] = Start
  BY <1>1, NotRunning DEF SeedRuns, SeedIInv
<1>5. CASE nextUser # 1
  <2>1. Continue(h, "idle")
    BY <1>1, <1>5
  <2>2. at' \in [Handlers -> SeedLabels] /\ MovesTo(h, "idle") /\ faults' = faults
    BY <1>2, <2>1, SeedMoves, NotRunning
  <2>3. SeedTyped'
    BY <1>1, <1>2, <2>2 DEF SeedTyped
  <2>4. systems \subseteq systems' /\ nextUser' >= nextUser /\ faults' >= faults
    BY <1>1, <1>2, <2>2
  <2>5. "idle" \in {"idle", "system"} /\ "idle" # "system"
    OBVIOUS
  <2> QED
    BY <1>1, <1>4, <1>5, <2>2, <2>3, <2>4, <2>5, OthersLook
<1>6. CASE nextUser = 1
  <2>1. Continue(h, "company")
    BY <1>1, <1>6
  <2>2. at' \in [Handlers -> SeedLabels] /\ MovesTo(h, "company") /\ faults' = faults
    BY <1>2, <1>3, <2>1, SeedMoves
  <2>3. SeedTyped'
    BY <1>1, <1>2, <2>2 DEF SeedTyped
  <2>4. \A g \in Handlers : ~SeedRuns(g)
    BY <1>6 DEF SeedIInv
  <2>5. completed = 0 /\ SeedProgress("company", Start)
    BY <1>6, <2>4 DEF SeedIInv
  <2>6. SeedProgress("company", Start)'
    BY <1>1, <2>5, SameProgress
  <2>7. \A g \in Handlers \ {h} : ~SeedRuns(g)'
    BY <2>2, <2>4 DEF SeedRuns, MovesTo
  <2>8. at'[h] = "company" /\ reached'[h] = Start /\ SeedRuns(h)'
    BY <1>1, <1>3, <1>4, <2>2 DEF MovesTo, SeedRuns
  <2>9. SeedProgress(at[h], reached[h])'
    BY <2>6, <2>8
  <2>10. nextUser' > 1 /\ 1 \in systems' /\ completed' = 0
    BY <1>1, <1>6, <2>5
  <2>11. \A g \in Handlers : at'[g] = "system" => reached'[g] = Start
    BY <1>1, <2>2, <2>8 DEF SeedIInv, MovesTo
  <2>12. \A g \in Handlers : SeedRuns(g)' => SeedProgress(at[g], reached[g])'
    BY <2>7, <2>9
  <2>13. \A g, k \in Handlers : SeedRuns(g)' /\ SeedRuns(k)' => g = k
    BY <2>7
  <2> QED
    BY <2>3, <2>8, <2>10, <2>11, <2>12, <2>13 DEF SeedIInv
<1> QED
  BY <1>5, <1>6

LEMMA SystemRefusedOK ==
  ASSUME SeedIInv, NEW h \in Handlers, SystemRefused(h)
  PROVE  SeedIInv'
<1>1. /\ at[h] = "system" /\ Refused(h, "idle") /\ nextUser' = nextUser + 1 /\ systems' = systems
      /\ UNCHANGED <<production, seeded, accounts, pastOrders, wallet, reached, completed>>
  BY DEF SystemRefused
<1>2. SeedTyped /\ nextUser \in Nat /\ nextUser # 0 /\ faults \in Nat
  BY DEF SeedIInv, SeedTyped
<1>3. at' = [at EXCEPT ![h] = "idle"] /\ faults' = faults + 1
  BY <1>1 DEF Refused, Goto
<1>4. at' \in [Handlers -> SeedLabels] /\ MovesTo(h, "idle")
  BY <1>2, <1>3, NotRunning DEF SeedTyped, MovesTo
<1>5. SeedTyped'
  BY <1>1, <1>2, <1>3, <1>4 DEF SeedTyped
<1>6. ~SeedRuns(h)
  BY <1>1, NotRunning DEF SeedRuns
<1>7. nextUser' >= nextUser /\ faults' >= faults /\ faults' > 0
  BY <1>1, <1>2, <1>3
<1>8. "idle" \in {"idle", "system"} /\ "idle" # "system"
  OBVIOUS
<1> QED
  BY <1>1, <1>4, <1>5, <1>6, <1>7, <1>8, OthersLook

LEMMA SeedDieOK ==
  ASSUME SeedIInv, NEW h \in Handlers, SeedDie(h)
  PROVE  SeedIInv'
<1>1. /\ Die(h) /\ nextUser' = nextUser /\ systems' = systems /\ completed' = completed
      /\ UNCHANGED <<production, seeded, accounts, pastOrders, wallet, reached, completed>>
  BY DEF SeedDie, Data
<1>2. SeedTyped /\ nextUser \in Nat /\ nextUser # 0 /\ faults \in Nat
  BY DEF SeedIInv, SeedTyped
<1>3. at' = [at EXCEPT ![h] = "idle"] /\ faults' = faults + 1
  BY <1>1 DEF Die, Refused, Goto
<1>4. at' \in [Handlers -> SeedLabels] /\ MovesTo(h, "idle")
  BY <1>2, <1>3, NotRunning DEF SeedTyped, MovesTo
<1>5. SeedTyped'
  BY <1>1, <1>2, <1>3, <1>4 DEF SeedTyped
<1>6. nextUser' >= nextUser /\ faults' >= faults /\ faults' > 0
  BY <1>1, <1>2, <1>3
<1>7. CASE ~SeedRuns(h)
  <2>1. "idle" \in {"idle", "system"} /\ "idle" # "system"
    OBVIOUS
  <2> QED
    BY <1>1, <1>4, <1>5, <1>6, <1>7, <2>1, OthersLook
<1>8. CASE SeedRuns(h)
  <2>1. \A g \in Handlers : ~SeedRuns(g)'
    BY <1>4, <1>8, NotRunning DEF SeedIInv, SeedRuns, MovesTo
  <2>2. nextUser > 1 /\ 1 \in systems /\ completed = 0 /\ SeedProgress(at[h], reached[h])
    BY <1>8 DEF SeedIInv
  <2>3. \A t \in SeedPhases : seeded[t] <= 1
    BY <2>2 DEF SeedProgress, WrittenOnce
  <2>4. \A g \in Handlers : at'[g] = "system" => reached'[g] = Start
    BY <1>1, <1>4 DEF SeedIInv, MovesTo
  <2> QED
    BY <1>1, <1>5, <1>6, <2>1, <2>2, <2>3, <2>4 DEF SeedIInv
<1> QED
  BY <1>7, <1>8

-----------------------------------------------------------------------------
(* The accounts *)

\* A step that writes the account the run is at.
LEMMA AccountStep ==
  ASSUME SeedIInv, NEW h \in Handlers, NEW k \in SampleLabels, at[h] = k,
         NEW l \in SampleLabels \cup {"rules", "chats"}, Continue(h, l),
         UNCHANGED <<production, systems, seeded, pastOrders, wallet, completed>>,
         nextUser' \in Nat, nextUser' >= nextUser, accounts' \in Seq(SampleRows),
         NEW q \in SeedPlaces, reached' = [reached EXCEPT ![h] = q],
         NextPhase(l, q.account) = NextPhase(k, reached[h].account),
         AccountsAt(l, q.account)'
  PROVE  SeedIInv'
<1>1. /\ k \in RunLabels /\ l \in RunLabels /\ l \in SeedLabels
      /\ k \notin Reference /\ l \notin Reference
      /\ k \notin PastLabels \cup {"lastChat", "posts", "friendships"}
      /\ l \notin PastLabels \cup {"lastChat", "posts", "friendships"}
  BY DEF RunLabels, SeedLabels, SeedPhases, Reference, Samples, SampleLabels, PastLabels
<1>2. PICK p : p = reached[h]
  OBVIOUS
<1>3. SeedTyped /\ SeedRuns(h) /\ SeedProgress(k, p) /\ nextUser \in Nat
  BY <1>1, <1>2, RunKnows DEF SeedTyped
<1>4. at' \in [Handlers -> SeedLabels] /\ MovesTo(h, l) /\ faults' \in Nat
  BY <1>1, <1>3, SeedMoves
<1>5. /\ ~production /\ WrittenOnce(NextPhase(k, p.account)) /\ pastOrders = <<>>
      /\ \A i \in DOMAIN Roster : wallet[i] + Uncredited(k, p, i) = EarnedBy(i)
  BY <1>1, <1>3 DEF SeedProgress, OrdersAt
<1>6. nextUser # 0 /\ nextUser' \in Nat \ {0}
  BY <1>3 DEF SeedTyped
<1>7. SeedTyped'
  BY <1>3, <1>4, <1>6 DEF SeedTyped
<1>8. WrittenOnce(NextPhase(l, q.account))'
  BY <1>2, <1>5 DEF WrittenOnce
<1>9. OrdersAt(l, q)'
  <2>1. pastOrders' = <<>> /\ DOMAIN pastOrders' = {}
    BY <1>5
  <2>2. l # "order"
    BY <1>1 DEF PastLabels
  <2> QED
    BY <1>1, <2>1, <2>2 DEF OrdersAt
<1>10. \A i \in DOMAIN Roster : wallet'[i] + Uncredited(l, q, i)' = EarnedBy(i)'
  <2>1. {"attendance", "credit"} \subseteq PastLabels
    BY DEF PastLabels
  <2>2. \A i : Uncredited(k, p, i) = 0 /\ Uncredited(l, q, i)' = 0
    BY <1>1, <2>1 DEF Uncredited
  <2>3. \A i \in DOMAIN Roster : EarnedBy(i)' = EarnedBy(i)
    BY EarnedByRows, EarnedByRowsThen
  <2> QED
    BY <1>5, <2>2, <2>3
<1>11. SeedProgress(l, q)'
  BY <1>5, <1>8, <1>9, <1>10 DEF SeedProgress
<1>12. reached'[h] = q /\ \A g \in Handlers \ {h} : reached'[g] = reached[g]
  BY <1>3 DEF SeedTyped
<1>13. SeedProgress(l, reached[h])'
  BY <1>11, <1>12
<1> QED
  BY <1>1, <1>3, <1>4, <1>7, <1>12, <1>13, RunGoesOn

\* What a run that is at an account knows.
LEMMA AtAccount ==
  ASSUME SeedIInv, NEW h \in Handlers, NEW k \in SampleLabels, at[h] = k, NEW i, i = reached[h].account
  PROVE  /\ i \in DOMAIN Roster /\ i \in Nat /\ i > 0 /\ accounts \in Seq(SampleRows)
         /\ reached[h] \in SeedPlaces /\ reached \in [Handlers -> SeedPlaces]
         /\ nextUser \in Nat /\ AccountsAt(k, i)
<1>1. k \in RunLabels
  BY DEF RunLabels
<1>2. SeedTyped /\ SeedProgress(k, reached[h]) /\ reached[h] \in SeedPlaces
  BY <1>1, RunKnows
<1>3. i \in DOMAIN Roster
  BY <1>2 DEF SeedPlaces
<1>4. i \in Nat /\ i > 0
  BY <1>3, SeedSets
<1> QED
  BY <1>2, <1>3, <1>4 DEF SeedTyped, SeedProgress

\* An account that is not written stays as it is.
LEMMA StaysMade ==
  ASSUME NEW j, accounts'[j] = accounts[j], WellMade(j)
  PROVE  WellMade(j)'
BY DEF WellMade, Complete

\* The same account, at the next label.
LEMMA SameAccount ==
  ASSUME SeedIInv, NEW h \in Handlers, NEW k \in SampleLabels, at[h] = k,
         NEW l \in SampleLabels \ {"user"}, Continue(h, l),
         UNCHANGED <<production, systems, seeded, pastOrders, wallet, completed, reached>>,
         nextUser' \in Nat, nextUser' >= nextUser, accounts' \in Seq(SampleRows),
         NEW i, i = reached[h].account, InMaking(l, i)'
  PROVE  SeedIInv'
<1>1. PICK q : q = reached[h]
  OBVIOUS
<1>2. q \in SeedPlaces /\ reached' = [reached EXCEPT ![h] = q] /\ q.account = i
  BY <1>1, AtAccount
<1>3. NextPhase(l, q.account) = NextPhase(k, reached[h].account)
  BY <1>2 DEF NextPhase
<1>4. AccountsAt(l, i)'
  <2>1. /\ l \notin Reference \cup {"admins", "user"} /\ l \notin {"rules", "venues", "gifts", "notices"}
        /\ l \notin PastLabels \cup {"chats", "lastChat", "posts", "friendships"}
    BY DEF SampleLabels, Reference, PastLabels
  <2> QED
    BY <2>1 DEF AccountsAt
<1>5. AccountsAt(l, q.account)'
  BY <1>2, <1>4
<1>6. l \in SampleLabels \cup {"rules", "chats"}
  OBVIOUS
<1> QED
  BY <1>2, <1>3, <1>5, <1>6, AccountStep

LEMMA CreateSampleUserOK ==
  ASSUME SeedIInv, NEW h \in Handlers, CreateSampleUser(h)
  PROVE  SeedIInv'
<1>1. PICK i : i = reached[h].account
  OBVIOUS
<1>2. PICK r : r = [type |-> Roster[i], has |-> {}, support |-> {}]
  OBVIOUS
<1>3. /\ at[h] = "user" /\ accounts' = Append(accounts, r)
      /\ reached' = [reached EXCEPT ![h].account = Len(accounts')] /\ nextUser' = nextUser + 1
      /\ Continue(h, "settings")
      /\ UNCHANGED <<production, systems, seeded, pastOrders, wallet, completed>>
  BY <1>1, <1>2 DEF CreateSampleUser, Rest
<1>4. "user" \in SampleLabels /\ "settings" \in SampleLabels \ {"user"}
  BY DEF SampleLabels
<1>5. /\ i \in DOMAIN Roster /\ i \in Nat /\ i > 0 /\ accounts \in Seq(SampleRows)
      /\ reached[h] \in SeedPlaces /\ reached \in [Handlers -> SeedPlaces]
      /\ nextUser \in Nat /\ AccountsAt("user", i)
  BY <1>1, <1>3, <1>4, AtAccount
<1>6. Len(accounts) = i - 1 /\ \A j \in 1..i - 1 : WellMade(j)
  BY <1>5 DEF AccountsAt, AllMade
<1>7. r \in SampleRows
  BY <1>2, <1>5, SeedSets DEF SampleRows
<1>8. /\ accounts' \in Seq(SampleRows) /\ Len(accounts') = i /\ accounts'[i] = r
      /\ \A j \in 1..i - 1 : accounts'[j] = accounts[j]
  BY <1>3, <1>5, <1>6, <1>7
<1>9. reached' = reached
  <2>1. [reached[h] EXCEPT !.account = i] = reached[h]
    BY <1>1, <1>5 DEF SeedPlaces
  <2>2. reached' = [reached EXCEPT ![h] = [reached[h] EXCEPT !.account = i]]
    BY <1>3, <1>5, <1>8
  <2> QED
    BY <1>5, <2>1, <2>2
<1>10. InMaking("settings", i)'
  <2>1. \A j \in 1..i - 1 : WellMade(j)'
    BY <1>6, <1>8, StaysMade
  <2>2. accounts'[i].type = Roster[i] /\ accounts'[i].has = HasAt("settings")
    BY <1>2, <1>8 DEF HasAt
  <2> QED
    BY <1>8, <2>1, <2>2 DEF InMaking
<1>11. /\ UNCHANGED <<production, systems, seeded, pastOrders, wallet, completed, reached>>
       /\ nextUser' \in Nat /\ nextUser' >= nextUser
  BY <1>3, <1>5, <1>9
<1>12. at[h] = "user" /\ Continue(h, "settings") /\ accounts' \in Seq(SampleRows)
  BY <1>3, <1>8
<1> QED
  BY <1>1, <1>4, <1>10, <1>11, <1>12, SameAccount

\* What the row of a finished account says.
MadeOf(r, i) ==
    /\ r.has = {"settings", "blanks", "systemRoom"}
                 \cup (IF Roster[i] = "admin" THEN {} ELSE {"adminRoom"})
                 \cup (IF HasExtras(i) THEN {"extras"} ELSE {})
    /\ Roster[i] # "admin" => r.support = {1}

\* The rows that belong to the account the run is at.
LEMMA AccountWritten ==
  ASSUME SeedIInv, NEW h \in Handlers, NEW k \in SampleLabels \ {"user"}, at[h] = k,
         NEW l \in SampleLabels \ {"user"}, Continue(h, l),
         UNCHANGED <<production, systems, seeded, pastOrders, wallet, completed, reached, nextUser>>,
         NEW i, i = reached[h].account, NEW r \in SampleRows, r.type = Roster[i],
         accounts' = [accounts EXCEPT ![i] = r],
         l # "next" => r.has = HasAt(l),
         l = "adminRoom" => Roster[i] # "admin",
         l = "extras" => HasExtras(i) /\ r.support = {1},
         l = "next" => MadeOf(r, i)
  PROVE  SeedIInv'
<1>1. /\ i \in DOMAIN Roster /\ i \in Nat /\ i > 0 /\ accounts \in Seq(SampleRows)
      /\ nextUser \in Nat /\ AccountsAt(k, i)
  BY AtAccount
<1>2. InMaking(k, i)
  BY <1>1 DEF AccountsAt
<1>3. Len(accounts) = i /\ (\A j \in 1..i - 1 : WellMade(j)) /\ accounts[i].type = Roster[i]
  BY <1>2 DEF InMaking
<1>4. /\ accounts' \in Seq(SampleRows) /\ Len(accounts') = i /\ accounts'[i] = r
      /\ \A j \in 1..i - 1 : accounts'[j] = accounts[j]
  BY <1>1, <1>3
<1>5. \A j \in 1..i - 1 : WellMade(j)'
  BY <1>3, <1>4, StaysMade
<1>6. l = "next" => WellMade(i)'
  BY <1>4 DEF WellMade, Complete, MadeOf
<1>7. InMaking(l, i)'
  BY <1>4, <1>5, <1>6 DEF InMaking
<1>8. nextUser' \in Nat /\ nextUser' >= nextUser
  BY <1>1
<1> QED
  BY <1>4, <1>7, <1>8, SameAccount

LEMMA GivesOK ==
  ASSUME SeedIInv, NEW h \in Handlers,
         CreateSettings(h) \/ CreateBlanks(h) \/ CreateSystemRoom(h) \/ CreateExtras(h)
  PROVE  SeedIInv'
<1>1. PICK i : i = reached[h].account
  OBVIOUS
<1>2. ASSUME NEW k \in {"settings", "blanks", "systemRoom", "extras"}, NEW l \in SampleLabels \ {"user"},
             Gives(h, k, l),
             k = "settings" => l = "blanks", k = "blanks" => l = "systemRoom",
             k = "systemRoom" => l = IF accounts[i].type = "admin" THEN "next" ELSE "adminRoom",
             k = "extras" => l = "next"
      PROVE  SeedIInv'
  <2>1. /\ at[h] = k /\ Continue(h, l)
        /\ accounts' = [accounts EXCEPT ![i].has = @ \cup {k}]
        /\ UNCHANGED <<production, systems, seeded, pastOrders, wallet, completed, reached, nextUser>>
    BY <1>1, <1>2 DEF Gives, Rest
  <2>2. k \in SampleLabels \ {"user"} /\ k \in Things
    BY DEF SampleLabels, Things
  <2>3. /\ i \in DOMAIN Roster /\ i \in Nat /\ i > 0 /\ accounts \in Seq(SampleRows) /\ AccountsAt(k, i)
    BY <1>1, <2>1, <2>2, AtAccount
  <2>4. InMaking(k, i)
    BY <2>2, <2>3 DEF AccountsAt
  <2>5. Len(accounts) = i /\ accounts[i].type = Roster[i] /\ accounts[i].has = HasAt(k)
    BY <1>2, <2>4 DEF InMaking
  <2>6. accounts[i] \in SampleRows
    BY <2>3, <2>5
  <2>7. PICK hs, su : hs = accounts[i].has \cup {k} /\ su = accounts[i].support
    OBVIOUS
  <2>8. hs \in SUBSET Things /\ su \in SUBSET Nat
    BY <2>2, <2>6, <2>7 DEF SampleRows
  <2>9. PICK r : r = [accounts[i] EXCEPT !.has = hs]
    OBVIOUS
  <2>15. /\ r \in SampleRows /\ r.type = Roster[i] /\ r.has = hs /\ r.support = su
         /\ accounts' = [accounts EXCEPT ![i] = r]
    BY <2>1, <2>5, <2>6, <2>7, <2>8, <2>9 DEF SampleRows
  <2>10. l # "next" => hs = HasAt(l)
    BY <1>2, <2>5, <2>7 DEF HasAt
  <2>11. l = "adminRoom" => Roster[i] # "admin"
    BY <1>2, <2>5
  <2>12. l # "extras"
    BY <1>2
  <2>13. ASSUME l = "next"
         PROVE  /\ hs = {"settings", "blanks", "systemRoom"}
                          \cup (IF Roster[i] = "admin" THEN {} ELSE {"adminRoom"})
                          \cup (IF HasExtras(i) THEN {"extras"} ELSE {})
                /\ Roster[i] # "admin" => su = {1}
    <3>1. CASE k = "systemRoom"
      <4>1. Roster[i] = "admin"
        BY <1>2, <2>5, <2>13, <3>1
      <4>2. ~HasExtras(i)
        BY <2>3, <4>1, ExtrasForMembers
      <4>3. hs = {"settings", "blanks"} \cup {"systemRoom"}
        BY <2>5, <2>7, <3>1 DEF HasAt
      <4> QED
        BY <4>1, <4>2, <4>3
    <3>2. CASE k = "extras"
      <4>1. HasExtras(i) /\ su = {1}
        BY <2>4, <2>7, <3>2 DEF InMaking
      <4>2. Roster[i] # "admin"
        BY <2>3, <4>1, ExtrasForMembers
      <4>3. hs = {"settings", "blanks", "systemRoom", "adminRoom"} \cup {"extras"}
        BY <2>5, <2>7, <3>2 DEF HasAt
      <4> QED
        BY <4>1, <4>2, <4>3
    <3> QED
      BY <1>2, <2>13, <3>1, <3>2
  <2>14. /\ l # "next" => r.has = HasAt(l)
         /\ l = "extras" => HasExtras(i) /\ r.support = {1}
    BY <2>10, <2>12, <2>15
  <2>16. l = "next" => MadeOf(r, i)
    BY <2>13, <2>15 DEF MadeOf
  <2>17. /\ at[h] = k /\ Continue(h, l) /\ i = reached[h].account /\ k \in SampleLabels \ {"user"}
         /\ UNCHANGED <<production, systems, seeded, pastOrders, wallet, completed, reached, nextUser>>
    BY <1>1, <2>1, <2>2
  <2> QED
    BY <2>11, <2>14, <2>15, <2>16, <2>17, AccountWritten
<1>3. {"blanks", "systemRoom", "next", "adminRoom"} \subseteq SampleLabels \ {"user"}
  BY DEF SampleLabels
<1>4. CASE CreateSettings(h)
  BY <1>2, <1>3, <1>4 DEF CreateSettings
<1>5. CASE CreateBlanks(h)
  BY <1>2, <1>3, <1>5 DEF CreateBlanks
<1>6. CASE CreateSystemRoom(h)
  <2>1. PICK l : l = IF accounts[i].type = "admin" THEN "next" ELSE "adminRoom"
    OBVIOUS
  <2>2. Gives(h, "systemRoom", l)
    BY <1>1, <1>6, <2>1 DEF CreateSystemRoom, Account
  <2>3. l \in SampleLabels \ {"user"}
    BY <1>3, <2>1
  <2> QED
    BY <1>2, <2>1, <2>2, <2>3
<1>7. CASE CreateExtras(h)
  BY <1>2, <1>3, <1>7 DEF CreateExtras
<1> QED
  BY <1>4, <1>5, <1>6, <1>7

LEMMA CreateAdminRoomOK ==
  ASSUME SeedIInv, NEW h \in Handlers, CreateAdminRoom(h)
  PROVE  SeedIInv'
<1>1. PICK i, l : i = reached[h].account /\ l = IF HasExtras(reached[h].account) THEN "extras" ELSE "next"
  OBVIOUS
<1>2. PICK hs, su : /\ hs = accounts[i].has \cup {"adminRoom"}
                    /\ su = {j \in DOMAIN accounts : accounts[j].type = "admin"}
  OBVIOUS
<1>3. /\ at[h] = "adminRoom" /\ Continue(h, l)
      /\ accounts' = [accounts EXCEPT ![i].has = @ \cup {"adminRoom"}, ![i].support = su]
      /\ UNCHANGED <<production, systems, seeded, pastOrders, wallet, completed, reached, nextUser>>
  BY <1>1, <1>2 DEF CreateAdminRoom, Rest
<1>4. "adminRoom" \in SampleLabels \ {"user"} /\ "adminRoom" \in Things /\ l \in SampleLabels \ {"user"}
  BY <1>1 DEF SampleLabels, Things
<1>5. /\ i \in DOMAIN Roster /\ i \in Nat /\ i > 0 /\ accounts \in Seq(SampleRows)
      /\ AccountsAt("adminRoom", i)
  BY <1>1, <1>3, <1>4, AtAccount
<1>6. InMaking("adminRoom", i)
  BY <1>4, <1>5 DEF AccountsAt
<1>7. /\ Len(accounts) = i /\ accounts[i].type = Roster[i] /\ Roster[i] # "admin"
      /\ accounts[i].has = {"settings", "blanks", "systemRoom"}
      /\ \A j \in 1..i - 1 : accounts[j].type = Roster[j]
  BY <1>6 DEF InMaking, HasAt, WellMade
<1>8. \A j \in DOMAIN accounts : accounts[j].type = Roster[j]
  BY <1>5, <1>7
<1>9. su = {1}
  <2>1. DOMAIN accounts = 1..i /\ i # 1 /\ i <= Len(Roster)
    BY <1>5, <1>7, SeedSets
  <2>2. \A j \in 1..i : j \in DOMAIN Roster
    BY <1>5, <2>1, SeedSets
  <2>3. 1 \in 1..i
    BY <1>5
  <2>4. \A j \in 1..i : Roster[j] = "admin" <=> j = 1
    BY <2>2, SeedSets
  <2> QED
    BY <1>2, <1>8, <2>1, <2>3, <2>4
<1>10. hs \in SUBSET Things /\ su \in SUBSET Nat
  BY <1>2, <1>7, <1>9 DEF Things
<1>11. l # "next" => hs = HasAt(l)
  BY <1>1, <1>2, <1>7 DEF HasAt
<1>12. l # "adminRoom" /\ (l = "extras" => HasExtras(i) /\ su = {1})
  BY <1>1, <1>9
<1>13. l = "next" => /\ hs = {"settings", "blanks", "systemRoom"}
                               \cup (IF Roster[i] = "admin" THEN {} ELSE {"adminRoom"})
                               \cup (IF HasExtras(i) THEN {"extras"} ELSE {})
                     /\ Roster[i] # "admin" => su = {1}
  BY <1>1, <1>2, <1>7, <1>9
<1>14. accounts[i] \in SampleRows
  BY <1>5, <1>7
<1>15. PICK r : r = [accounts[i] EXCEPT !.has = hs, !.support = su]
  OBVIOUS
<1>16. /\ r \in SampleRows /\ r.type = Roster[i] /\ r.has = hs /\ r.support = su
       /\ accounts' = [accounts EXCEPT ![i] = r]
  BY <1>2, <1>3, <1>7, <1>10, <1>14, <1>15 DEF SampleRows
<1>17. /\ l # "next" => r.has = HasAt(l)
       /\ l = "adminRoom" => Roster[i] # "admin"
       /\ l = "extras" => HasExtras(i) /\ r.support = {1}
  BY <1>11, <1>12, <1>16
<1>18. l = "next" => MadeOf(r, i)
  BY <1>13, <1>16 DEF MadeOf
<1>19. at[h] = "adminRoom" /\ Continue(h, l) /\ i = reached[h].account
       /\ UNCHANGED <<production, systems, seeded, pastOrders, wallet, completed, reached, nextUser>>
  BY <1>1, <1>3
<1> QED
  BY <1>4, <1>16, <1>17, <1>18, <1>19, AccountWritten

LEMMA NextAccountOK ==
  ASSUME SeedIInv, NEW h \in Handlers, NextAccount(h)
  PROVE  SeedIInv'
<1>1. PICK i : i = reached[h].account
  OBVIOUS
<1>2. PICK l : l = IF i = 6 THEN "rules" ELSE IF i < Len(Roster) THEN "user" ELSE "chats"
  OBVIOUS
<1>3. PICK m : m = IF i < Len(Roster) THEN i + 1 ELSE i
  OBVIOUS
<1>4. /\ at[h] = "next" /\ Continue(h, l) /\ reached' = [reached EXCEPT ![h].account = m]
      /\ UNCHANGED <<production, systems, seeded, pastOrders, wallet, completed>>
      /\ nextUser' = nextUser /\ accounts' = accounts
  BY <1>1, <1>2, <1>3, SeedSets DEF NextAccount, Data
<1>5. "next" \in SampleLabels /\ l \in SampleLabels \cup {"rules", "chats"}
  BY <1>2 DEF SampleLabels
<1>6. /\ i \in DOMAIN Roster /\ i \in Nat /\ i > 0 /\ accounts \in Seq(SampleRows)
      /\ reached[h] \in SeedPlaces /\ reached \in [Handlers -> SeedPlaces]
      /\ nextUser \in Nat /\ AccountsAt("next", i)
  BY <1>1, <1>4, <1>5, AtAccount
<1>7. InMaking("next", i)
  BY <1>5, <1>6 DEF AccountsAt
<1>8. AllMade(i)
  BY <1>6, <1>7 DEF InMaking, AllMade
<1>9. i <= Len(Roster) /\ Len(Roster) > 7 /\ Len(Roster) \in Nat /\ m \in DOMAIN Roster
  BY <1>3, <1>6, SeedSets
<1>10. PICK q : q = [reached[h] EXCEPT !.account = m]
  OBVIOUS
<1>11. q \in SeedPlaces /\ q.account = m /\ reached' = [reached EXCEPT ![h] = q]
  BY <1>4, <1>6, <1>9, <1>10 DEF SeedPlaces
<1>12. NextPhase(l, m) = NextPhase("next", i)
  <2>1. NextPhase("next", i) = IF i <= 6 THEN 9 ELSE 13
    BY <1>5 DEF NextPhase
  <2>2. CASE i = 6
    <3>1. l = "rules" /\ NextPhase("rules", m) = 9
      BY <1>2, <2>2 DEF NextPhase, PhaseNo, SampleLabels, PastLabels
    <3> QED
      BY <2>1, <2>2, <3>1
  <2>3. CASE i # 6 /\ i < Len(Roster)
    <3>1. l = "user" /\ m = i + 1 /\ "user" \in SampleLabels
      BY <1>2, <1>3, <2>3 DEF SampleLabels
    <3>2. NextPhase("user", m) = IF m <= 6 THEN 9 ELSE 13
      BY <3>1 DEF NextPhase
    <3> QED
      BY <1>6, <2>1, <2>3, <3>1, <3>2
  <2>4. CASE i = Len(Roster)
    <3>1. l = "chats" /\ NextPhase("chats", m) = 13
      BY <1>2, <1>9, <2>4 DEF NextPhase, PhaseNo, SampleLabels, PastLabels
    <3> QED
      BY <1>9, <2>1, <2>4, <3>1
  <2> QED
    BY <1>6, <1>9, <2>2, <2>3, <2>4
<1>13. AccountsAt(l, m)
  <2>1. CASE i = 6
    <3>1. l = "rules" /\ m = 7
      BY <1>2, <1>3, <1>9, <2>1
    <3> QED
      BY <1>8, <2>1, <3>1 DEF AccountsAt, Reference, SampleLabels, PastLabels
  <2>2. CASE i # 6 /\ i < Len(Roster)
    <3>1. l = "user" /\ m - 1 = i
      BY <1>2, <1>3, <1>6, <2>2
    <3> QED
      BY <1>8, <3>1 DEF AccountsAt, Reference, SampleLabels, PastLabels
  <2>3. CASE i = Len(Roster)
    <3>1. l = "chats"
      BY <1>2, <1>9, <2>3
    <3> QED
      BY <1>8, <2>3, <3>1 DEF AccountsAt, Reference, SampleLabels, PastLabels
  <2> QED
    BY <1>6, <1>9, <2>1, <2>2, <2>3
<1>14. AccountsAt(l, q.account)'
  <2>1. AccountsAt(l, m)'
    BY <1>4, <1>13, SameRows
  <2> QED
    BY <1>11, <2>1
<1>15. NextPhase(l, q.account) = NextPhase("next", reached[h].account)
  BY <1>1, <1>11, <1>12
<1>16. nextUser' \in Nat /\ nextUser' >= nextUser /\ accounts' \in Seq(SampleRows)
  BY <1>4, <1>6
<1> QED
  BY <1>4, <1>5, <1>11, <1>14, <1>15, <1>16, AccountStep

-----------------------------------------------------------------------------
(* The settled orders *)

\* A step of a run that is at an order.
LEMMA OrderStep ==
  ASSUME SeedIInv, NEW h \in Handlers, NEW k \in PastLabels \cup {"lastChat"}, at[h] = k,
         NEW l \in PastLabels \cup {"lastChat", "posts"}, Continue(h, l),
         UNCHANGED <<production, nextUser, systems, seeded, accounts, completed>>,
         pastOrders' \in Seq(PastRows), wallet' \in [DOMAIN Roster -> Nat],
         NEW q \in SeedPlaces, reached' = [reached EXCEPT ![h] = q],
         OrdersAt(l, q)',
         \A i \in DOMAIN Roster : wallet'[i] + Uncredited(l, q, i)' = EarnedIn(pastOrders', i)
  PROVE  SeedIInv'
<1>1. /\ k \in RunLabels /\ l \in RunLabels /\ l \in SeedLabels
      /\ k \notin Reference /\ l \notin Reference
      /\ k \in PastLabels \cup {"chats", "lastChat", "posts", "friendships"}
      /\ l \notin Reference \cup {"admins", "user"} /\ l \notin SampleLabels
      /\ l \notin {"rules", "venues", "gifts", "notices"}
  BY DEF RunLabels, SeedLabels, SeedPhases, Reference, Samples, SampleLabels, PastLabels
<1>2. PICK p : p = reached[h]
  OBVIOUS
<1>3. SeedTyped /\ SeedRuns(h) /\ SeedProgress(k, p) /\ nextUser \in Nat
  BY <1>1, <1>2, RunKnows DEF SeedTyped
<1>4. at' \in [Handlers -> SeedLabels] /\ MovesTo(h, l) /\ faults' \in Nat
  BY <1>1, <1>3, SeedMoves
<1>5. ~production /\ WrittenOnce(NextPhase(k, p.account)) /\ AllMade(Len(Roster))
  BY <1>1, <1>3 DEF SeedProgress, AccountsAt
<1>6. SeedTyped'
  BY <1>3, <1>4 DEF SeedTyped
<1>7. NextPhase(l, q.account) = NextPhase(k, p.account)
  BY DEF NextPhase, PhaseNo, SampleLabels, PastLabels
<1>8. WrittenOnce(NextPhase(l, q.account))'
  BY <1>5, <1>7 DEF WrittenOnce
<1>9. AccountsAt(l, q.account)'
  <2>1. AllMade(Len(Roster))'
    BY <1>5 DEF AllMade, WellMade, Complete
  <2> QED
    BY <1>1, <2>1 DEF AccountsAt
<1>10. \A i \in DOMAIN Roster : wallet'[i] + Uncredited(l, q, i)' = EarnedBy(i)'
  BY EarnedByRowsThen
<1>11. SeedProgress(l, q)'
  BY <1>5, <1>8, <1>9, <1>10 DEF SeedProgress
<1>12. reached'[h] = q /\ \A g \in Handlers \ {h} : reached'[g] = reached[g]
  BY <1>3 DEF SeedTyped
<1>13. SeedProgress(l, reached[h])'
  BY <1>11, <1>12
<1>14. nextUser' >= nextUser
  BY <1>3
<1> QED
  BY <1>1, <1>3, <1>4, <1>6, <1>12, <1>13, <1>14, RunGoesOn

\* What a run that is at an order knows.
LEMMA AtOrder ==
  ASSUME SeedIInv, NEW h \in Handlers, NEW k \in PastLabels \cup {"lastChat"}, at[h] = k,
         NEW p, p = reached[h]
  PROVE  /\ p \in SeedPlaces /\ reached \in [Handlers -> SeedPlaces]
         /\ pastOrders \in Seq(PastRows) /\ wallet \in [DOMAIN Roster -> Nat]
         /\ OrdersAt(k, p) /\ k \in RunLabels
         /\ \A i \in DOMAIN Roster : wallet[i] + Uncredited(k, p, i) = EarnedIn(pastOrders, i)
         /\ reached = [reached EXCEPT ![h] = p]
<1>1. k \in RunLabels
  BY DEF RunLabels
<1>2. SeedTyped /\ SeedProgress(k, p) /\ p \in SeedPlaces
  BY <1>1, RunKnows
<1>3. /\ reached \in [Handlers -> SeedPlaces]
      /\ pastOrders \in Seq(PastRows) /\ wallet \in [DOMAIN Roster -> Nat]
  BY <1>2 DEF SeedTyped
<1>4. \A i \in DOMAIN Roster : wallet[i] + Uncredited(k, p, i) = EarnedIn(pastOrders, i)
  BY <1>2, EarnedByRows DEF SeedProgress
<1> QED
  BY <1>1, <1>2, <1>3, <1>4 DEF SeedProgress

\* Nothing of the orders changes.
LEMMA SameOrder ==
  ASSUME SeedIInv, NEW h \in Handlers, NEW k \in {"orderRoom", "lastChat"}, at[h] = k,
         NEW l \in {"link", "posts"}, Continue(h, l), k = "orderRoom" => l = "link",
         k = "lastChat" => l = "posts",
         UNCHANGED <<production, nextUser, systems, seeded, accounts, completed, pastOrders, wallet, reached>>
  PROVE  SeedIInv'
<1>1. PICK p : p = reached[h]
  OBVIOUS
<1>2. k \in PastLabels \cup {"lastChat"} /\ l \in PastLabels \cup {"lastChat", "posts"}
  BY DEF PastLabels
<1>3. /\ p \in SeedPlaces /\ reached \in [Handlers -> SeedPlaces]
      /\ pastOrders \in Seq(PastRows) /\ wallet \in [DOMAIN Roster -> Nat]
      /\ OrdersAt(k, p)
      /\ \A i \in DOMAIN Roster : wallet[i] + Uncredited(k, p, i) = EarnedIn(pastOrders, i)
      /\ reached = [reached EXCEPT ![h] = p]
  BY <1>1, <1>2, AtOrder
<1>4. OrdersAt(l, p)
  BY <1>3 DEF OrdersAt, LastAt, PastLabels
<1>5. OrdersAt(l, p)'
  BY <1>4, SameRows
<1>6. \A i \in DOMAIN Roster : wallet'[i] + Uncredited(l, p, i)' = EarnedIn(pastOrders', i)
  <2>1. \A i : Uncredited(k, p, i) = 0 /\ Uncredited(l, p, i)' = 0
    BY DEF Uncredited
  <2> QED
    BY <1>3, <2>1
<1>7. pastOrders' \in Seq(PastRows) /\ wallet' \in [DOMAIN Roster -> Nat] /\ reached' = [reached EXCEPT ![h] = p]
  BY <1>3
<1>8. UNCHANGED <<production, nextUser, systems, seeded, accounts, completed>>
  OBVIOUS
<1> QED
  BY <1>2, <1>3, <1>5, <1>6, <1>7, <1>8, OrderStep

LEMMA CreateOrderOK ==
  ASSUME SeedIInv, NEW h \in Handlers, CreateOrder(h)
  PROVE  SeedIInv'
<1>1. PICK p : p = reached[h]
  OBVIOUS
<1>2. PICK fee \in SampleFees, second \in SampleCasts :
        pastOrders' = Append(pastOrders,
            [fee |-> fee, casts |-> <<Fay, second>>, room |-> FALSE, booked |-> {}, linked |-> {}])
  BY DEF CreateOrder
<1>3. PICK r : r = [fee |-> fee, casts |-> <<2, second>>, room |-> FALSE, booked |-> {}, linked |-> {}]
  OBVIOUS
<1>4. /\ at[h] = "order" /\ Continue(h, "orderRoom") /\ pastOrders' = Append(pastOrders, r)
      /\ UNCHANGED <<production, nextUser, systems, seeded, accounts, completed, wallet>>
  BY <1>2, <1>3 DEF CreateOrder, Fay, Kept
<1>5. reached' = [reached EXCEPT ![h].order = Len(pastOrders'), ![h].cast = 1]
  BY DEF CreateOrder
<1>6. "order" \in PastLabels \cup {"lastChat"} /\ "orderRoom" \in PastLabels \cup {"lastChat", "posts"}
  BY DEF PastLabels
<1>7. /\ p \in SeedPlaces /\ reached \in [Handlers -> SeedPlaces]
      /\ pastOrders \in Seq(PastRows) /\ wallet \in [DOMAIN Roster -> Nat]
      /\ OrdersAt("order", p)
      /\ \A i \in DOMAIN Roster : wallet[i] + Uncredited("order", p, i) = EarnedIn(pastOrders, i)
  BY <1>1, <1>4, <1>6, AtOrder
<1>8. PICK n : n = Len(pastOrders) + 1
  OBVIOUS
<1>9. n \in Nat /\ n > 0 /\ n <= SampleOrders /\ \A o \in DOMAIN pastOrders : WellSettled(o)
  BY <1>7, <1>8, SeedSets DEF OrdersAt
<1>10. r \in PastRows
  <2>1. fee \in Nat
    BY SeedAssumption
  <2> QED
    BY <1>3, <2>1 DEF PastRows
<1>11. /\ pastOrders' \in Seq(PastRows) /\ Len(pastOrders') = n /\ pastOrders'[n] = r
       /\ \A o \in DOMAIN pastOrders : pastOrders'[o] = pastOrders[o] /\ o < n
       /\ \A o \in DOMAIN pastOrders' : o \in DOMAIN pastOrders \/ o = n
       /\ DOMAIN pastOrders \subseteq DOMAIN pastOrders'
  BY <1>4, <1>7, <1>8, <1>10
<1>12. PICK q : q = [p EXCEPT !.order = n, !.cast = 1]
  OBVIOUS
<1>13. /\ q \in SeedPlaces /\ q.order = n /\ q.cast = 1 /\ reached' = [reached EXCEPT ![h] = q]
  <2>1. reached' = [reached EXCEPT ![h].order = n, ![h].cast = 1]
    BY <1>5, <1>11
  <2> QED
    BY <1>1, <1>7, <1>9, <1>12, <2>1 DEF SeedPlaces
<1>14. OrdersAt("orderRoom", q)'
  <2>1. \A o \in DOMAIN pastOrders' : o < Len(pastOrders') => WellSettled(o)'
    BY <1>8, <1>9, <1>11 DEF WellSettled
  <2>2. LastAt("orderRoom", q.cast)'
    <3>1. 1..0 = {} /\ 1 - 1 = 0
      OBVIOUS
    <3>2. pastOrders'[Len(pastOrders')] = r /\ r.room = FALSE /\ r.booked = {} /\ r.linked = {}
      BY <1>3, <1>11
    <3>3. ("orderRoom" \notin {"orderRoom", "link"}) = FALSE
      OBVIOUS
    <3>4. 1..q.cast - 1 = {}
      BY <1>13, <3>1
    <3> QED
      BY <1>13, <3>2, <3>3, <3>4 DEF LastAt
  <2>3. q.order = Len(pastOrders') /\ q.order \in 1..SampleOrders
    BY <1>9, <1>11, <1>13, SeedSets
  <2> QED
    BY <2>1, <2>2, <2>3 DEF OrdersAt, PastLabels
<1>15. \A i : EarnedIn(pastOrders', i) = EarnedIn(pastOrders, i)
  <2> SUFFICES ASSUME NEW i PROVE EarnedIn(pastOrders', i) = EarnedIn(pastOrders, i)
    OBVIOUS
  <2>1. n \in DOMAIN pastOrders' => pastOrders'[n].booked = {}
    BY <1>3, <1>11
  <2>2. BookedIn(pastOrders', i) = BookedIn(pastOrders, i)
    BY <1>11, <2>1 DEF BookedIn
  <2>3. \A x \in BookedIn(pastOrders, i) : pastOrders'[x[1]].fee = pastOrders[x[1]].fee
    BY <1>11 DEF BookedIn
  <2> QED
    BY <2>2, <2>3, SameEarnings
<1>16. \A i \in DOMAIN Roster : wallet'[i] + Uncredited("orderRoom", q, i)' = EarnedIn(pastOrders', i)
  <2>1. \A i : Uncredited("order", p, i) = 0 /\ Uncredited("orderRoom", q, i)' = 0
    BY DEF Uncredited
  <2> QED
    BY <1>4, <1>7, <1>15, <2>1
<1>17. /\ UNCHANGED <<production, nextUser, systems, seeded, accounts, completed>>
       /\ wallet' \in [DOMAIN Roster -> Nat]
  BY <1>4, <1>7
<1>18. at[h] = "order" /\ Continue(h, "orderRoom") /\ pastOrders' \in Seq(PastRows)
  BY <1>4, <1>11
<1> QED
  BY <1>6, <1>13, <1>14, <1>16, <1>17, <1>18, OrderStep

\* What the row of the order at hand says.
RowAt(r, l, c) ==
    /\ r.room = (l \notin {"orderRoom", "link"})
    /\ r.booked = IF l \in {"attendance", "credit"} THEN 1..c ELSE 1..c - 1
    /\ r.linked = IF l = "credit" THEN 1..c ELSE 1..c - 1
    /\ l \in {"orderRoom", "link"} => c = 1

LEMMA LastIsRow ==
  ASSUME NEW l, NEW c
  PROVE  LastAt(l, c) <=> RowAt(pastOrders[Len(pastOrders)], l, c)
BY DEF LastAt, RowAt

LEMMA LastIsRowThen == \A l, c : LastAt(l, c)' <=> RowAt(pastOrders'[Len(pastOrders')], l, c)
<1>1. \A l, c : LastAt(l, c) <=> RowAt(pastOrders[Len(pastOrders)], l, c)
  BY LastIsRow
<1>2. (\A l, c : LastAt(l, c) <=> RowAt(pastOrders[Len(pastOrders)], l, c))'
  BY <1>1, LastIsRow, PTL
<1> QED
  BY <1>2 DEF RowAt

\* The order the run is at is written.
LEMMA OrderWritten ==
  ASSUME SeedIInv, NEW h \in Handlers, NEW k \in {"link", "book", "attendance"}, at[h] = k,
         NEW l \in {"book", "attendance", "credit"}, Continue(h, l),
         NEW p, p = reached[h], NEW r \in PastRows, pastOrders' = [pastOrders EXCEPT ![p.order] = r],
         UNCHANGED <<production, nextUser, systems, seeded, accounts, completed, wallet, reached>>,
         RowAt(r, l, p.cast),
         \A i \in DOMAIN Roster : wallet[i] + Uncredited(l, p, i)' = EarnedIn(pastOrders', i)
  PROVE  SeedIInv'
<1>1. /\ k \in PastLabels \cup {"lastChat"} /\ l \in PastLabels \cup {"lastChat", "posts"}
      /\ k \in PastLabels \ {"order"} /\ l \in PastLabels \ {"order"}
      /\ l \notin {"orderRoom", "link"}
  BY DEF PastLabels
<1>2. /\ p \in SeedPlaces /\ reached \in [Handlers -> SeedPlaces]
      /\ pastOrders \in Seq(PastRows) /\ wallet \in [DOMAIN Roster -> Nat]
      /\ OrdersAt(k, p) /\ reached = [reached EXCEPT ![h] = p]
  BY <1>1, AtOrder
<1>3. PICK n : n = Len(pastOrders)
  OBVIOUS
<1>4. /\ p.order = n /\ n \in 1..SampleOrders
      /\ \A o \in DOMAIN pastOrders : o < n => WellSettled(o)
  BY <1>1, <1>2, <1>3 DEF OrdersAt
<1>5. /\ pastOrders' \in Seq(PastRows) /\ Len(pastOrders') = n /\ pastOrders'[n] = r
      /\ DOMAIN pastOrders' = DOMAIN pastOrders
      /\ \A o \in DOMAIN pastOrders : o < n => pastOrders'[o] = pastOrders[o]
  BY <1>2, <1>3, <1>4
<1>6. \A o \in DOMAIN pastOrders' : o < Len(pastOrders') => WellSettled(o)'
  BY <1>4, <1>5 DEF WellSettled
<1>7. LastAt(l, p.cast)'
  <2>1. pastOrders'[Len(pastOrders')] = r
    BY <1>5
  <2> QED
    BY <2>1, LastIsRowThen
<1>8. OrdersAt(l, p)'
  <2>1. p.order = Len(pastOrders') /\ p.order \in 1..SampleOrders
    BY <1>4, <1>5
  <2>2. l \notin {"lastChat", "posts", "friendships"}
    OBVIOUS
  <2> QED
    BY <1>1, <1>6, <1>7, <2>1, <2>2 DEF OrdersAt
<1>9. \A i \in DOMAIN Roster : wallet'[i] + Uncredited(l, p, i)' = EarnedIn(pastOrders', i)
  OBVIOUS
<1>10. /\ wallet' \in [DOMAIN Roster -> Nat] /\ reached' = [reached EXCEPT ![h] = p]
       /\ UNCHANGED <<production, nextUser, systems, seeded, accounts, completed>>
  BY <1>2
<1>11. pastOrders' \in Seq(PastRows) /\ p \in SeedPlaces
  BY <1>2, <1>5
<1>12. k \in PastLabels \cup {"lastChat"} /\ l \in PastLabels \cup {"lastChat", "posts"}
  BY <1>1
<1> QED
  BY <1>8, <1>9, <1>10, <1>11, <1>12, OrderStep

\* The order a run writes.
LEMMA OrderAtHand ==
  ASSUME SeedIInv, NEW h \in Handlers, NEW k \in PastLabels \ {"order"}, at[h] = k,
         NEW p, p = reached[h], NEW r, r = pastOrders[p.order]
  PROVE  /\ p \in SeedPlaces /\ p.cast \in {1, 2} /\ p.order \in DOMAIN pastOrders
         /\ p.order = Len(pastOrders) /\ p.order <= SampleOrders
         /\ r \in PastRows /\ r.fee \in Nat /\ r.casts[p.cast] \in DOMAIN Roster
         /\ RowAt(r, k, p.cast)
         /\ pastOrders \in Seq(PastRows) /\ wallet \in [DOMAIN Roster -> Nat]
         /\ \A i \in DOMAIN Roster : wallet[i] + Uncredited(k, p, i) = EarnedIn(pastOrders, i)
         /\ \A i : EarnedIn(pastOrders, i) \in Int
<1>1. k \in PastLabels \cup {"lastChat"}
  OBVIOUS
<1>2. /\ p \in SeedPlaces /\ pastOrders \in Seq(PastRows) /\ OrdersAt(k, p)
      /\ wallet \in [DOMAIN Roster -> Nat]
      /\ \A i \in DOMAIN Roster : wallet[i] + Uncredited(k, p, i) = EarnedIn(pastOrders, i)
  BY <1>1, AtOrder
<1>3. p.order = Len(pastOrders) /\ p.order \in 1..SampleOrders /\ LastAt(k, p.cast)
  BY <1>2 DEF OrdersAt
<1>4. p.order \in DOMAIN pastOrders /\ p.order <= SampleOrders
  BY <1>2, <1>3, SeedSets
<1>5. r \in PastRows
  BY <1>2, <1>4
<1>6. p.cast \in {1, 2} /\ r.fee \in Nat /\ r.casts \in {2} \X SampleCasts
  BY <1>2, <1>5 DEF SeedPlaces, PastRows
<1>7. r.casts[p.cast] \in DOMAIN Roster
  <2>1. r.casts[1] = 2 /\ r.casts[2] \in SampleCasts
    BY <1>6
  <2>2. 2 \in DOMAIN Roster /\ SampleCasts \subseteq DOMAIN Roster
    BY SeedSets DEF SampleCasts
  <2> QED
    BY <1>6, <2>1, <2>2
<1>8. ASSUME NEW i PROVE EarnedIn(pastOrders, i) \in Int
  <2>1. PICK S, f : S = BookedIn(pastOrders, i) /\ f = FeesIn(pastOrders, i)
    OBVIOUS
  <2>2. IsFiniteSet(S) /\ \A x \in S : f[x] \in Nat
    BY <1>2, <2>1, BookedFinite
  <2>3. \A x \in S : f[x] \in Int
    BY <2>2
  <2>4. SumOver(f, S) \in Int
    BY <2>2, <2>3, SumInt
  <2> QED
    BY <2>1, <2>4 DEF EarnedIn
<1>9. RowAt(r, k, p.cast)
  BY <1>3, LastIsRow
<1> QED
  BY <1>2, <1>3, <1>4, <1>5, <1>6, <1>7, <1>8, <1>9

\* As long as no booking is added nobody has earned more.
LEMMA SameBookings ==
  ASSUME NEW s \in Seq(PastRows), NEW n \in DOMAIN s, NEW r \in PastRows,
         r.fee = s[n].fee, r.casts = s[n].casts, r.booked = s[n].booked, NEW i
  PROVE  EarnedIn([s EXCEPT ![n] = r], i) = EarnedIn(s, i)
<1>1. PICK t : t = [s EXCEPT ![n] = r]
  OBVIOUS
<1>2. /\ DOMAIN t = DOMAIN s
      /\ \A o \in DOMAIN s : t[o].fee = s[o].fee /\ t[o].casts = s[o].casts /\ t[o].booked = s[o].booked
  BY <1>1
<1>3. BookedIn(t, i) = BookedIn(s, i) /\ \A x \in BookedIn(s, i) : t[x[1]].fee = s[x[1]].fee
  BY <1>2 DEF BookedIn
<1> QED
  BY <1>1, <1>3, SameEarnings

LEMMA LinkOrderRoomOK ==
  ASSUME SeedIInv, NEW h \in Handlers, LinkOrderRoom(h)
  PROVE  SeedIInv'
<1>1. PICK p : p = reached[h]
  OBVIOUS
<1>2. PICK s : s = pastOrders[p.order]
  OBVIOUS
<1>3. at[h] = "link" /\ Continue(h, "book") /\ pastOrders' = [pastOrders EXCEPT ![p.order].room = TRUE]
      /\ UNCHANGED <<production, nextUser, systems, seeded, accounts, completed, wallet, reached>>
  BY <1>1 DEF LinkOrderRoom, Kept
<1>4. "link" \in PastLabels \ {"order"}
  BY DEF PastLabels
<1>5. /\ p.order \in DOMAIN pastOrders /\ s \in PastRows /\ RowAt(s, "link", p.cast)
      /\ pastOrders \in Seq(PastRows) /\ wallet \in [DOMAIN Roster -> Nat]
      /\ \A i \in DOMAIN Roster : wallet[i] + Uncredited("link", p, i) = EarnedIn(pastOrders, i)
  BY <1>1, <1>2, <1>3, <1>4, OrderAtHand
<1>6. PICK r : r = [s EXCEPT !.room = TRUE]
  OBVIOUS
<1>7. /\ r \in PastRows /\ r.room = TRUE /\ r.fee = s.fee /\ r.casts = s.casts
      /\ r.booked = s.booked /\ r.linked = s.linked
  BY <1>5, <1>6 DEF PastRows
<1>8. pastOrders' = [pastOrders EXCEPT ![p.order] = r]
  BY <1>2, <1>3, <1>6
<1>9. \A i : EarnedIn(pastOrders', i) = EarnedIn(pastOrders, i)
  BY <1>2, <1>5, <1>7, <1>8, SameBookings
<1>10. \A i : Uncredited("link", p, i) = 0 /\ Uncredited("book", p, i)' = 0
  BY DEF Uncredited
<1>11. RowAt(r, "book", p.cast)
  <2>1. ("book" \notin {"orderRoom", "link"}) = TRUE
    OBVIOUS
  <2> QED
    BY <1>5, <1>7, <2>1 DEF RowAt
<1>12. \A i \in DOMAIN Roster : wallet[i] + Uncredited("book", p, i)' = EarnedIn(pastOrders', i)
  BY <1>5, <1>9, <1>10
<1>13. at[h] = "link" /\ Continue(h, "book")
       /\ UNCHANGED <<production, nextUser, systems, seeded, accounts, completed, wallet, reached>>
  BY <1>3
<1> QED
  BY <1>1, <1>7, <1>8, <1>11, <1>12, <1>13, OrderWritten

LEMMA BookAttendanceOK ==
  ASSUME SeedIInv, NEW h \in Handlers, BookAttendance(h)
  PROVE  SeedIInv'
<1>1. PICK p : p = reached[h]
  OBVIOUS
<1>2. PICK s : s = pastOrders[p.order]
  OBVIOUS
<1>3. /\ at[h] = "book" /\ Continue(h, "attendance")
      /\ pastOrders' = [pastOrders EXCEPT ![p.order].booked = @ \cup {p.cast}]
      /\ UNCHANGED <<production, nextUser, systems, seeded, accounts, completed, wallet, reached>>
  BY <1>1 DEF BookAttendance, Kept
<1>4. "book" \in PastLabels \ {"order"}
  BY DEF PastLabels
<1>5. /\ p.cast \in {1, 2} /\ p.order \in DOMAIN pastOrders
      /\ s \in PastRows /\ s.fee \in Nat /\ RowAt(s, "book", p.cast)
      /\ pastOrders \in Seq(PastRows) /\ wallet \in [DOMAIN Roster -> Nat]
      /\ \A i : EarnedIn(pastOrders, i) \in Int
      /\ \A i \in DOMAIN Roster : wallet[i] + Uncredited("book", p, i) = EarnedIn(pastOrders, i)
  BY <1>1, <1>2, <1>3, <1>4, OrderAtHand
<1>14. s.booked = 1..p.cast - 1 /\ s.linked = 1..p.cast - 1 /\ s.room = TRUE
  <2>1. ("book" \notin {"orderRoom", "link"}) = TRUE
    OBVIOUS
  <2> QED
    BY <1>5, <2>1 DEF RowAt
<1>6. PICK r : r = [s EXCEPT !.booked = s.booked \cup {p.cast}]
  OBVIOUS
<1>7. /\ r \in PastRows /\ r.room = TRUE /\ r.fee = s.fee /\ r.casts = s.casts
      /\ r.booked = s.booked \cup {p.cast} /\ r.linked = s.linked
  BY <1>5, <1>6, <1>14 DEF PastRows
<1>8. pastOrders' = [pastOrders EXCEPT ![p.order] = r]
  BY <1>2, <1>3, <1>6
<1>9. r.booked = 1..p.cast
  BY <1>5, <1>7, <1>14
<1>10. /\ pastOrders' \in Seq(PastRows) /\ DOMAIN pastOrders' = DOMAIN pastOrders
       /\ pastOrders'[p.order] = r
       /\ \A o \in DOMAIN pastOrders : o # p.order => pastOrders'[o] = pastOrders[o]
  BY <1>5, <1>7, <1>8
<1>11. ASSUME NEW i \in DOMAIN Roster
       PROVE  /\ Uncredited("book", p, i) = 0
              /\ Uncredited("attendance", p, i)' \in Nat
              /\ EarnedIn(pastOrders', i) = EarnedIn(pastOrders, i) + Uncredited("attendance", p, i)'
  <2>1. Uncredited("book", p, i) = 0
    BY DEF Uncredited
  <2>2. Uncredited("attendance", p, i)' = IF s.casts[p.cast] = i THEN s.fee ELSE 0
    BY <1>7, <1>10 DEF Uncredited
  <2>3. PICK y : y = <<p.order, p.cast>>
    OBVIOUS
  <2>4. y \notin BookedIn(pastOrders, i)
    BY <1>2, <1>5, <1>14, <2>3 DEF BookedIn
  <2>5. \A x \in BookedIn(pastOrders, i) : pastOrders'[x[1]].fee = pastOrders[x[1]].fee
    BY <1>2, <1>7, <1>10 DEF BookedIn
  <2>6. BookedIn(pastOrders', i) = IF s.casts[p.cast] = i THEN BookedIn(pastOrders, i) \cup {y}
                                   ELSE BookedIn(pastOrders, i)
    <3>1. ASSUME NEW o \in DOMAIN pastOrders, NEW c \in {1, 2}
          PROVE  (c \in pastOrders'[o].booked /\ pastOrders'[o].casts[c] = i)
                   <=> ((c \in pastOrders[o].booked /\ pastOrders[o].casts[c] = i)
                        \/ (o = p.order /\ c = p.cast /\ s.casts[p.cast] = i))
      BY <1>2, <1>7, <1>10
    <3>2. \A x \in (DOMAIN pastOrders) \X {1, 2} :
             x \in BookedIn(pastOrders', i)
               <=> (x \in BookedIn(pastOrders, i) \/ (x = y /\ s.casts[p.cast] = i))
      BY <1>10, <2>3, <3>1 DEF BookedIn
    <3>3. y \in (DOMAIN pastOrders) \X {1, 2}
      BY <1>5, <2>3
    <3>4. /\ BookedIn(pastOrders', i) \subseteq (DOMAIN pastOrders) \X {1, 2}
          /\ BookedIn(pastOrders, i) \subseteq (DOMAIN pastOrders) \X {1, 2}
      BY <1>10 DEF BookedIn
    <3> QED
      BY <3>2, <3>3, <3>4
  <2>7. CASE s.casts[p.cast] = i
    <3>1. BookedIn(pastOrders', i) = BookedIn(pastOrders, i) \cup {y}
      BY <2>6, <2>7
    <3>2. EarnedIn(pastOrders', i) = EarnedIn(pastOrders, i) + pastOrders'[y[1]].fee
      BY <1>5, <1>10, <2>4, <2>5, <3>1, MoreEarnings
    <3>3. pastOrders'[y[1]].fee = s.fee
      BY <1>7, <1>10, <2>3
    <3> QED
      BY <1>5, <2>1, <2>2, <2>7, <3>2, <3>3
  <2>8. CASE s.casts[p.cast] # i
    <3>1. BookedIn(pastOrders', i) = BookedIn(pastOrders, i)
      BY <2>6, <2>8
    <3>2. EarnedIn(pastOrders', i) = EarnedIn(pastOrders, i)
      BY <2>5, <3>1, SameEarnings
    <3> QED
      BY <1>5, <2>1, <2>2, <2>8, <3>2
  <2> QED
    BY <2>7, <2>8
<1>12. ASSUME NEW i \in DOMAIN Roster
       PROVE  wallet[i] + Uncredited("attendance", p, i)' = EarnedIn(pastOrders', i)
  <2>1. PICK w, e, v : w = wallet[i] /\ e = EarnedIn(pastOrders, i) /\ v = Uncredited("attendance", p, i)'
    OBVIOUS
  <2>2. w \in Nat /\ v \in Nat /\ w + 0 = e /\ EarnedIn(pastOrders', i) = e + v
    BY <1>5, <1>11, <2>1
  <2>3. w + v = e + v
    BY <2>2
  <2> QED
    BY <2>1, <2>2, <2>3
<1>13. RowAt(r, "attendance", p.cast)
  <2>1. ("attendance" \notin {"orderRoom", "link"}) = TRUE
    OBVIOUS
  <2> QED
    BY <1>7, <1>9, <1>14, <2>1 DEF RowAt
<1>15. at[h] = "book" /\ Continue(h, "attendance")
       /\ UNCHANGED <<production, nextUser, systems, seeded, accounts, completed, wallet, reached>>
  BY <1>3
<1> QED
  BY <1>1, <1>7, <1>8, <1>12, <1>13, <1>15, OrderWritten

LEMMA LinkAttendanceOK ==
  ASSUME SeedIInv, NEW h \in Handlers, LinkAttendance(h)
  PROVE  SeedIInv'
<1>1. PICK p : p = reached[h]
  OBVIOUS
<1>2. PICK s : s = pastOrders[p.order]
  OBVIOUS
<1>3. /\ at[h] = "attendance" /\ Continue(h, "credit")
      /\ pastOrders' = [pastOrders EXCEPT ![p.order].linked = @ \cup {p.cast}]
      /\ UNCHANGED <<production, nextUser, systems, seeded, accounts, completed, wallet, reached>>
  BY <1>1 DEF LinkAttendance, Kept
<1>4. "attendance" \in PastLabels \ {"order"}
  BY DEF PastLabels
<1>5. /\ p.cast \in {1, 2} /\ p.order \in DOMAIN pastOrders
      /\ s \in PastRows /\ s.fee \in Nat /\ RowAt(s, "attendance", p.cast)
      /\ pastOrders \in Seq(PastRows) /\ wallet \in [DOMAIN Roster -> Nat]
      /\ \A i \in DOMAIN Roster : wallet[i] + Uncredited("attendance", p, i) = EarnedIn(pastOrders, i)
  BY <1>1, <1>2, <1>3, <1>4, OrderAtHand
<1>15. s.booked = 1..p.cast /\ s.linked = 1..p.cast - 1 /\ s.room = TRUE
  <2>1. ("attendance" \notin {"orderRoom", "link"}) = TRUE
    OBVIOUS
  <2> QED
    BY <1>5, <2>1 DEF RowAt
<1>6. PICK r : r = [s EXCEPT !.linked = s.linked \cup {p.cast}]
  OBVIOUS
<1>7. /\ r \in PastRows /\ r.room = TRUE /\ r.fee = s.fee /\ r.casts = s.casts
      /\ r.booked = s.booked /\ r.linked = s.linked \cup {p.cast}
  BY <1>5, <1>6, <1>15 DEF PastRows
<1>8. pastOrders' = [pastOrders EXCEPT ![p.order] = r]
  BY <1>2, <1>3, <1>6
<1>9. r.linked = 1..p.cast
  BY <1>5, <1>7, <1>15
<1>10. \A i : EarnedIn(pastOrders', i) = EarnedIn(pastOrders, i)
  BY <1>2, <1>5, <1>7, <1>8, SameBookings
<1>11. pastOrders'[p.order] = r
  BY <1>5, <1>8
<1>12. \A i : Uncredited("credit", p, i)' = Uncredited("attendance", p, i)
  BY <1>2, <1>7, <1>11 DEF Uncredited
<1>13. \A i \in DOMAIN Roster : wallet[i] + Uncredited("credit", p, i)' = EarnedIn(pastOrders', i)
  BY <1>5, <1>10, <1>12
<1>14. RowAt(r, "credit", p.cast)
  <2>1. ("credit" \notin {"orderRoom", "link"}) = TRUE
    OBVIOUS
  <2> QED
    BY <1>7, <1>9, <1>15, <2>1 DEF RowAt
<1>16. at[h] = "attendance" /\ Continue(h, "credit")
       /\ UNCHANGED <<production, nextUser, systems, seeded, accounts, completed, wallet, reached>>
  BY <1>3
<1> QED
  BY <1>1, <1>7, <1>8, <1>13, <1>14, <1>16, OrderWritten

LEMMA CreditCastOK ==
  ASSUME SeedIInv, NEW h \in Handlers, CreditCast(h)
  PROVE  SeedIInv'
<1>1. PICK p : p = reached[h]
  OBVIOUS
<1>2. PICK s : s = pastOrders[p.order]
  OBVIOUS
<1>3. PICK l : l = IF p.cast = 1 THEN "book" ELSE IF p.order < SampleOrders THEN "order" ELSE "lastChat"
  OBVIOUS
<1>4. PICK j : j = s.casts[p.cast]
  OBVIOUS
<1>5. /\ at[h] = "credit" /\ Continue(h, l) /\ wallet' = [wallet EXCEPT ![j] = @ + s.fee]
      /\ reached' = [reached EXCEPT ![h].cast = 2]
      /\ UNCHANGED <<production, nextUser, systems, seeded, accounts, completed>>
      /\ pastOrders' = pastOrders
  BY <1>1, <1>2, <1>3, <1>4 DEF CreditCast, Kept
<1>6. /\ "credit" \in PastLabels \ {"order"} /\ "credit" \in PastLabels \cup {"lastChat"}
      /\ l \in PastLabels \cup {"lastChat", "posts"}
  BY <1>3 DEF PastLabels
<1>7. /\ p \in SeedPlaces /\ p.cast \in {1, 2} /\ p.order \in DOMAIN pastOrders
      /\ p.order = Len(pastOrders) /\ p.order <= SampleOrders /\ p.order \in Nat
      /\ s \in PastRows /\ s.fee \in Nat /\ RowAt(s, "credit", p.cast) /\ j \in DOMAIN Roster
      /\ pastOrders \in Seq(PastRows) /\ wallet \in [DOMAIN Roster -> Nat]
      /\ \A i \in DOMAIN Roster : wallet[i] + Uncredited("credit", p, i) = EarnedIn(pastOrders, i)
  BY <1>1, <1>2, <1>4, <1>5, <1>6, OrderAtHand DEF SeedPlaces
<1>8. reached \in [Handlers -> SeedPlaces] /\ OrdersAt("credit", p)
  BY <1>1, <1>5, <1>6, AtOrder
<1>9. s.booked = 1..p.cast /\ s.linked = 1..p.cast /\ s.room = TRUE
  <2>1. ("credit" \notin {"orderRoom", "link"}) = TRUE
    OBVIOUS
  <2> QED
    BY <1>7, <2>1 DEF RowAt
<1>10. PICK q : q = [p EXCEPT !.cast = 2]
  OBVIOUS
<1>11. /\ q \in SeedPlaces /\ q.cast = 2 /\ q.order = p.order
       /\ reached' = [reached EXCEPT ![h] = q]
  BY <1>1, <1>5, <1>7, <1>8, <1>10 DEF SeedPlaces
<1>12. \A o \in DOMAIN pastOrders : o < Len(pastOrders) => WellSettled(o)
  BY <1>6, <1>8 DEF OrdersAt
<1>13. OrdersAt(l, q)
  <2>1. CASE p.cast = 1
    <3>1. l = "book" /\ "book" \in PastLabels \ {"order"}
      BY <1>3, <2>1 DEF PastLabels
    <3>2. LastAt("book", 2)
      <4>1. ("book" \notin {"orderRoom", "link"}) = TRUE /\ 2 - 1 = 1
        OBVIOUS
      <4>2. RowAt(s, "book", 2)
        BY <1>9, <2>1, <4>1 DEF RowAt
      <4> QED
        BY <1>2, <1>7, <4>2, LastIsRow
    <3>3. q.order = Len(pastOrders) /\ q.order \in 1..SampleOrders
      BY <1>7, <1>11, SeedSets
    <3> QED
      BY <1>11, <1>12, <3>1, <3>2, <3>3 DEF OrdersAt
  <2>2. CASE p.cast = 2
    <3>1. WellSettled(p.order)
      <4>1. 1..2 = {1, 2}
        OBVIOUS
      <4> QED
        BY <1>2, <1>9, <2>2, <4>1 DEF WellSettled
    <3>2. \A o \in DOMAIN pastOrders : WellSettled(o)
      <4>1. \A o \in DOMAIN pastOrders : o < Len(pastOrders) \/ o = Len(pastOrders)
        BY <1>7
      <4> QED
        BY <1>7, <1>12, <3>1, <4>1
    <3>3. l = IF p.order < SampleOrders THEN "order" ELSE "lastChat"
      BY <1>3, <2>2
    <3>4. l = "order" => Len(pastOrders) < SampleOrders
      BY <1>7, <3>3
    <3>5. l = "lastChat" => Len(pastOrders) = SampleOrders
      BY <1>7, <3>3, SeedSets
    <3>6. l \in PastLabels \cup {"lastChat"} /\ l \notin PastLabels \ {"order"}
          /\ l \in {"order", "lastChat"}
      BY <3>3 DEF PastLabels
    <3>7. (l \in {"lastChat", "posts", "friendships"} => Len(pastOrders) = SampleOrders)
          /\ l \in PastLabels \cup {"lastChat", "posts", "friendships"}
      BY <3>5, <3>6
    <3> QED
      BY <3>2, <3>4, <3>6, <3>7 DEF OrdersAt
  <2> QED
    BY <1>7, <2>1, <2>2
<1>14. OrdersAt(l, q)'
  <2>1. UNCHANGED <<accounts, pastOrders>>
    BY <1>5
  <2> QED
    BY <1>13, <2>1, SameRows
<1>15. wallet' \in [DOMAIN Roster -> Nat]
  BY <1>5, <1>7
<1>16. ASSUME NEW i \in DOMAIN Roster
       PROVE  wallet'[i] + Uncredited(l, q, i)' = EarnedIn(pastOrders', i)
  <2>1. l \notin {"attendance", "credit"}
    BY <1>3
  <2>2. Uncredited(l, q, i)' = 0
    BY <2>1 DEF Uncredited
  <2>3. Uncredited("credit", p, i) = IF j = i THEN s.fee ELSE 0
    BY <1>2, <1>4 DEF Uncredited
  <2>4. wallet'[i] = wallet[i] + (IF j = i THEN s.fee ELSE 0) /\ wallet'[i] \in Nat
    BY <1>5, <1>7, <1>15
  <2> QED
    BY <1>5, <1>7, <2>2, <2>3, <2>4
<1>17. at[h] = "credit" /\ Continue(h, l) /\ pastOrders' \in Seq(PastRows)
       /\ UNCHANGED <<production, nextUser, systems, seeded, accounts, completed>>
  BY <1>5, <1>7
<1> QED
  BY <1>6, <1>11, <1>14, <1>15, <1>16, <1>17, OrderStep

LEMMA OrderUntouched ==
  ASSUME SeedIInv, NEW h \in Handlers, CreateOrderRoom(h) \/ LastChat(h)
  PROVE  SeedIInv'
<1>1. UNCHANGED <<production, nextUser, systems, seeded, accounts, completed, pastOrders, wallet, reached>>
  BY DEF CreateOrderRoom, LastChat, Data
<1>2. (at[h] = "orderRoom" /\ Continue(h, "link")) \/ (at[h] = "lastChat" /\ Continue(h, "posts"))
  BY DEF CreateOrderRoom, LastChat
<1> QED
  BY <1>1, <1>2, SameOrder

-----------------------------------------------------------------------------
(* Every step *)

LEMMA SeedStutters ==
  ASSUME SeedIInv, UNCHANGED <<handlerVars, seedVars>>
  PROVE  SeedIInv'
<1>1. /\ at' = at /\ faults' = faults /\ nextUser' = nextUser /\ systems' = systems
      /\ completed' = completed /\ reached' = reached /\ production' = production
      /\ seeded' = seeded /\ accounts' = accounts /\ pastOrders' = pastOrders /\ wallet' = wallet
  BY DEF handlerVars, seedVars
<1>2. SeedTyped'
  BY <1>1 DEF SeedIInv, SeedTyped
<1>3. \A l, p : SeedProgress(l, p) => SeedProgress(l, p)'
  BY <1>1, SameProgress
<1>4. \A g \in Handlers : SeedRuns(g)' <=> SeedRuns(g)
  BY <1>1 DEF SeedRuns
<1>5. SeededAll => SeededAll'
  <2>1. SeededAll => WrittenOnce(IF production THEN 8 ELSE 16)'
    BY <1>1 DEF SeededAll, WrittenOnce
  <2>2. AllMade(Len(Roster)) => AllMade(Len(Roster))'
    BY <1>1 DEF AllMade, WellMade, Complete
  <2>3. \A o : WellSettled(o) => WellSettled(o)'
    BY <1>1 DEF WellSettled
  <2>4. \A i \in DOMAIN Roster : EarnedBy(i)' = EarnedBy(i)
    BY <1>1, SameRows
  <2> QED
    BY <1>1, <2>1, <2>2, <2>3, <2>4 DEF SeededAll
<1>6. ASSUME NEW g \in Handlers, SeedRuns(g)' PROVE SeedProgress(at[g], reached[g])'
  <2>1. PICK l, p : l = at[g] /\ p = reached[g]
    OBVIOUS
  <2>2. SeedProgress(l, p)
    BY <1>4, <1>6, <2>1 DEF SeedIInv
  <2>3. SeedProgress(l, p)' /\ at'[g] = l /\ reached'[g] = p
    BY <1>1, <1>3, <2>1, <2>2
  <2> QED
    BY <2>3
<1> QED
  BY <1>1, <1>2, <1>3, <1>4, <1>5, <1>6 DEF SeedIInv

LEMMA SeedNextOK ==
  ASSUME SeedIInv, [SeedNext]_<<handlerVars, seedVars>>
  PROVE  SeedIInv'
<1>1. CASE UNCHANGED <<handlerVars, seedVars>>
  BY <1>1, SeedStutters
<1>2. CASE SeedNext
  <2>1. PICK h \in Handlers :
          \/ FindSystem(h) \/ CreateSystem(h) \/ SystemRefused(h)
          \/ Company(h) \/ Branches(h) \/ Menus(h) \/ CustomerLevels(h) \/ Attributes(h)
          \/ Preferences(h) \/ Balance(h)
          \/ AdminLogins(h) \/ CreateSampleUser(h) \/ CreateSettings(h) \/ CreateBlanks(h)
          \/ CreateSystemRoom(h) \/ CreateAdminRoom(h) \/ CreateExtras(h) \/ NextAccount(h)
          \/ Rules(h) \/ Venues(h) \/ GiftMenu(h) \/ SampleNotices(h) \/ Chats(h)
          \/ CreateOrder(h) \/ CreateOrderRoom(h) \/ LinkOrderRoom(h) \/ BookAttendance(h)
          \/ LinkAttendance(h) \/ CreditCast(h) \/ LastChat(h)
          \/ SamplePosts(h) \/ Friendships(h) \/ SeedDie(h)
    BY <1>2, Zenon DEF SeedNext
  <2>2. CASE FindSystem(h) \/ CreateSystem(h) \/ SystemRefused(h) \/ SeedDie(h)
    BY <2>2, FindSystemOK, CreateSystemOK, SystemRefusedOK, SeedDieOK
  <2>3. CASE \/ Company(h) \/ Branches(h) \/ Menus(h) \/ CustomerLevels(h) \/ Attributes(h)
             \/ Preferences(h) \/ Rules(h) \/ Venues(h) \/ GiftMenu(h) \/ SamplePosts(h)
    BY <2>3, PhaseActions
  <2>4. CASE AdminLogins(h) \/ SampleNotices(h) \/ Chats(h)
    BY <2>4, PhasesBefore
  <2>5. CASE Balance(h) \/ Friendships(h)
    BY <2>5, BalanceOK, FriendshipsOK
  <2>6. CASE CreateSampleUser(h) \/ NextAccount(h) \/ CreateAdminRoom(h)
    BY <2>6, CreateSampleUserOK, NextAccountOK, CreateAdminRoomOK
  <2>7. CASE CreateSettings(h) \/ CreateBlanks(h) \/ CreateSystemRoom(h) \/ CreateExtras(h)
    BY <2>7, GivesOK
  <2>8. CASE CreateOrderRoom(h) \/ LastChat(h)
    BY <2>8, OrderUntouched
  <2>9. CASE \/ CreateOrder(h) \/ LinkOrderRoom(h) \/ BookAttendance(h) \/ LinkAttendance(h)
             \/ CreditCast(h)
    BY <2>9, CreateOrderOK, LinkOrderRoomOK, BookAttendanceOK, LinkAttendanceOK, CreditCastOK
  <2> QED
    BY <2>1, <2>2, <2>3, <2>4, <2>5, <2>6, <2>7, <2>8, <2>9
<1> QED
  BY <1>1, <1>2

\* The invariant says what the property asks.
LEMMA SeedIInvOnce ==
  ASSUME SeedIInv
  PROVE  SeededOnce
<1>1. SeedTyped
  BY DEF SeedIInv
<1>2. DOMAIN seeded = SeedPhases /\ "company" \in SeedPhases /\ nextUser \in Nat /\ completed \in Nat
  BY <1>1 DEF SeedTyped, SeedPhases, Reference
<1>3. CASE \E h \in Handlers : SeedRuns(h)
  <2>1. PICK h \in Handlers : SeedRuns(h)
    BY <1>3
  <2>2. completed = 0 /\ 1 \in systems /\ SeedProgress(at[h], reached[h])
    BY <2>1 DEF SeedIInv
  <2>3. \A t \in SeedPhases : seeded[t] <= 1
    BY <2>2 DEF SeedProgress, WrittenOnce
  <2>4. at[h] # "idle"
    BY <2>1, NotRunning DEF SeedRuns
  <2>5. ~AtRest
    BY <2>4 DEF AtRest, Idle
  <2> QED
    BY <1>2, <2>2, <2>3, <2>5 DEF SeededOnce
<1>4. CASE \A h \in Handlers : ~SeedRuns(h)
  <2>1. CASE nextUser = 1 /\ completed = 0 /\ SeedProgress("company", Start)
    <3>1. \A t \in SeedPhases : seeded[t] = 0
      <4>1. NextPhase("company", Start.account) = 1
        BY DEF NextPhase, PhaseNo, SampleLabels, PastLabels
      <4>2. \A t \in SeedPhases : ~(PhaseNo(t) < 1)
        BY DEF PhaseNo
      <4> QED
        BY <2>1, <4>1, <4>2 DEF SeedProgress, WrittenOnce
    <3> QED
      BY <1>2, <2>1, <3>1 DEF SeededOnce
  <2>2. CASE nextUser > 1 /\ completed = 1 /\ 1 \in systems /\ SeededAll
    <3>1. WrittenOnce(IF production THEN 8 ELSE 16)
      BY <2>2 DEF SeededAll
    <3>2. \A t \in SeedPhases : seeded[t] = IF t \in Expected THEN 1 ELSE 0
      <4>1. \A t \in SeedPhases : t \in Reference <=> PhaseNo(t) < 8
        BY DEF SeedPhases, Reference, Samples, PhaseNo
      <4>2. \A t \in SeedPhases : PhaseNo(t) < 16
        BY PhasesCounted
      <4>3. \A t \in SeedPhases : t \in Expected <=> PhaseNo(t) < IF production THEN 8 ELSE 16
        BY <4>1, <4>2 DEF Expected, SeedPhases
      <4> QED
        BY <3>1, <4>3 DEF WrittenOnce
    <3>3. \A t \in SeedPhases : seeded[t] <= 1
      BY <3>2
    <3>4. ASSUME ~production
          PROVE  /\ Len(accounts) = Len(Roster) /\ Len(pastOrders) = SampleOrders
                 /\ \A i \in DOMAIN accounts :
                       /\ accounts[i].type = Roster[i] /\ Complete(i)
                       /\ Roster[i] # "admin" => accounts[i].support = Admins(Len(accounts))
                 /\ \A o \in DOMAIN pastOrders : pastOrders[o].room /\ pastOrders[o].linked = {1, 2}
                 /\ \A i \in DOMAIN accounts : wallet[i] = EarnedBy(i)
      <4>1. /\ AllMade(Len(Roster)) /\ Len(pastOrders) = SampleOrders
            /\ \A o \in DOMAIN pastOrders : WellSettled(o)
            /\ \A i \in DOMAIN Roster : wallet[i] = EarnedBy(i)
        BY <2>2, <3>4 DEF SeededAll
      <4>2. accounts \in Seq(SampleRows)
        BY <1>1 DEF SeedTyped
      <4>3. Len(accounts) = Len(Roster) /\ DOMAIN accounts = 1..Len(Roster)
        BY <4>1, <4>2 DEF AllMade
      <4>4. Admins(Len(accounts)) = {1} /\ DOMAIN accounts = DOMAIN Roster
        BY <4>3, OneAdmin, SeedSets
      <4>5. \A i \in DOMAIN accounts : WellMade(i)
        BY <4>1, <4>3 DEF AllMade
      <4> QED
        BY <4>1, <4>3, <4>4, <4>5 DEF WellMade, WellSettled
    <3> QED
      BY <1>2, <2>2, <3>2, <3>3, <3>4 DEF SeededOnce
  <2>3. CASE /\ nextUser > 1 /\ completed = 0 /\ faults > 0
             /\ \A t \in SeedPhases : seeded[t] <= 1
             /\ seeded["company"] = 1 => 1 \in systems
    BY <1>2, <2>3 DEF SeededOnce
  <2> QED
    BY <1>4, <2>1, <2>2, <2>3 DEF SeedIInv
<1> QED
  BY <1>3, <1>4

-----------------------------------------------------------------------------
(* The theorems *)

\* The open chat, ...
LEMMA LiveDesk == MembersSpec => [](desk = "live" => PageTellsTruth)
<1> DEFINE I == desk = "live" => LiveIInv
<1>1. MembersInit => I
  BY LiveInitOK DEF MembersInit
<1>2. I /\ [MembersNext]_membersVars => I'
  <2> SUFFICES ASSUME I, [MembersNext]_membersVars, desk' = "live" PROVE LiveIInv'
    OBVIOUS
  <2>1. desk = "live"
    BY DEF MembersNext, membersVars
  <2>2. [LiveNext]_<<handlerVars, liveVars>>
    BY <2>1 DEF MembersNext, membersVars
  <2> QED
    BY <2>1, <2>2, LiveNextOK
<1>3. I => (desk = "live" => PageTellsTruth)
  BY LiveIInvTruth
<1> QED
  BY <1>1, <1>2, <1>3, PTL DEF MembersSpec

\* ... the search, ...
LEMMA SearchDesk == MembersSpec => [](desk = "search" => SearchTellsTruth)
<1> DEFINE I == desk = "search" => SearchIInv
<1>1. MembersInit => I
  BY SearchInitOK DEF MembersInit
<1>2. I /\ [MembersNext]_membersVars => I'
  <2> SUFFICES ASSUME I, [MembersNext]_membersVars, desk' = "search" PROVE SearchIInv'
    OBVIOUS
  <2>1. desk = "search"
    BY DEF MembersNext, membersVars
  <2>2. [SearchNext]_<<handlerVars, searchVars>>
    BY <2>1 DEF MembersNext, membersVars
  <2> QED
    BY <2>1, <2>2, SearchNextOK
<1>3. I => (desk = "search" => SearchTellsTruth)
  BY SearchIInvTruth
<1> QED
  BY <1>1, <1>2, <1>3, PTL DEF MembersSpec

\* ... and the order board.
LEMMA BoardDesk == MembersSpec => [](desk = "board" => BoardTellsTruth)
<1> DEFINE I == desk = "board" => BoardIInv
<1>1. MembersInit => I
  <2> SUFFICES ASSUME MembersInit PROVE BoardIInv
    OBVIOUS
  <2>1. HandlersInit /\ BoardIdle /\ place = CHOOSE p \in BoardPlaces : TRUE
    BY DEF MembersInit
  <2>2. place \in BoardPlaces
    BY <2>1, BoardAssumption
  <2> QED
    BY <2>1, <2>2, BoardInitOK
<1>2. I /\ [MembersNext]_membersVars => I'
  <2> SUFFICES ASSUME I, [MembersNext]_membersVars, desk' = "board" PROVE BoardIInv'
    OBVIOUS
  <2>1. desk = "board"
    BY DEF MembersNext, membersVars
  <2>2. [BoardNext]_<<handlerVars, boardVars>>
    BY <2>1 DEF MembersNext, membersVars
  <2> QED
    BY <2>1, <2>2, BoardNextOK
<1>3. I => (desk = "board" => BoardTellsTruth)
  BY BoardIInvTruth
<1> QED
  BY <1>1, <1>2, <1>3, PTL DEF MembersSpec

\* ConversationPage.tsx, SearchPage.tsx, MeetingListPage.tsx: in every run of Members, with
\* any number of messages, members found, filters, pages, orders, requests under way and lost
\* connections, what the open chat, the search and the order board show when nothing is under
\* way is what holds.
THEOREM MembersScreens == MembersSpec => []ScreensTellTruth
<1>1. /\ desk = "live" => PageTellsTruth
      /\ desk = "search" => SearchTellsTruth
      /\ desk = "board" => BoardTellsTruth
      => ScreensTellTruth
  BY DEF ScreensTellTruth
<1> QED
  BY <1>1, LiveDesk, SearchDesk, BoardDesk, PTL

\* seed.ts: in every run of Members, however often, by how many handlers at once and to
\* whatever depth the seed script is run, no data is written twice, and a run that was
\* through, or that was not disturbed, has left all the data there is to be, with every
\* account complete and every cast paid what the settled orders say.
THEOREM MembersSeed == MembersSpec => []SeedRepeatable
<1> DEFINE I == desk = "seed" => SeedIInv
<1>1. MembersInit => I
  BY SeedInitOK DEF MembersInit, Opening
<1>2. I /\ [MembersNext]_membersVars => I'
  <2> SUFFICES ASSUME I, [MembersNext]_membersVars, desk' = "seed" PROVE SeedIInv'
    OBVIOUS
  <2>1. desk = "seed"
    BY DEF MembersNext, membersVars
  <2>2. [SeedNext]_<<handlerVars, seedVars>>
    BY <2>1 DEF MembersNext, membersVars
  <2> QED
    BY <2>1, <2>2, SeedNextOK
<1>3. I => SeedRepeatable
  BY SeedIInvOnce DEF SeedRepeatable
<1> QED
  BY <1>1, <1>2, <1>3, PTL DEF MembersSpec

\* CrudPage.tsx and admin-crud.ts: in every run of Members, for every settings table, any
\* number of operators, rows, join rows and time zones, a row is what operators have made of
\* it, unless it was saved from an outdated list; a campaign ends after it starts; and a
\* place on the page has one banner.
THEOREM MembersSettings == MembersSpec => []SettingsSaved
<1> DEFINE I == desk = "tables" => TablesIInv
<1>1. MembersInit => I
  <2> SUFFICES ASSUME MembersInit, desk = "tables" PROVE TablesIInv
    OBVIOUS
  <2>1. Opening("tables", SettingsNames) = SettingsNames /\ Opening("tables", ZonesFor(setting)) = ZonesFor(setting)
    BY DEF Opening
  <2>2. TablesInit
    BY <2>1 DEF MembersInit, TablesInit
  <2> QED
    BY <2>2, TablesInitOK
<1>2. I /\ [MembersNext]_membersVars => I'
  <2> SUFFICES ASSUME I, [MembersNext]_membersVars, desk' = "tables" PROVE TablesIInv'
    OBVIOUS
  <2>1. desk = "tables"
    BY DEF MembersNext, membersVars
  <2>2. [TablesNext]_<<handlerVars, settingsVars>>
    BY <2>1 DEF MembersNext, membersVars
  <2> QED
    BY <2>1, <2>2, TablesNextOK
<1>3. I => SettingsSaved
  BY TablesIInvMeant DEF SettingsSaved
<1> QED
  BY <1>1, <1>2, <1>3, PTL DEF MembersSpec
=============================================================================
