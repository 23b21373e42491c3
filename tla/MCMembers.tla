------------------------------- MODULE MCMembers -------------------------------
EXTENDS Members, TLC

MCSymmetry == Permutations(Handlers)

MCDeskRequests ==
    [d \in Desks |->
        CASE d = "prices" -> 0
          [] d \in {"posts", "live", "forms", "search", "rankings"} -> 3
          [] d \in {"tables", "notices", "board"} -> 2
          [] OTHER -> 4]
MCDeskConcurrent ==
    [d \in Desks |->
        CASE d \in {"chat", "tables", "rankings", "notices", "search", "reminders", "board"} -> 2
          [] d = "prices" -> 0
          [] OTHER -> 3]

(* Rewards: four orders of two guests with two casts, two of them private. *)
MCOrders == {"m1", "m2", "m3", "m4"}
MCOwnerOf == [m \in MCOrders |-> IF m = "m3" THEN "g2" ELSE "g1"]
MCCastsOf == [m \in MCOrders |-> IF m \in {"m1", "m3"} THEN {"k1", "k2"} ELSE {"k1"}]
MCInviterOf ==
    [u \in {"g1", "g2", "k1", "k2"} |->
        CASE u = "g1" -> "g2" [] u = "k1" -> "k2" [] OTHER -> "nobody"]

(* Entries: two orders, one ending in the other, or one lying inside the other. *)
MCTimes(a, b, c, d) ==
    [o \in {"o1", "o2"} |-> IF o = "o1" THEN [from |-> a, to |-> b] ELSE [from |-> c, to |-> d]]
MCPlannedTimes == {MCTimes(1, 3, 2, 4), MCTimes(0, 5, 2, 3)}
MCNeeded == [o \in {"o1", "o2"} |-> IF o = "o1" THEN 2 ELSE 1]
MCScore == [c \in {"c1", "c2", "c3"} |-> CASE c = "c1" -> 2 [] c = "c2" -> -1 [] OTHER -> 1]

(* Prices: whole intervals, at night, and odd lengths. *)
MCBooking(a, b) == [from |-> a, to |-> b]
MCBookings ==
    {MCBooking(3, 7), MCBooking(6, 10), MCBooking(10, 15), MCBooking(5, 8), MCBooking(12, 16)}
MCRoundings == {{}, {1}, {3, 7}, {1, 3, 5}}

(* Order forms: two branches with a menu each, of which one takes proposals. *)
MCBranchOf == [r \in {"r1", "r2"} |-> IF r = "r1" THEN "b1" ELSE "b2"]
MCMenu(b, c, p, q) ==
    [r \in {"r1", "r2"} |->
        IF r = "r1" THEN [base |-> b, proposable |-> p] ELSE [base |-> c, proposable |-> q]]
MCPriceLists == {MCMenu(1, 2, TRUE, FALSE), MCMenu(2, 1, FALSE, TRUE)}

(* Rankings: a head start, and a campaign across the month's end. *)
MCBirthday == [u \in {"kc1", "kc2", "kg"} |-> IF u = "kc1" THEN 0 ELSE 1]
MCHead(m) == [u \in {"kc1", "kc2", "kg"} |-> [meeting |-> IF u = "kc2" THEN m ELSE 0, sticker |-> 0]]
MCHeadStarts == {MCHead(1)}
MCEarning(f, t, c, x, y, g, r) ==
    [from |-> f, to |-> t, category |-> c, charged |-> x, credited |-> y, template |-> g, recipient |-> r]
MCScoreRows ==
    {MCEarning("kg", "kc1", "meeting", 3, 2, "none", "none"),
     MCEarning("kg", "kc2", "sticker", 2, 1, "rose", "kc2"),
     MCEarning("none", "kc1", "cast_reward", 0, 1, "choco", "kg")}
MCQuestion(v, t, c, p, g) ==
    [viewer |-> v, type |-> t, category |-> c, period |-> p, templates |-> g]
MCQuestions ==
    {MCQuestion("kc1", "cast", "credits", "prev_month", {}),
     MCQuestion("kg", "cast", "meeting", "this_month", {}),
     MCQuestion("kc2", "cast", "sticker", "this_week", {}),
     MCQuestion("kg", "cast", "limited_event", "yesterday", {"rose"}),
     MCQuestion("kc1", "cast", "event_choco_count", "prev_month", {}),
     MCQuestion("kg", "customer", "limited_event", "event_period", {}),
     MCQuestion("kg", "customer", "credits", "prev_month", {}),
     MCQuestion("kc1", "customer", "patron", "this_year", {})}
MCCampaignPlans == {{[from |-> 1, to |-> 2, template |-> "choco"]}}

(* Notices: guests and casts, invited or not, with live and dead devices. *)
MCNoticeCase(a, b, invited, ds, dead) ==
    [type |-> [u \in {"a", "b"} |-> IF u = "a" THEN a ELSE b],
     invited |-> invited, devices |-> ds, dead |-> dead]
MCNoticeCases ==
    {MCNoticeCase("cast", "cast", TRUE, {1, 3}, {1, 3}),
     MCNoticeCase("customer", "cast", TRUE, {1}, {}),
     MCNoticeCase("cast", "customer", TRUE, {1, 3}, {3}),
     MCNoticeCase("customer", "inviter", TRUE, {}, {})}
MCLetterKinds ==
    {"registered", "invitedOrder", "goodReview", "patron", "chat"}

(* Search: three casts on two pages, and limits at the ends of their scales. *)
MCFact(t, a, h, f, new, told) ==
    [type |-> t, age |-> a, height |-> h, fee |-> f, presence |-> IF new THEN "online" ELSE "idle",
     newcomer |-> new, traits |-> {<<"cast_level_id", h % 2>>}, alerts |-> told]
MCFacts ==
    [u \in {"fk1", "fk2", "fk3", "fg"} |->
        CASE u = "fk1" -> MCFact("cast", 20, 160, 3, TRUE, TRUE)
          [] u = "fk2" -> MCFact("cast", 30, 165, 5, FALSE, TRUE)
          [] u = "fk3" -> MCFact("cast", 50, 171, 9, FALSE, FALSE)
          [] OTHER     -> MCFact("customer", 40, 170, 0, TRUE, TRUE)]
MCQueries ==
    {NoFilters, [favorites_only |-> TRUE],
     [min_age |-> 20, max_age |-> 50, height |-> 165, height_variance |-> 0,
      order_fee_per_time_lower_limit |-> 2, order_fee_per_time_upper_limit |-> 9]}

(* Reminders: the selection's end or the order's end moved by one tick. *)
MCOrderTimes == [closes |-> 2, from |-> 3, to |-> 5]
MCMoves == {[closes |-> 1, from |-> 0, to |-> 0], [closes |-> 0, from |-> 0, to |-> 1]}

(* Patrons: a last use on a month's last day, and months that lack the day. *)
MCMonthLengths == <<3, 2, 3, 3, 2, 2>>

(* Order board: one order for casts of one branch, one for both. *)
MCPlacesOf == [o \in {"bo1", "bo2"} |-> IF o = "bo1" THEN {"pa"} ELSE {"pa", "pb"}]
=============================================================================
