-------------------------------- MODULE Posts --------------------------------
(***************************************************************************)
(* The timeline: posts, likes, and the credits casts earn by liking        *)
(* (server/services/posts.ts, the routes under posts, and                  *)
(* CollectPostRewardsWorker in jobs/handlers.ts).                          *)
(*                                                                         *)
(* The worker runs after midnight and pays for the likes of the day that   *)
(* has just ended, one transaction per cast.  A worker that was down at    *)
(* midnight runs when it is back, for the day that ended last.             *)
(***************************************************************************)
EXTENDS RequestHandlers, Functions

CONSTANTS
    LikingCasts,    \* casts; they earn by liking
    LikingGuests,   \* guests; they can take a like back
    DayLength,      \* time slots of a day
    LikeLimit,      \* cast_like_hour_limit, in time slots
    CreditsPerLike, \* cast_credits_per_like
    MaxSlot         \* bound: the last time slot

ASSUME PostsAssumption ==
    /\ DayLength \in Nat \ {0, 1} /\ LikeLimit \in Nat /\ CreditsPerLike \in Nat
    /\ MaxSlot \in Nat /\ LikingCasts \cap LikingGuests = {}
    /\ IsFiniteSet(LikingCasts \cup LikingGuests) /\ IsFiniteSet(Handlers)
    /\ {"none", "gone"} \cap (LikingCasts \cup LikingGuests) = {}

VARIABLES
    slot,      \* now; a multiple of DayLength is midnight
    author,    \* author[p]: who wrote post p; "gone" when it is deleted
    postedAt,  \* postedAt[p]: posts.created_at
    likedAt,   \* likedAt[<<u, p>>]: post_likes.created_at; 0 without a like
    likes,     \* likes[p]: posts.post_likes_count
    collected, \* midnights the worker has run for
    counted,   \* counted[<<u, p>>]: how often a run has counted the like
    earned,    \* earned[c]: credits of the likes_reward rows of c
    due,       \* due[h]: what the worker has still to pay
    about      \* about[h]: the user and the post h is about

postVars == <<slot, author, postedAt, likedAt, likes, collected, counted, earned, due, about>>

Posters == LikingCasts \cup LikingGuests
PostIds == 1..MaxRequests
NotAbout == [user |-> "nobody", post |-> 1]
NothingDue == [c \in LikingCasts |-> 0]

PostsIdle ==
    /\ slot = 1
    /\ author = [p \in PostIds |-> "none"]
    /\ postedAt = [p \in PostIds |-> 0]
    /\ likedAt = [x \in Posters \X PostIds |-> 0]
    /\ likes = [p \in PostIds |-> 0]
    /\ collected = {}
    /\ counted = [x \in LikingCasts \X PostIds |-> 0]
    /\ earned = NothingDue
    /\ due = [h \in Handlers |-> NothingDue]
    /\ about = [h \in Handlers |-> NotAbout]

PostsInit == HandlersInit /\ PostsIdle

-----------------------------------------------------------------------------
(* Helpers *)

Regard(h, u, p) == about' = [about EXCEPT ![h] = [user |-> u, post |-> p]]

PostDone(h) == End(h) /\ Regard(h, "nobody", 1)

TimelineSame == UNCHANGED <<author, postedAt, likedAt, likes>>
RewardSame   == UNCHANGED <<collected, counted, earned, due>>

Shown == {p \in PostIds : author[p] \in Posters}

\* The like was given while the post was new.
Young(u, p) == likedAt[<<u, p>>] - postedAt[p] < LikeLimit

-----------------------------------------------------------------------------
(* Posts and likes *)

CreatePost(h) ==
    /\ Begin(h, "idle")
    /\ \E u \in Posters, p \in PostIds :
          /\ author[p] = "none" /\ \A q \in 1..p - 1 : author[q] # "none"
          /\ author' = [author EXCEPT ![p] = u]
          /\ postedAt' = [postedAt EXCEPT ![p] = slot]
    /\ RewardSame /\ UNCHANGED <<slot, likedAt, likes, about>>

\* likePost: nobody likes a post of their own.
LikePost(h) ==
    /\ \E u \in Posters, p \in Shown : author[p] # u /\ Regard(h, u, p)
    /\ Begin(h, "like")
    /\ TimelineSame /\ RewardSame /\ UNCHANGED slot

\* The like and its counter; a second like of a user, or one of a post that is
\* gone, is refused by the table's constraints.
CreateLike(h) ==
    /\ at[h] = "like"
    /\ LET u == about[h].user
           p == about[h].post
       IN  IF p \in Shown /\ likedAt[<<u, p>>] = 0
           THEN /\ likedAt' = [likedAt EXCEPT ![<<u, p>>] = slot]
                /\ likes' = [likes EXCEPT ![p] = @ + 1]
           ELSE UNCHANGED <<likedAt, likes>>
    /\ PostDone(h)
    /\ RewardSame /\ UNCHANGED <<slot, author, postedAt>>

\* The unlike route refuses casts: they have been credited for the like.
UnlikePost(h) ==
    /\ \E u \in LikingGuests, p \in Shown : likedAt[<<u, p>>] > 0 /\ Regard(h, u, p)
    /\ Begin(h, "unlike")
    /\ TimelineSame /\ RewardSame /\ UNCHANGED slot

\* A row that is gone by now rolls the transaction back.
DeleteLike(h) ==
    /\ at[h] = "unlike"
    /\ LET u == about[h].user
           p == about[h].post
       IN  IF likedAt[<<u, p>>] > 0
           THEN /\ likedAt' = [likedAt EXCEPT ![<<u, p>>] = 0]
                /\ likes' = [likes EXCEPT ![p] = @ - 1]
           ELSE UNCHANGED <<likedAt, likes>>
    /\ PostDone(h)
    /\ RewardSame /\ UNCHANGED <<slot, author, postedAt>>

DestroyPost(h) ==
    /\ \E p \in Shown : Regard(h, author[p], p)
    /\ Begin(h, "destroy")
    /\ TimelineSame /\ RewardSame /\ UNCHANGED slot

\* The likes are deleted with the post.
DeletePost(h) ==
    /\ at[h] = "destroy"
    /\ LET p == about[h].post
       IN  /\ author' = [author EXCEPT ![p] = "gone"]
           /\ likedAt' = [x \in Posters \X PostIds |-> IF x[2] = p THEN 0 ELSE likedAt[x]]
           /\ likes' = [likes EXCEPT ![p] = 0]
    /\ PostDone(h)
    /\ RewardSame /\ UNCHANGED <<slot, postedAt>>

-----------------------------------------------------------------------------
(* The rewards *)

SlotPasses ==
    /\ slot < MaxSlot
    /\ slot' = slot + 1
    /\ TimelineSame /\ RewardSame /\ UNCHANGED <<handlerVars, about>>

LastMidnight == DayLength * (slot \div DayLength)

Liked(u, from, to) ==
    {p \in Shown : likedAt[<<u, p>>] >= from /\ likedAt[<<u, p>>] <= to /\ Young(u, p)}

\* The run: those likes are counted, and what they are worth is paid below.
Collects(h, counts) ==
    LET paid == [c \in LikingCasts |-> CreditsPerLike * Cardinality(counts[c])]
    IN  /\ slot # LastMidnight /\ LastMidnight > 0 /\ LastMidnight \notin collected
        /\ Deliver(h, "pay") /\ UNCHANGED begun
        /\ collected' = collected \cup {LastMidnight}
        /\ counted' = [x \in LikingCasts \X PostIds |->
                          counted[x] + IF x[2] \in counts[x[1]] THEN 1 ELSE 0]
        /\ due' = [due EXCEPT ![h] = paid]
        /\ TimelineSame /\ UNCHANGED <<slot, earned, about>>

\* Mutant of CollectPostRewards: midnight belongs to both days.
CollectPostRewardsTwice(h) ==
    Collects(h, [c \in LikingCasts |-> Liked(c, LastMidnight - DayLength, LastMidnight)])

\* The first instant of the day belongs to the day before, the last one to it.
CollectPostRewards(h) ==
    Collects(h, [c \in LikingCasts |-> Liked(c, LastMidnight - DayLength + 1, LastMidnight)])

PayLikes(h) ==
    /\ at[h] = "pay"
    /\ \/ \E c \in LikingCasts :
            /\ due[h][c] > 0
            /\ earned' = [earned EXCEPT ![c] = @ + due[h][c]]
            /\ due' = [due EXCEPT ![h][c] = 0]
            /\ UNCHANGED <<handlerVars, about>>
       \/ due[h] = NothingDue /\ PostDone(h) /\ UNCHANGED <<earned, due>>
    /\ TimelineSame /\ UNCHANGED <<slot, collected, counted>>

\* The queue runs a worker's job again when the worker died.
PostsDie(h) ==
    /\ Die(h)
    /\ collected' = IF at[h] = "pay" THEN collected \ {LastMidnight} ELSE collected
    /\ due' = [due EXCEPT ![h] = NothingDue]
    /\ Regard(h, "nobody", 1)
    /\ TimelineSame /\ UNCHANGED <<slot, counted, earned>>

-----------------------------------------------------------------------------
PostsNext ==
    \/ \E h \in Handlers :
          \/ CreatePost(h) \/ LikePost(h) \/ CreateLike(h) \/ UnlikePost(h) \/ DeleteLike(h)
          \/ DestroyPost(h) \/ DeletePost(h) \/ CollectPostRewards(h) \/ PayLikes(h)
          \/ PostsDie(h)
    \/ SlotPasses

PostsSpec == PostsInit /\ [][PostsNext]_<<handlerVars, postVars>>

-----------------------------------------------------------------------------
(* Properties *)

Midnight(t) == DayLength * ((t + DayLength - 1) \div DayLength)

CountedBy(c) == {p \in PostIds : counted[<<c, p>>] > 0}

\* handlers.ts:502-524, unlike/route.ts:13: without a crash a cast's like of a new
\* post that is still there is counted by exactly one run, the one of the day it
\* was given on, no other like is counted, what was counted is paid, and a post
\* shows as many likes as there are, whoever likes, unlikes and deletes meanwhile.
LikePaidOnce ==
    faults = 0 =>
        /\ \A c \in LikingCasts : \A p \in Shown :
              counted[<<c, p>>] = IF likedAt[<<c, p>>] > 0 /\ Young(c, p)
                                 /\ Midnight(likedAt[<<c, p>>]) \in collected THEN 1 ELSE 0
        /\ \A c \in LikingCasts :
              earned[c] + FoldFunction(LAMBDA m, n : m + n, 0, [h \in Handlers |-> due[h][c]])
                  = CreditsPerLike * Cardinality(CountedBy(c))
        /\ \A p \in PostIds : likes[p] = Cardinality({u \in Posters : likedAt[<<u, p>>] > 0})
=============================================================================
