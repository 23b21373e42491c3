---------------------------------- MODULE Seed ----------------------------------
(***************************************************************************)
(* The seed script (prisma/seed.ts): the reference data without which the  *)
(* application does not work, and outside production sample accounts,      *)
(* chats and settled orders.  It runs statement by statement outside any   *)
(* transaction, may be started again and by two deployments at once, and   *)
(* may die.  The rows of one phase are written in one step; the accounts   *)
(* and the orders, which relate several tables, statement by statement.    *)
(***************************************************************************)
EXTENDS RequestHandlers, Sequences, Functions

CONSTANTS
    SamplePairs,   \* bound: sample casts and guests, of the script's ten each
    SampleOrders,  \* bound: settled orders, of the script's five
    SampleFees     \* what a cast earns, after the price menu drawn

ASSUME SeedAssumption == SamplePairs \in Nat \ {0} /\ SampleOrders \in Nat /\ SampleFees \subseteq Nat

VARIABLES
    production,  \* the environment
    nextUser,    \* the sequence of the user ids
    systems,     \* the ids of the system users
    seeded,      \* seeded[t]: how often the rows of phase t have been written
    accounts,    \* the accounts in the order they were created, with what belongs to them
    pastOrders,  \* the settled orders
    wallet,      \* wallet[i]: what the script has credited to the i-th account
    reached,    \* reached[h]: the account, order and cast run h is at
    completed    \* runs that have said "done"

seedVars ==
    <<production, nextUser, systems, seeded, accounts, pastOrders, wallet, reached, completed>>

Reference ==
    {"company", "branches", "menus", "customerLevels", "attributes", "preferences", "balance"}
Samples == {"admins", "rules", "venues", "gifts", "notices", "chats", "posts", "friendships"}

\* The accounts the script creates, in this order: the named ones, then pairs.
Named == <<"admin", "cast", "inviter", "customer", "operator", "operator">>
Roster == Named \o [i \in 1..2 * SamplePairs |-> IF i % 2 = 1 THEN "cast" ELSE "customer"]
Fay == 2
Admins(n) == {i \in 1..n : Roster[i] = "admin"}
SampleCasts == {i \in DOMAIN Roster : i > Len(Named) /\ Roster[i] = "cast"}

Start == [account |-> 1, order |-> 1, cast |-> 1]

SeedIdle ==
    /\ nextUser = 1 /\ systems = {}
    /\ seeded = [t \in Reference \cup Samples |-> 0]
    /\ accounts = <<>> /\ pastOrders = <<>>
    /\ wallet = [i \in DOMAIN Roster |-> 0]
    /\ reached = [h \in Handlers |-> Start]
    /\ completed = 0

SeedInit == HandlersInit /\ production \in BOOLEAN /\ SeedIdle

-----------------------------------------------------------------------------
(* The guard and the reference data *)

Data == <<production, nextUser, systems, seeded, accounts, pastOrders, wallet>>

\* "nothing to do" once there is a system user.
FindSystem(h) ==
    /\ Begin(h, IF systems = {} THEN "system" ELSE "idle")
    /\ reached' = [reached EXCEPT ![h] = Start]
    /\ UNCHANGED <<Data, completed>>

\* Mutant of Pinned: the id is not looked at.
PinnedAnyway(id) == id \in Nat

\* System messages are sent by user 1.
Pinned(id) == id = 1

CreateSystem(h) ==
    /\ at[h] = "system"
    /\ systems' = systems \cup {nextUser}
    /\ nextUser' = nextUser + 1
    /\ Continue(h, IF Pinned(nextUser) THEN "company" ELSE "idle")
    /\ UNCHANGED <<production, seeded, accounts, pastOrders, wallet, reached, completed>>

\* A refused INSERT has drawn its id all the same.
SystemRefused(h) ==
    /\ at[h] = "system" /\ Refused(h, "idle")
    /\ nextUser' = nextUser + 1
    /\ UNCHANGED <<production, systems, seeded, accounts, pastOrders, wallet, reached, completed>>

Writes(h, phase, next) ==
    /\ at[h] = phase
    /\ seeded' = [seeded EXCEPT ![phase] = @ + 1]
    /\ Continue(h, next)
    /\ UNCHANGED <<production, nextUser, systems, accounts, pastOrders, wallet, reached>>

Phase(h, phase, next) == Writes(h, phase, next) /\ UNCHANGED completed

Company(h)        == Phase(h, "company", "branches")
Branches(h)       == Phase(h, "branches", "menus")
Menus(h)          == Phase(h, "menus", "customerLevels")
CustomerLevels(h) == Phase(h, "customerLevels", "attributes")
Attributes(h)     == Phase(h, "attributes", "preferences")
Preferences(h)    == Phase(h, "preferences", "balance")

\* In production that was all.
Balance(h) ==
    /\ Writes(h, "balance", IF production THEN "idle" ELSE "admins")
    /\ completed' = IF production THEN completed + 1 ELSE completed

-----------------------------------------------------------------------------
(* The accounts *)

AdminLogins(h) == Phase(h, "admins", "user")

Rest == <<production, systems, seeded, pastOrders, wallet, completed>>
Account(h) == accounts[reached[h].account]

CreateSampleUser(h) ==
    /\ at[h] = "user"
    /\ accounts' = Append(accounts, [type |-> Roster[reached[h].account], has |-> {}, support |-> {}])
    /\ reached' = [reached EXCEPT ![h].account = Len(accounts')]
    /\ nextUser' = nextUser + 1
    /\ Continue(h, "settings")
    /\ UNCHANGED Rest

Gives(h, what, next) ==
    /\ at[h] = what
    /\ accounts' = [accounts EXCEPT ![reached[h].account].has = @ \cup {what}]
    /\ Continue(h, next)
    /\ UNCHANGED <<Rest, nextUser, reached>>

CreateSettings(h)   == Gives(h, "settings", "blanks")
CreateBlanks(h)     == Gives(h, "blanks", "systemRoom")
CreateSystemRoom(h) == Gives(h, "systemRoom", IF Account(h).type = "admin" THEN "next" ELSE "adminRoom")

\* Preferences and a picture for the pairs, a card for the first guest.
HasExtras(i) == i > Len(Named) \/ Roster[i] = "customer"
CreateExtras(h) == Gives(h, "extras", "next")

\* All admins there are take part in the room for questions.
CreateAdminRoom(h) ==
    /\ at[h] = "adminRoom"
    /\ accounts' = [accounts EXCEPT
           ![reached[h].account].has = @ \cup {"adminRoom"},
           ![reached[h].account].support = {i \in DOMAIN accounts : accounts[i].type = "admin"}]
    /\ Continue(h, IF HasExtras(reached[h].account) THEN "extras" ELSE "next")
    /\ UNCHANGED <<Rest, nextUser, reached>>

\* After the named ones the rules and venues, after the last one the chats.
NextAccount(h) ==
    /\ at[h] = "next"
    /\ LET i == reached[h].account
       IN  /\ reached' = [reached EXCEPT ![h].account = IF i < Len(Roster) THEN i + 1 ELSE i]
           /\ Continue(h, IF i = Len(Named) THEN "rules" ELSE IF i < Len(Roster) THEN "user" ELSE "chats")
    /\ UNCHANGED <<Data, completed>>

Rules(h)   == Phase(h, "rules", "venues")
Venues(h)  == Phase(h, "venues", "gifts")
GiftMenu(h) == Phase(h, "gifts", "notices")
SampleNotices(h) == Phase(h, "notices", "user")

-----------------------------------------------------------------------------
(* Chats, settled orders, posts *)

Chats(h) == Phase(h, "chats", IF SampleOrders = 0 THEN "posts" ELSE "order")

Kept == <<production, nextUser, systems, seeded, accounts, completed>>

\* Fay and any other cast have attended.
CreateOrder(h) ==
    /\ at[h] = "order"
    /\ \E fee \in SampleFees, second \in SampleCasts :
          pastOrders' = Append(pastOrders,
              [fee |-> fee, casts |-> <<Fay, second>>, room |-> FALSE, booked |-> {}, linked |-> {}])
    /\ reached' = [reached EXCEPT ![h].order = Len(pastOrders'), ![h].cast = 1]
    /\ Continue(h, "orderRoom")
    /\ UNCHANGED <<Kept, wallet>>

\* The group room is made, and then the order gets to know it.
CreateOrderRoom(h) == at[h] = "orderRoom" /\ Continue(h, "link") /\ UNCHANGED <<Data, reached, completed>>

LinkOrderRoom(h) ==
    /\ at[h] = "link"
    /\ pastOrders' = [pastOrders EXCEPT ![reached[h].order].room = TRUE]
    /\ Continue(h, "book")
    /\ UNCHANGED <<Kept, wallet, reached>>

BookAttendance(h) ==
    /\ at[h] = "book"
    /\ pastOrders' = [pastOrders EXCEPT ![reached[h].order].booked = @ \cup {reached[h].cast}]
    /\ Continue(h, "attendance")
    /\ UNCHANGED <<Kept, wallet, reached>>

LinkAttendance(h) ==
    /\ at[h] = "attendance"
    /\ pastOrders' = [pastOrders EXCEPT ![reached[h].order].linked = @ \cup {reached[h].cast}]
    /\ Continue(h, "credit")
    /\ UNCHANGED <<Kept, wallet, reached>>

\* The cast is paid; the guest is not charged.
CreditCast(h) ==
    /\ at[h] = "credit"
    /\ LET p == reached[h]
           o == pastOrders[p.order]
       IN  /\ wallet' = [wallet EXCEPT ![o.casts[p.cast]] = @ + o.fee]
           /\ reached' = [reached EXCEPT ![h].cast = 2]
           /\ Continue(h, IF p.cast = 1 THEN "book"
                          ELSE IF p.order < SampleOrders THEN "order" ELSE "lastChat")
    /\ UNCHANGED <<Kept, pastOrders>>

\* Two messages in the room of the last order, if it has one.
LastChat(h) == at[h] = "lastChat" /\ Continue(h, "posts") /\ UNCHANGED <<Data, reached, completed>>

SamplePosts(h) == Phase(h, "posts", "friendships")
Friendships(h) == Writes(h, "friendships", "idle") /\ completed' = completed + 1

SeedDie(h) == Die(h) /\ UNCHANGED <<Data, reached, completed>>

SeedNext ==
    \E h \in Handlers :
        \/ FindSystem(h) \/ CreateSystem(h) \/ SystemRefused(h)
        \/ Company(h) \/ Branches(h) \/ Menus(h) \/ CustomerLevels(h) \/ Attributes(h)
        \/ Preferences(h) \/ Balance(h)
        \/ AdminLogins(h) \/ CreateSampleUser(h) \/ CreateSettings(h) \/ CreateBlanks(h)
        \/ CreateSystemRoom(h) \/ CreateAdminRoom(h) \/ CreateExtras(h) \/ NextAccount(h)
        \/ Rules(h) \/ Venues(h) \/ GiftMenu(h) \/ SampleNotices(h) \/ Chats(h)
        \/ CreateOrder(h) \/ CreateOrderRoom(h) \/ LinkOrderRoom(h) \/ BookAttendance(h)
        \/ LinkAttendance(h) \/ CreditCast(h) \/ LastChat(h)
        \/ SamplePosts(h) \/ Friendships(h) \/ SeedDie(h)

SeedSpec == SeedInit /\ [][SeedNext]_<<handlerVars, seedVars>>

-----------------------------------------------------------------------------
(* Properties *)

Expected == IF production THEN Reference ELSE Reference \cup Samples

\* What the i-th account must have.
Complete(i) ==
    accounts[i].has = {"settings", "blanks", "systemRoom"}
                        \cup (IF Roster[i] = "admin" THEN {} ELSE {"adminRoom"})
                        \cup (IF HasExtras(i) THEN {"extras"} ELSE {})

\* What the i-th account has earned by the orders settled so far.
EarnedBy(i) ==
    LET paid == {x \in (DOMAIN pastOrders) \X {1, 2} :
                    x[2] \in pastOrders[x[1]].booked /\ pastOrders[x[1]].casts[x[2]] = i}
    IN  FoldFunction(LAMBDA m, n : m + n, 0, [x \in paid |-> pastOrders[x[1]].fee])

\* seed.ts:9 ("Re-runnable"): however often, and by how many at once, the script is
\* started and wherever it dies, no data is written twice and the members' messages
\* have one sender with id 1; a run that was through, or that was not disturbed, has
\* left all the data there is to be: every account with its settings, rooms and all
\* admins as support, every order with its room, and every cast paid what the
\* ledger's rows say.
SeededOnce ==
    /\ \A t \in DOMAIN seeded : seeded[t] <= 1
    /\ seeded["company"] = 1 => 1 \in systems
    /\ completed > 0 \/ (nextUser > 1 /\ AtRest /\ faults = 0) =>
          /\ completed = 1
          /\ \A t \in DOMAIN seeded : seeded[t] = IF t \in Expected THEN 1 ELSE 0
          /\ ~production =>
                /\ Len(accounts) = Len(Roster) /\ Len(pastOrders) = SampleOrders
                /\ \A i \in DOMAIN accounts :
                      /\ accounts[i].type = Roster[i] /\ Complete(i)
                      /\ Roster[i] # "admin" => accounts[i].support = Admins(Len(accounts))
                /\ \A o \in DOMAIN pastOrders : pastOrders[o].room /\ pastOrders[o].linked = {1, 2}
                /\ \A i \in DOMAIN accounts : wallet[i] = EarnedBy(i)
=============================================================================
