---------------------------- MODULE MembersProofs ----------------------------
(***************************************************************************)
(* Proofs about Members: for each desk at which members' own requests      *)
(* arrive the inductive invariant of its rows and handlers, from the       *)
(* code's order of reads and writes, and at the end the theorems that      *)
(* Members keeps what the desk promises.  The other desks are in           *)
(* OperationsProofs and ScreensProofs.                                     *)
(***************************************************************************)
EXTENDS Members, RequestHandlersProofs

-----------------------------------------------------------------------------
(* Accounts *)

AccountLabels == {"idle", "create", "setEmail", "setLevel", "undiscard", "withdraw"}

AccountRows ==
    [type : {"customer", "cast"}, email : {"none", "mail", "prefixed", "restored"},
     phone : {"none", "phone"},
     level : {"none", "full", "unauthorized", "picture_uploaded", "ceased"},
     discarded : BOOLEAN]

AccountsTyped ==
    /\ at \in [Handlers -> AccountLabels] /\ Bounded /\ Sequential
    /\ users \in Seq(AccountRows) /\ Len(users) <= MaxAccounts
    /\ shown \in [AccountIds -> AccountRows] /\ form \in [AccountIds -> AccountRows]
    /\ outdated \in BOOLEAN
    /\ account \in [Handlers -> [id : 0..MaxAccounts, row : AccountRows]]

\* Two accounts that may stand side by side.
PairApart(r, q) ==
    /\ r.email = q.email => r.email # "mail"
    /\ r.type = "customer" /\ q.type = "customer" => r.phone = "none" \/ q.phone = "none"

\* Only who has withdrawn has a prefixed address, and is discarded.
Withdrawn(r) == (r.email = "prefixed" => r.level = "ceased") /\ (r.level = "ceased" => r.discarded)

AllApart(us) ==
    \A i \in DOMAIN us : Withdrawn(us[i]) /\ \A j \in DOMAIN us \ {i} : PairApart(us[i], us[j])

\* What a handler at l that has read a relies on.
AccountFacts(l, a) ==
    /\ l = "create" =>
          /\ Withdrawn(a.row) /\ \A j \in DOMAIN users : PairApart(a.row, users[j])
    /\ l \notin {"idle", "create"} => a.id \in DOMAIN users
    /\ l = "setEmail" => \A j \in DOMAIN users \ {a.id} : users[j].email # "mail"
    /\ l \in {"setLevel", "undiscard", "withdraw"} => a.row = users[a.id]
    /\ l \in {"setLevel", "undiscard"} => users[a.id].level # "ceased"

AccountsIInv ==
    /\ AccountsTyped
    /\ ~overlapped /\ ~outdated =>
          AllApart(users) /\ \A h \in Handlers : AccountFacts(at[h], account[h])

\* A row is replaced by one that fits the others.
LEMMA RowReplaced ==
  ASSUME NEW us, us \in Seq(AccountRows), AllApart(us), NEW i \in DOMAIN us,
         NEW r \in AccountRows, Withdrawn(r), \A j \in DOMAIN us \ {i} : PairApart(r, us[j])
  PROVE  /\ [us EXCEPT ![i] = r] \in Seq(AccountRows)
         /\ Len([us EXCEPT ![i] = r]) = Len(us) /\ AllApart([us EXCEPT ![i] = r])
<1> DEFINE ws == [us EXCEPT ![i] = r]
<1>1. ws \in Seq(AccountRows) /\ Len(ws) = Len(us) /\ DOMAIN ws = DOMAIN us
  OBVIOUS
<1>2. ws[i] = r /\ \A j \in DOMAIN us \ {i} : ws[j] = us[j]
  OBVIOUS
<1>3. ASSUME NEW j \in DOMAIN us
      PROVE  Withdrawn(ws[j]) /\ \A k \in DOMAIN us \ {j} : PairApart(ws[j], ws[k])
  <2> HIDE DEF ws
  <2>1. CASE j = i
    BY <1>2, <2>1
  <2>2. CASE j # i
    <3>1. ws[j] = us[j] /\ Withdrawn(us[j])
      BY <1>2, <2>2 DEF AllApart
    <3>2. \A k \in DOMAIN us \ {j} : k # i => PairApart(ws[j], ws[k])
      BY <1>2, <3>1 DEF AllApart
    <3>3. PairApart(us[j], r)
      BY <2>2 DEF PairApart
    <3> QED
      BY <1>2, <3>1, <3>2, <3>3
  <2> QED
    BY <2>1, <2>2
<1> HIDE DEF ws
<1>4. AllApart(ws)
  BY <1>1, <1>3 DEF AllApart
<1> QED
  BY <1>1, <1>4 DEF ws

\* A row that keeps its address, number and type fits the others as before.
LEMMA RowKept ==
  ASSUME NEW us, us \in Seq(AccountRows), AllApart(us), NEW i \in DOMAIN us,
         NEW r \in AccountRows, r.email = us[i].email \/ r.email # "mail", r.phone = us[i].phone,
         r.type = us[i].type
  PROVE  \A j \in DOMAIN us \ {i} : PairApart(r, us[j])
BY DEF AllApart, PairApart

\* The validation says that the row fits the others.
LEMMA Validated ==
  ASSUME users \in Seq(AccountRows), NEW i, NEW r \in AccountRows, ValidateUser(i, r)
  PROVE  \A j \in DOMAIN users \ {i} : PairApart(r, users[j])
<1> SUFFICES ASSUME NEW j \in DOMAIN users \ {i} PROVE PairApart(r, users[j])
  OBVIOUS
<1>1. users[j] \in AccountRows
  OBVIOUS
<1>2. r.email = "mail" => users[j].email # "mail"
  BY DEF ValidateUser, FreeAmong
<1>3. r.type = "customer" /\ r.phone = "phone" => users[j].phone # "phone"
  BY DEF ValidateUser, FreeAmong
<1> QED
  BY <1>1, <1>2, <1>3 DEF PairApart, AccountRows

LEMMA SomeAccountRows ==
  /\ NoUser \in AccountRows /\ Nothing \in AccountRows /\ 0 \in 0..MaxAccounts
  /\ NoAccount \in [id : 0..MaxAccounts, row : AccountRows]
<1>1. NoUser \in AccountRows
  BY DEF NoUser, AccountRows
<1>3. Nothing \in AccountRows
  BY <1>1 DEF Nothing, AccountRows
<1>4. NoAccount \in [id : 0..MaxAccounts, row : AccountRows]
  BY <1>1, AccountAssumption DEF NoAccount
<1> QED
  BY <1>1, <1>3, <1>4, AccountAssumption

LEMMA AccountsInitOK ==
  ASSUME HandlersInit, AccountsIdle
  PROVE  AccountsIInv
<1>1. at \in [Handlers -> AccountLabels] /\ Bounded /\ Sequential
  BY InitBounded DEF Idle, AccountLabels
<1>2. NoUser \in AccountRows /\ Nothing \in AccountRows
      /\ NoAccount \in [id : 0..MaxAccounts, row : AccountRows]
  BY SomeAccountRows
<1>3. users = <<>> /\ DOMAIN users = {} /\ Len(users) = 0
  BY DEF AccountsIdle
<1>8. users \in Seq(AccountRows) /\ Len(users) <= MaxAccounts
  BY <1>3, AccountAssumption
<1>9. /\ shown \in [AccountIds -> AccountRows] /\ form \in [AccountIds -> AccountRows]
      /\ outdated \in BOOLEAN /\ account \in [Handlers -> [id : 0..MaxAccounts, row : AccountRows]]
  BY <1>2 DEF AccountsIdle
<1>4. AccountsTyped
  BY <1>1, <1>8, <1>9 DEF AccountsTyped
<1>5. AllApart(users)
  BY <1>3 DEF AllApart
<1>6. \A h \in Handlers : at[h] = "idle"
  BY DEF HandlersInit, Idle
<1>7. \A h \in Handlers : AccountFacts(at[h], account[h])
  BY <1>6 DEF AccountFacts
<1> QED
  BY <1>4, <1>5, <1>7 DEF AccountsIInv

\* A handler that has nothing under way needs nothing.
LEMMA NothingUnderWay ==
  ASSUME \A h \in Handlers : at[h] = "idle"
  PROVE  \A h \in Handlers : AccountFacts(at[h], account[h])
BY DEF AccountFacts

\* A request is taken up: what it has read holds, and nobody else is at work.
LEMMA AccountBegins ==
  ASSUME AccountsIInv, NEW h \in Handlers, NEW l \in AccountLabels \ {"idle"}, Begin(h, l),
         NEW i \in 0..MaxAccounts, NEW r \in AccountRows, AccountReads(h, i, r),
         PageSameA, UNCHANGED <<users, outdated>>,
         ~overlapped /\ ~outdated => AccountFacts(l, [id |-> i, row |-> r])
  PROVE  AccountsIInv'
<1>1. /\ at' \in [Handlers -> AccountLabels] /\ Bounded' /\ Sequential' /\ MovesTo(h, l)
      /\ ~overlapped' => ~overlapped /\ AtRest
  <2>1. at \in [Handlers -> AccountLabels] /\ Bounded /\ Sequential
    BY DEF AccountsIInv, AccountsTyped
  <2> QED
    BY <2>1, BeginMoves
<1>2. account' = [account EXCEPT ![h] = [id |-> i, row |-> r]]
  BY DEF AccountReads
<1>3. AccountsTyped'
  BY <1>1, <1>2 DEF AccountsIInv, AccountsTyped, PageSameA
<1>4. ASSUME ~overlapped', ~outdated'
      PROVE  AllApart(users') /\ \A g \in Handlers : AccountFacts(at[g], account[g])'
  <2>1. AllApart(users) /\ AccountFacts(l, [id |-> i, row |-> r])
    BY <1>1, <1>4 DEF AccountsIInv
  <2>2. at'[h] = l /\ account'[h] = [id |-> i, row |-> r]
    BY <1>1, <1>2 DEF AccountsIInv, AccountsTyped, MovesTo
  <2>3. AccountFacts(at[h], account[h])'
    BY <2>1, <2>2 DEF AccountFacts
  <2>4. \A g \in Handlers \ {h} : at'[g] = "idle"
    BY <1>1, <1>4 DEF MovesTo, AtRest, Idle
  <2>5. \A g \in Handlers \ {h} : AccountFacts(at[g], account[g])'
    BY <2>4 DEF AccountFacts
  <2> QED
    BY <2>1, <2>3, <2>5
<1> QED
  BY <1>3, <1>4 DEF AccountsIInv

\* A handler writes its row, and was the only one.
LEMMA AccountEnds ==
  ASSUME AccountsIInv, NEW h \in Handlers, at[h] # "idle", End(h) \/ Die(h),
         AccountReads(h, 0, NoUser), PageSameA, outdated' = outdated,
         users' \in Seq(AccountRows), Len(users') <= MaxAccounts,
         ~overlapped /\ ~outdated => AllApart(users')
  PROVE  AccountsIInv'
<1>1. at \in [Handlers -> AccountLabels] /\ Bounded /\ Sequential /\ "idle" \in AccountLabels
  BY DEF AccountsIInv, AccountsTyped, AccountLabels
<1>2. /\ at' \in [Handlers -> AccountLabels] /\ Bounded' /\ Sequential' /\ MovesTo(h, "idle")
      /\ overlapped' = overlapped /\ (~overlapped => OnlyOne(h))
  <2>1. CASE End(h)
    BY <1>1, <2>1, ContinueMoves DEF End
  <2>2. CASE Die(h)
    BY <1>1, <2>2, RefusedMoves DEF Die
  <2> QED
    BY <2>1, <2>2
<1>3. [id |-> 0, row |-> NoUser] \in [id : 0..MaxAccounts, row : AccountRows]
  BY AccountAssumption DEF NoUser, AccountRows
<1>4. account' \in [Handlers -> [id : 0..MaxAccounts, row : AccountRows]]
  BY <1>3 DEF AccountsIInv, AccountsTyped, AccountReads
<1>5. AccountsTyped'
  BY <1>2, <1>4 DEF AccountsIInv, AccountsTyped, PageSameA
<1>6. ~overlapped' => \A g \in Handlers : at'[g] = "idle"
  BY <1>2 DEF MovesTo, OnlyOne
<1>7. ~overlapped' => \A g \in Handlers : AccountFacts(at[g], account[g])'
  BY <1>6 DEF AccountFacts
<1> QED
  BY <1>2, <1>5, <1>7 DEF AccountsIInv

\* A request that is one statement, and during which nobody else is at work.
LEMMA AccountAtOnce ==
  ASSUME AccountsIInv, NEW h \in Handlers, AtOnceA(h), PageSameA,
         outdated' \in BOOLEAN, outdated => outdated',
         users' \in Seq(AccountRows), Len(users') <= MaxAccounts,
         ~overlapped /\ ~outdated' => AllApart(users')
  PROVE  AccountsIInv'
<1>1. at \in [Handlers -> AccountLabels] /\ Bounded /\ Sequential /\ "idle" \in AccountLabels
  BY DEF AccountsIInv, AccountsTyped, AccountLabels
<1>2. /\ at' \in [Handlers -> AccountLabels] /\ Bounded' /\ Sequential' /\ MovesTo(h, "idle")
      /\ ~overlapped' => ~overlapped /\ AtRest
  BY <1>1, BeginMoves DEF AtOnceA
<1>3. AccountsTyped'
  BY <1>2 DEF AccountsIInv, AccountsTyped, PageSameA, AtOnceA
<1>4. ~overlapped' => \A g \in Handlers : at'[g] = "idle"
  BY <1>2 DEF MovesTo, AtRest, Idle
<1>5. ~overlapped' => \A g \in Handlers : AccountFacts(at[g], account[g])'
  BY <1>4 DEF AccountFacts
<1> QED
  BY <1>2, <1>3, <1>5 DEF AccountsIInv

\* A row is written, if there is one.
LEMMA RowWritten ==
  ASSUME AccountsTyped, NEW i, NEW r, i \in DOMAIN users => r \in AccountRows, SetUser(i, r)
  PROVE  /\ users' \in Seq(AccountRows) /\ Len(users') <= MaxAccounts
         /\ AllApart(users) /\ i \in DOMAIN users /\ Withdrawn(r)
               /\ (\A j \in DOMAIN users \ {i} : PairApart(r, users[j]))
            => AllApart(users')
<1>1. users \in Seq(AccountRows) /\ Len(users) <= MaxAccounts /\ users' = [users EXCEPT ![i] = r]
  BY DEF AccountsTyped, SetUser
<1>2. users' \in Seq(AccountRows) /\ Len(users') = Len(users)
  <2>1. CASE i \in DOMAIN users
    BY <1>1, <2>1
  <2>2. CASE i \notin DOMAIN users
    <3> DEFINE n == Len(users)
               ws == [users EXCEPT ![i] = r]
    <3>1. users \in [1..n -> AccountRows] /\ DOMAIN users = 1..n
      BY <1>1
    <3>2. ws \in [1..n -> AccountRows] /\ \A j \in 1..n : ws[j] = users[j]
      BY <2>2, <3>1
    <3>3. ws = users
      BY <3>1, <3>2
    <3> QED
      BY <1>1, <3>3
  <2> QED
    BY <2>1, <2>2
<1>3. AllApart(users) /\ i \in DOMAIN users /\ Withdrawn(r)
         /\ (\A j \in DOMAIN users \ {i} : PairApart(r, users[j]))
      => AllApart(users')
  BY <1>1, RowReplaced
<1> QED
  BY <1>1, <1>2, <1>3

LEMMA RowEnds ==
  ASSUME AccountsIInv, NEW h \in Handlers, at[h] # "idle", AccountDone(h), PageSameA,
         outdated' = outdated, NEW i, NEW r, SetUser(i, r), i \in DOMAIN users => r \in AccountRows,
         ~overlapped /\ ~outdated =>
            /\ i \in DOMAIN users /\ Withdrawn(r)
            /\ \A j \in DOMAIN users \ {i} : PairApart(r, users[j])
  PROVE  AccountsIInv'
<1>1. AccountsTyped /\ (~overlapped /\ ~outdated => AllApart(users))
  BY DEF AccountsIInv
<1>2. /\ users' \in Seq(AccountRows) /\ Len(users') <= MaxAccounts
      /\ ~overlapped /\ ~outdated => AllApart(users')
  BY <1>1, RowWritten
<1> QED
  BY <1>2, AccountEnds DEF AccountDone

LEMMA RowAtOnce ==
  ASSUME AccountsIInv, NEW h \in Handlers, AtOnceA(h), PageSameA,
         outdated' \in BOOLEAN, outdated => outdated',
         NEW i \in DOMAIN users, NEW r \in AccountRows, SetUser(i, r),
         ~overlapped /\ ~outdated' =>
            Withdrawn(r) /\ \A j \in DOMAIN users \ {i} : PairApart(r, users[j])
  PROVE  AccountsIInv'
<1>1. AccountsTyped /\ (~overlapped /\ ~outdated => AllApart(users))
  BY DEF AccountsIInv
<1>2. /\ users' \in Seq(AccountRows) /\ Len(users') <= MaxAccounts
      /\ ~overlapped /\ ~outdated' => AllApart(users')
  BY <1>1, RowWritten
<1> QED
  BY <1>2, AccountAtOnce

LEMMA AccountsNextOK ==
  ASSUME AccountsIInv, [AccountsNext]_<<handlerVars, accountVars>>
  PROVE  AccountsIInv'
<1>t. AccountsTyped /\ users \in Seq(AccountRows) /\ Len(users) <= MaxAccounts
  BY DEF AccountsIInv, AccountsTyped
<1>d. \A i \in DOMAIN users : i \in 1..MaxAccounts /\ users[i] \in AccountRows
  BY <1>t, AccountAssumption
<1>o. outdated \in BOOLEAN /\ account \in [Handlers -> [id : 0..MaxAccounts, row : AccountRows]]
  BY <1>t DEF AccountsTyped
<1>n. NoUser \in AccountRows /\ Nothing \in AccountRows /\ 0 \in 0..MaxAccounts
  BY SomeAccountRows
<1>1. ASSUME NEW h \in Handlers, SignUp(h) \/ SignUpCast(h)
      PROVE  AccountsIInv'
  <2>1. PICK r \in AccountRows : Registers(h, r) /\ Withdrawn(r)
    <3>1. CASE SignUp(h)
      <4>1. PICK e \in {"none", "mail"}, p \in {"none", "phone"} :
                Registers(h, [NoUser EXCEPT !.email = e, !.phone = p])
        BY <3>1 DEF SignUp
      <4> DEFINE q == [NoUser EXCEPT !.email = e, !.phone = p]
      <4>3. q \in AccountRows /\ q.email = e /\ q.level = NoUser.level
        BY SomeAccountRows DEF AccountRows
      <4>2. Withdrawn(q)
        BY <4>3 DEF NoUser, Withdrawn
      <4> HIDE DEF q
      <4> QED
        BY <4>1, <4>2, <4>3 DEF q
    <3>2. CASE SignUpCast(h)
      <4>1. PICK e \in {"none", "mail"} :
                Registers(h, [type |-> "cast", email |-> e, phone |-> "phone",
                              level |-> "unauthorized", discarded |-> FALSE])
        BY <3>2 DEF SignUpCast
      <4> DEFINE q == [type |-> "cast", email |-> e, phone |-> "phone", level |-> "unauthorized",
                       discarded |-> FALSE]
      <4>2. q \in AccountRows /\ Withdrawn(q)
        BY DEF AccountRows, Withdrawn
      <4> HIDE DEF q
      <4> QED
        BY <4>1, <4>2 DEF q
    <3> QED
      BY <1>1, <3>1, <3>2
  <2>2. /\ Begin(h, "create") /\ AccountReads(h, 0, r) /\ ValidateUser(0, r)
        /\ PageSameA /\ UNCHANGED <<users, outdated>>
    BY <2>1 DEF Registers
  <2>3. \A j \in DOMAIN users : PairApart(r, users[j])
    BY <2>2, <1>t, <1>d, Validated
  <2>4. AccountFacts("create", [id |-> 0, row |-> r])
    BY <2>1, <2>3 DEF AccountFacts
  <2> QED
    BY <2>2, <2>4, <1>n, AccountBegins DEF AccountLabels
<1>2. ASSUME NEW h \in Handlers, CreateUser(h)
      PROVE  AccountsIInv'
  <2>1. /\ at[h] = "create" /\ Len(users) < MaxAccounts /\ users' = Append(users, account[h].row)
        /\ End(h) /\ AccountReads(h, 0, NoUser) /\ PageSameA /\ outdated' = outdated
    BY <1>2 DEF CreateUser, AccountDone
  <2> DEFINE r == account[h].row
  <2>2. r \in AccountRows
    BY <1>t DEF AccountsTyped
  <2>3. users' \in Seq(AccountRows) /\ Len(users') <= MaxAccounts /\ Len(users') = Len(users) + 1
    BY <2>1, <2>2, <1>t, AccountAssumption
  <2>4. ASSUME ~overlapped, ~outdated
        PROVE  AllApart(users')
    <3>1. AllApart(users) /\ Withdrawn(r) /\ \A j \in DOMAIN users : PairApart(r, users[j])
      BY <2>1, <2>4 DEF AccountFacts, AccountsIInv
    <3> HIDE DEF r
    <3>2. DOMAIN users' = DOMAIN users \cup {Len(users) + 1} /\ users'[Len(users) + 1] = r
          /\ Len(users) + 1 \notin DOMAIN users
          /\ \A j \in DOMAIN users : users'[j] = users[j]
      BY <2>1, <2>2, <1>t DEF r
    <3>3. ASSUME NEW j \in DOMAIN users PROVE PairApart(users[j], r)
      BY <3>1, <3>3 DEF PairApart
    <3> QED
      BY <3>1, <3>2, <3>3 DEF AllApart
  <2> QED
    BY <2>1, <2>3, <2>4, AccountEnds
<1>3. ASSUME NEW h \in Handlers, SetEmail(h)
      PROVE  AccountsIInv'
  <2> DEFINE i == account[h].id
             r == [users[i] EXCEPT !.email = "mail"]
  <2>1. at[h] = "setEmail" /\ SetUser(i, r) /\ PageSameA /\ AccountDone(h) /\ outdated' = outdated
    BY <1>3 DEF SetEmail
  <2>2. i \in DOMAIN users =>
          /\ r \in AccountRows /\ r.type = users[i].type /\ r.phone = users[i].phone
          /\ r.email = "mail" /\ r.level = users[i].level /\ r.discarded = users[i].discarded
    BY <1>d, <1>o DEF AccountRows
  <2>3. ~overlapped /\ ~outdated =>
          AllApart(users) /\ AccountFacts("setEmail", account[h])
    BY <2>1 DEF AccountsIInv
  <2>4. ~overlapped /\ ~outdated =>
          /\ AllApart(users) /\ i \in DOMAIN users /\ Withdrawn(users[i])
          /\ \A j \in DOMAIN users \ {i} : users[j].email # "mail"
    BY <2>3 DEF AccountFacts, AllApart
  <2> HIDE DEF i, r
  <2>5. ~overlapped /\ ~outdated =>
          Withdrawn(r) /\ \A j \in DOMAIN users \ {i} : PairApart(r, users[j])
    BY <2>2, <2>4 DEF Withdrawn, AllApart, PairApart
  <2> QED
    BY <2>1, <2>2, <2>4, <2>5, RowEnds
<1>4. ASSUME NEW h \in Handlers, SetPictureUploaded(h)
      PROVE  AccountsIInv'
  <2> DEFINE i == account[h].id
             r == [users[i] EXCEPT !.level = "picture_uploaded"]
  <2>1. at[h] = "setLevel" /\ SetUser(i, r) /\ PageSameA /\ AccountDone(h) /\ outdated' = outdated
    BY <1>4 DEF SetPictureUploaded
  <2>2. i \in DOMAIN users =>
          /\ r \in AccountRows /\ r.type = users[i].type /\ r.phone = users[i].phone
          /\ r.email = users[i].email /\ r.level = "picture_uploaded"
    BY <1>d, <1>o DEF AccountRows
  <2>3. ~overlapped /\ ~outdated =>
          AllApart(users) /\ AccountFacts("setLevel", account[h])
    BY <2>1 DEF AccountsIInv
  <2>4. ~overlapped /\ ~outdated =>
          /\ AllApart(users) /\ i \in DOMAIN users /\ Withdrawn(users[i])
          /\ users[i].level # "ceased"
    BY <2>3 DEF AccountFacts, AllApart
  <2> HIDE DEF i, r
  <2>5. ~overlapped /\ ~outdated =>
          Withdrawn(r) /\ \A j \in DOMAIN users \ {i} : PairApart(r, users[j])
    <3>1. ~overlapped /\ ~outdated => Withdrawn(r)
      BY <2>2, <2>4 DEF Withdrawn
    <3> QED
      BY <1>t, <2>2, <2>4, <3>1, RowKept
  <2> QED
    BY <2>1, <2>2, <2>4, <2>5, RowEnds
<1>5. ASSUME NEW h \in Handlers, Undiscard(h)
      PROVE  AccountsIInv'
  <2> DEFINE i == account[h].id
             r == [users[i] EXCEPT !.discarded = FALSE]
  <2>1. at[h] = "undiscard" /\ SetUser(i, r) /\ PageSameA /\ AccountDone(h) /\ outdated' = outdated
    BY <1>5 DEF Undiscard
  <2>2. i \in DOMAIN users =>
          /\ r \in AccountRows /\ r.type = users[i].type /\ r.phone = users[i].phone
          /\ r.email = users[i].email /\ r.level = users[i].level
    BY <1>d, <1>o DEF AccountRows
  <2>3. ~overlapped /\ ~outdated =>
          AllApart(users) /\ AccountFacts("undiscard", account[h])
    BY <2>1 DEF AccountsIInv
  <2>4. ~overlapped /\ ~outdated =>
          /\ AllApart(users) /\ i \in DOMAIN users /\ Withdrawn(users[i])
          /\ users[i].level # "ceased"
    BY <2>3 DEF AccountFacts, AllApart
  <2> HIDE DEF i, r
  <2>5. ~overlapped /\ ~outdated =>
          Withdrawn(r) /\ \A j \in DOMAIN users \ {i} : PairApart(r, users[j])
    <3>1. ~overlapped /\ ~outdated => Withdrawn(r)
      BY <2>2, <2>4 DEF Withdrawn
    <3> QED
      BY <1>t, <2>2, <2>4, <3>1, RowKept
  <2> QED
    BY <2>1, <2>2, <2>4, <2>5, RowEnds
<1>6. ASSUME NEW h \in Handlers, SetWithdrawn(h)
      PROVE  AccountsIInv'
  <2> DEFINE i == account[h].id
             email == account[h].row.email
             m == IF email = "none" THEN email ELSE "prefixed"
             r == [users[i] EXCEPT !.level = "ceased", !.discarded = TRUE, !.email = m]
  <2>1. at[h] = "withdraw" /\ SetUser(i, r) /\ PageSameA /\ AccountDone(h) /\ outdated' = outdated
    BY <1>6 DEF SetWithdrawn
  <2>2. m \in {"none", "prefixed"}
    OBVIOUS
  <2> HIDE DEF email, m
  <2>3. i \in DOMAIN users =>
          /\ r \in AccountRows /\ r.type = users[i].type /\ r.phone = users[i].phone
          /\ r.email # "mail" /\ r.level = "ceased" /\ r.discarded
    BY <1>d, <1>o, <2>2 DEF AccountRows
  <2>4. ~overlapped /\ ~outdated => AllApart(users) /\ i \in DOMAIN users
    BY <2>1 DEF AccountsIInv, AccountFacts
  <2> HIDE DEF i, r
  <2>5. ~overlapped /\ ~outdated =>
          Withdrawn(r) /\ \A j \in DOMAIN users \ {i} : PairApart(r, users[j])
    <3>1. ~overlapped /\ ~outdated => Withdrawn(r)
      BY <2>3, <2>4 DEF Withdrawn
    <3> QED
      BY <1>t, <2>3, <2>4, <3>1, RowKept
  <2> QED
    BY <2>1, <2>3, <2>4, <2>5, RowEnds
<1>7. ASSUME NEW h \in Handlers, AccountDie(h)
      PROVE  AccountsIInv'
  <2>1. /\ Die(h) /\ at[h] # "idle" /\ AccountReads(h, 0, NoUser) /\ PageSameA
        /\ UNCHANGED <<users, outdated>>
    BY <1>7 DEF AccountDie, Die
  <2> QED
    BY <2>1, <1>t, AccountEnds DEF AccountsIInv
<1>8. ASSUME NEW h \in Handlers, NEW i \in DOMAIN users, AddEmail(h, i)
      PROVE  AccountsIInv'
  <2> DEFINE r == [users[i] EXCEPT !.email = "mail"]
  <2>1. /\ Begin(h, "setEmail") /\ ValidateUser(i, r) /\ AccountReads(h, i, r)
        /\ PageSameA /\ UNCHANGED <<users, outdated>>
    BY <1>8 DEF AddEmail
  <2>2. r \in AccountRows /\ r.email = "mail" /\ i \in 0..MaxAccounts
    BY <1>d, AccountAssumption DEF AccountRows
  <2> HIDE DEF r
  <2>3. AccountFacts("setEmail", [id |-> i, row |-> r])
    BY <2>1, <2>2 DEF AccountFacts, ValidateUser, FreeAmong
  <2> QED
    BY <2>1, <2>2, <2>3, AccountBegins DEF AccountLabels
<1>9. ASSUME NEW h \in Handlers, NEW i \in DOMAIN users, CheckIdentity(h, i)
      PROVE  AccountsIInv'
  <2>1. /\ Begin(h, "setLevel") /\ AccountReads(h, i, users[i]) /\ users[i].level # "ceased"
        /\ PageSameA /\ UNCHANGED <<users, outdated>>
    BY <1>9 DEF CheckIdentity
  <2>2. users[i] \in AccountRows /\ i \in 0..MaxAccounts
    BY <1>d, AccountAssumption
  <2>3. AccountFacts("setLevel", [id |-> i, row |-> users[i]])
    BY <2>1 DEF AccountFacts
  <2> QED
    BY <2>1, <2>2, <2>3, AccountBegins DEF AccountLabels
<1>10. ASSUME NEW h \in Handlers, NEW i \in DOMAIN users, Unfreeze(h, i)
      PROVE  AccountsIInv'
  <2>1. /\ Begin(h, "undiscard") /\ AccountReads(h, i, users[i]) /\ users[i].level # "ceased"
        /\ PageSameA /\ UNCHANGED <<users, outdated>>
    BY <1>10 DEF Unfreeze
  <2>2. users[i] \in AccountRows /\ i \in 0..MaxAccounts
    BY <1>d, AccountAssumption
  <2>3. AccountFacts("undiscard", [id |-> i, row |-> users[i]])
    BY <2>1 DEF AccountFacts
  <2> QED
    BY <2>1, <2>2, <2>3, AccountBegins DEF AccountLabels
<1>11. ASSUME NEW h \in Handlers, NEW i \in DOMAIN users, Withdraw(h, i)
      PROVE  AccountsIInv'
  <2>1. /\ Begin(h, "withdraw") /\ AccountReads(h, i, users[i])
        /\ PageSameA /\ UNCHANGED <<users, outdated>>
    BY <1>11 DEF Withdraw
  <2>2. users[i] \in AccountRows /\ i \in 0..MaxAccounts
    BY <1>d, AccountAssumption
  <2>3. AccountFacts("withdraw", [id |-> i, row |-> users[i]])
    BY <2>1 DEF AccountFacts
  <2> QED
    BY <2>1, <2>2, <2>3, AccountBegins DEF AccountLabels
<1>12. ASSUME NEW h \in Handlers, NEW i \in DOMAIN users, VerifyPhone(h, i)
      PROVE  AccountsIInv'
  <2>1. AtOnceA(h) /\ PageSameA /\ UNCHANGED <<users, outdated>>
    BY <1>12 DEF VerifyPhone
  <2> QED
    BY <2>1, <1>t, <1>o, AccountAtOnce DEF AccountsIInv, AtOnceA, Begin, Deliver
<1>13. ASSUME NEW h \in Handlers, NEW i \in DOMAIN users, UpdatePhone(h, i)
      PROVE  AccountsIInv'
  <2> DEFINE r == [users[i] EXCEPT !.phone = "phone"]
  <2>1. /\ AtOnceA(h) /\ PageSameA /\ SetUser(i, r)
        /\ outdated' = (outdated \/ ~ValidateUser(i, r))
    BY <1>13 DEF UpdatePhone
  <2>2. r \in AccountRows /\ r.email = users[i].email /\ r.level = users[i].level
        /\ r.discarded = users[i].discarded
    BY <1>d DEF AccountRows
  <2> HIDE DEF r
  <2>3. ~outdated' => \A j \in DOMAIN users \ {i} : PairApart(r, users[j])
    BY <2>1, <2>2, <1>t, Validated
  <2>4. ~overlapped /\ ~outdated' => Withdrawn(r)
    BY <2>1, <2>2 DEF AccountsIInv, AllApart, Withdrawn
  <2>5. outdated' \in BOOLEAN /\ (outdated => outdated')
    BY <2>1, <1>o
  <2> QED
    BY <2>1, <2>2, <2>3, <2>4, <2>5, RowAtOnce
<1>14. ASSUME NEW h \in Handlers, NEW i \in DOMAIN users, Freeze(h, i)
      PROVE  AccountsIInv'
  <2> DEFINE r == [users[i] EXCEPT !.discarded = TRUE]
  <2>1. AtOnceA(h) /\ PageSameA /\ SetUser(i, r) /\ outdated' = outdated
    BY <1>14 DEF Freeze
  <2>2. /\ r \in AccountRows /\ r.type = users[i].type /\ r.phone = users[i].phone
        /\ r.email = users[i].email /\ r.level = users[i].level /\ r.discarded
    BY <1>d DEF AccountRows
  <2> HIDE DEF r
  <2>3. ~overlapped /\ ~outdated =>
          Withdrawn(r) /\ \A j \in DOMAIN users \ {i} : PairApart(r, users[j])
    <3>1. ~overlapped /\ ~outdated => AllApart(users) /\ Withdrawn(users[i])
      BY DEF AccountsIInv, AllApart
    <3>2. ~overlapped /\ ~outdated => Withdrawn(r)
      BY <2>2, <3>1 DEF Withdrawn
    <3> QED
      BY <1>t, <2>2, <3>1, <3>2, RowKept
  <2> QED
    BY <2>1, <2>2, <2>3, <1>o, RowAtOnce
<1>15. ASSUME NEW h \in Handlers, NEW i \in DOMAIN users, RestoreUser(h, i)
      PROVE  AccountsIInv'
  <2> DEFINE r == [users[i] EXCEPT !.email = "restored", !.level = "full", !.discarded = FALSE]
  <2>1. AtOnceA(h) /\ PageSameA /\ SetUser(i, r) /\ outdated' = outdated
    BY <1>15 DEF RestoreUser
  <2>2. /\ r \in AccountRows /\ r.type = users[i].type /\ r.phone = users[i].phone
        /\ r.email = "restored" /\ r.level = "full"
    BY <1>d DEF AccountRows
  <2> HIDE DEF r
  <2>3. ~overlapped /\ ~outdated =>
          Withdrawn(r) /\ \A j \in DOMAIN users \ {i} : PairApart(r, users[j])
    <3>1. ~overlapped /\ ~outdated => AllApart(users) /\ Withdrawn(users[i])
      BY DEF AccountsIInv, AllApart
    <3>2. ~overlapped /\ ~outdated => Withdrawn(r)
      BY <2>2, <3>1 DEF Withdrawn
    <3> QED
      BY <1>t, <2>2, <3>1, <3>2, RowKept
  <2> QED
    BY <2>1, <2>2, <2>3, <1>o, RowAtOnce
<1>16. ASSUME NEW h \in Handlers, NEW i \in DOMAIN users, SaveForm(h, i)
      PROVE  AccountsIInv'
  <2>1. PICK l \in {form[i].level, "full"} :
          LET r == [users[i] EXCEPT !.email = form[i].email, !.phone = form[i].phone, !.level = l]
          IN  /\ SetUser(i, r)
              /\ outdated' = (outdated \/ r.email # users[i].email \/ r.phone # users[i].phone
                                       \/ (r.level # users[i].level
                                           /\ "ceased" \in {r.level, users[i].level}))
    BY <1>16 DEF SaveForm
  <2> DEFINE r == [users[i] EXCEPT !.email = form[i].email, !.phone = form[i].phone, !.level = l]
  <2>2. AtOnceA(h) /\ PageSameA
    BY <1>16 DEF SaveForm
  <2>3. form[i] \in AccountRows
    BY <1>t, <1>d DEF AccountsTyped, AccountIds
  <2>4. r \in AccountRows /\ r.type = users[i].type /\ r.discarded = users[i].discarded
    BY <1>d, <2>3 DEF AccountRows
  <2>5. /\ SetUser(i, r)
        /\ outdated' = (outdated \/ r.email # users[i].email \/ r.phone # users[i].phone
                                 \/ (r.level # users[i].level
                                     /\ "ceased" \in {r.level, users[i].level}))
    BY <2>1
  <2> HIDE DEF r
  <2>6. outdated' \in BOOLEAN /\ (outdated => outdated')
    BY <2>5, <1>o
  <2>7. ASSUME ~overlapped, ~outdated'
        PROVE  Withdrawn(r) /\ \A j \in DOMAIN users \ {i} : PairApart(r, users[j])
    <3>1. AllApart(users) /\ Withdrawn(users[i])
      BY <2>6, <2>7 DEF AccountsIInv, AllApart
    <3>2. r.email = users[i].email /\ r.phone = users[i].phone
          /\ (r.level = users[i].level \/ "ceased" \notin {r.level, users[i].level})
      BY <2>5, <2>7
    <3>3. Withdrawn(r)
      BY <2>4, <3>1, <3>2 DEF Withdrawn
    <3> QED
      BY <1>t, <2>4, <3>1, <3>2, <3>3, RowKept
  <2> QED
    BY <2>2, <2>4, <2>5, <2>6, <2>7, RowAtOnce
<1>17. ASSUME NEW h \in Handlers, NEW i \in DOMAIN users, SetAccessLevel(h, i)
      PROVE  AccountsIInv'
  <2>1. PICK l \in {"unauthorized", "full"} : SetUser(i, [users[i] EXCEPT !.level = l])
    BY <1>17 DEF SetAccessLevel
  <2> DEFINE r == [users[i] EXCEPT !.level = l]
  <2>2. AtOnceA(h) /\ PageSameA /\ outdated' = (outdated \/ users[i].level = "ceased")
    BY <1>17 DEF SetAccessLevel
  <2>3. /\ r \in AccountRows /\ r.type = users[i].type /\ r.phone = users[i].phone
        /\ r.email = users[i].email /\ r.level = l
    BY <1>d DEF AccountRows
  <2>4. SetUser(i, r)
    BY <2>1
  <2> HIDE DEF r
  <2>5. outdated' \in BOOLEAN /\ (outdated => outdated')
    BY <2>2, <1>o
  <2>6. ASSUME ~overlapped, ~outdated'
        PROVE  Withdrawn(r) /\ \A j \in DOMAIN users \ {i} : PairApart(r, users[j])
    <3>1. AllApart(users) /\ Withdrawn(users[i]) /\ users[i].level # "ceased"
      BY <2>2, <2>6 DEF AccountsIInv, AllApart
    <3>2. Withdrawn(r)
      BY <2>3, <3>1 DEF Withdrawn
    <3> QED
      BY <1>t, <2>3, <3>1, <3>2, RowKept
  <2> QED
    BY <2>2, <2>3, <2>4, <2>5, <2>6, RowAtOnce
<1>18. ASSUME NEW i \in DOMAIN users, ViewUser(i)
      PROVE  AccountsIInv'
  <2>1. /\ shown' = [shown EXCEPT ![i] = users[i]]
        /\ UNCHANGED <<handlerVars, users, code, outdated, account>>
    BY <1>18 DEF ViewUser
  <2>2. PICK f \in {form[i], shown[i], users[i]} : form' = [form EXCEPT ![i] = f]
    BY <1>18 DEF ViewUser
  <2>3. shown \in [AccountIds -> AccountRows] /\ form \in [AccountIds -> AccountRows] /\ i \in AccountIds
    BY <1>t, <1>d DEF AccountsTyped, AccountIds
  <2>4. f \in AccountRows
    BY <2>2, <2>3, <1>d
  <2>5. shown' \in [AccountIds -> AccountRows] /\ form' \in [AccountIds -> AccountRows]
    BY <2>1, <2>2, <2>3, <2>4, <1>d
  <2>6. AccountsTyped'
    BY <1>t, <2>1, <2>5, StillSequential DEF AccountsTyped, handlerVars
  <2> QED
    BY <2>1, <2>6 DEF AccountsIInv, AccountFacts, handlerVars
<1>19. CASE UNCHANGED <<handlerVars, accountVars>>
  <2>1. AccountsTyped'
    BY <1>t, <1>19, StillSequential DEF AccountsTyped, handlerVars, accountVars
  <2> QED
    BY <1>19, <2>1 DEF AccountsIInv, AccountFacts, handlerVars, accountVars
<1> QED
  BY <1>1, <1>2, <1>3, <1>4, <1>5, <1>6, <1>7, <1>8, <1>9, <1>10, <1>11, <1>12, <1>13, <1>14,
     <1>15, <1>16, <1>17, <1>18, <1>19 DEF AccountsNext

LEMMA AccountsIInvApart == AccountsIInv => AccountsKeepApart
BY DEF AccountsIInv, AllApart, PairApart, Withdrawn, AccountsKeepApart, AccountsTyped, AccountRows
-----------------------------------------------------------------------------
(* Chats *)

ChatLabels ==
    {"idle", "findRoom", "newRoom", "readBlockers", "fanOut", "deleteRead", "block", "unblock"}

\* Where a handler has still something to send.
Sending == {"findRoom", "newRoom", "readBlockers", "fanOut"}

ChatReads == [room : Nat, senders : Seq(Senders), ignored : BOOLEAN, ids : SUBSET Nat]

ChatRowsTyped ==
    /\ rooms \in Nat /\ active \in Nat /\ muted \subseteq Nat
    /\ blocked \in BOOLEAN /\ followed \in BOOLEAN
    /\ messages \in Seq([room : Nat, from : Senders])
    /\ unread \in Seq({"none", "counted", "ignored"}) /\ Len(unread) = Len(messages)

ChatTyped ==
    /\ at \in [Handlers -> ChatLabels] /\ Bounded /\ Sequential
    /\ ChatRowsTyped
    /\ chat \in [Handlers -> ChatReads]
    /\ \A h \in Handlers : at[h] \in Sending => chat[h].senders # <<>>

\* There is one private room at most, it is muted only while the partner is blocked,
\* and the messages in it and from the partner are the ignored ones.
ChatRight ==
    /\ rooms \in {0, 1} /\ active = rooms /\ muted \subseteq 1..rooms
    /\ ~blocked => muted = {}
    /\ \A i \in Sent : unread[i] # "none" =>
          (unread[i] = "ignored" <=> (messages[i].room \in muted
                                        \/ (blocked /\ messages[i].from = "partner")))

\* What a handler at l that has read c relies on.
ChatFacts(l, c) ==
    /\ l = "newRoom" => rooms = 0
    /\ l \in {"readBlockers", "fanOut"} => c.room \in 0..rooms
    /\ l = "fanOut" =>
          (c.ignored <=> (c.room \in muted \/ (blocked /\ Head(c.senders) = "partner")))

ChatIInv ==
    /\ ChatTyped
    /\ ~overlapped /\ ~followed =>
          ChatRight /\ \A h \in Handlers : ChatFacts(at[h], chat[h])

\* What a step of h leaves right.
LEMMA ChatMoves ==
  ASSUME ChatIInv, NEW h \in Handlers, NEW l \in ChatLabels, HandlerStep(h, l),
         NEW c \in ChatReads, chat' = [chat EXCEPT ![h] = c], l \in Sending => c.senders # <<>>,
         ChatRowsTyped', followed => followed',
         ~overlapped /\ ~followed' => ChatRight' /\ ChatFacts(l, c)'
  PROVE  ChatIInv'
<1>1. at \in [Handlers -> ChatLabels] /\ Bounded /\ Sequential
  BY DEF ChatIInv, ChatTyped
<1>2. /\ at' \in [Handlers -> ChatLabels] /\ Bounded' /\ Sequential' /\ MovesTo(h, l)
      /\ ~overlapped' => ~overlapped /\ \A g \in Handlers \ {h} : at'[g] = "idle"
  BY <1>1, HandlerSteps
<1>3. chat' \in [Handlers -> ChatReads] /\ chat'[h] = c /\ at'[h] = l
      /\ \A g \in Handlers \ {h} : chat'[g] = chat[g] /\ at'[g] = at[g]
  BY <1>2 DEF ChatIInv, ChatTyped, MovesTo
<1>4. ChatTyped'
  BY <1>2, <1>3 DEF ChatIInv, ChatTyped
<1>5. ASSUME ~overlapped', ~followed'
      PROVE  ChatRight' /\ \A g \in Handlers : ChatFacts(at[g], chat[g])'
  <2>1. ChatRight' /\ ChatFacts(l, c)'
    BY <1>2, <1>5
  <2>2. ChatFacts(at[h], chat[h])'
    BY <1>3, <2>1 DEF ChatFacts
  <2>3. \A g \in Handlers \ {h} : at'[g] = "idle"
    BY <1>2, <1>5
  <2>4. \A g \in Handlers \ {h} : ChatFacts(at[g], chat[g])'
    BY <2>3 DEF ChatFacts
  <2> QED
    BY <2>1, <2>2, <2>4
<1> QED
  BY <1>4, <1>5 DEF ChatIInv

LEMMA NoChatRead == NoChat \in ChatReads
BY DEF NoChat, ChatReads, Group

LEMMA ChatInitOK ==
  ASSUME HandlersInit, ChatIdle
  PROVE  ChatIInv
<1>1. at \in [Handlers -> ChatLabels] /\ Bounded /\ Sequential /\ \A h \in Handlers : at[h] = "idle"
  BY InitBounded DEF Idle, ChatLabels
<1>2. ChatRowsTyped /\ Sent = {}
  <2>1. messages = <<>> /\ unread = <<>> /\ DOMAIN <<>> = {}
    BY DEF ChatIdle
  <2>2. messages \in Seq([room : Nat, from : Senders])
        /\ unread \in Seq({"none", "counted", "ignored"}) /\ Len(unread) = Len(messages)
    BY <2>1
  <2> QED
    BY <2>1, <2>2 DEF ChatIdle, ChatRowsTyped, Sent
<1>3. chat \in [Handlers -> ChatReads]
  BY NoChatRead DEF ChatIdle
<1>4. ChatTyped
  BY <1>1, <1>2, <1>3 DEF ChatTyped, Sending
<1>5. ChatRight
  BY <1>2 DEF ChatRight, ChatIdle
<1> QED
  BY <1>1, <1>4, <1>5 DEF ChatIInv, ChatFacts

LEMMA ChatNextOK ==
  ASSUME ChatIInv, [ChatNext]_<<handlerVars, chatVars>>
  PROVE  ChatIInv'
<1>t. /\ ChatRowsTyped /\ chat \in [Handlers -> ChatReads] /\ at \in [Handlers -> ChatLabels]
      /\ \A h \in Handlers : at[h] \in Sending => chat[h].senders # <<>>
  BY DEF ChatIInv, ChatTyped
<1>r. ~overlapped /\ ~followed =>
        ChatRight /\ \A h \in Handlers : ChatFacts(at[h], chat[h])
  BY DEF ChatIInv
<1>s. RoomsSame /\ MessagesSame /\ BlockSame =>
         ChatRowsTyped' /\ followed' = followed /\ (ChatRight => ChatRight')
  BY <1>t DEF RoomsSame, MessagesSame, BlockSame, ChatRowsTyped, ChatRight, Sent
<1>1. ASSUME NEW h \in Handlers, LikeProfile(h)
      PROVE  ChatIInv'
  <2>1. PICK u \in Pair, intro \in BOOLEAN :
          Note(h, [NoChat EXCEPT !.senders = <<u, "system">> \o IF intro THEN <<u>> ELSE <<>>])
    BY <1>1 DEF LikeProfile
  <2> DEFINE s == <<u, "system">> \o IF intro THEN <<u>> ELSE <<>>
             c == [NoChat EXCEPT !.senders = s]
  <2>2. Begin(h, "findRoom") /\ RoomsSame /\ MessagesSame /\ BlockSame
    BY <1>1 DEF LikeProfile
  <2>3. s \in Seq(Senders) /\ s # <<>>
    <3>1. <<u, "system">> \in Seq(Senders) /\ <<u>> \in Seq(Senders) /\ <<>> \in Seq(Senders)
      BY DEF Senders, Pair
    <3>2. Len(<<u, "system">>) = 2
      OBVIOUS
    <3>3. PICK p \in Seq(Senders), q \in Seq(Senders) :
            p = <<u, "system">> /\ q = IF intro THEN <<u>> ELSE <<>>
      BY <3>1
    <3>4. p \o q \in Seq(Senders) /\ Len(p \o q) = Len(p) + Len(q)
      OBVIOUS
    <3>5. Len(p \o q) > 0
      BY <3>2, <3>3, <3>4
    <3> QED
      BY <3>3, <3>4, <3>5
  <2>4. chat' = [chat EXCEPT ![h] = c]
    BY <2>1 DEF Note
  <2> HIDE DEF s
  <2>5. c \in ChatReads /\ c.senders # <<>>
    BY <2>3, NoChatRead DEF ChatReads
  <2> HIDE DEF c
  <2>6. ~overlapped /\ ~followed' => ChatRight' /\ ChatFacts("findRoom", c)'
    BY <1>r, <1>s, <2>2 DEF ChatFacts
  <2>m. HandlerStep(h, "findRoom") /\ "findRoom" \in ChatLabels /\ ChatRowsTyped' /\ (followed => followed')
    BY <1>s, <2>2, <2>4, <2>5, <2>6 DEF HandlerStep, ChatLabels
  <2> QED
    BY <2>2, <2>4, <2>5, <2>6, <2>m, ChatMoves
<1>2. ASSUME NEW h \in Handlers, FindConversation(h)
      PROVE  ChatIInv'
  <2>1. at[h] = "findRoom" /\ RoomsSame /\ MessagesSame /\ BlockSame
    BY <1>2 DEF FindConversation
  <2>2. CASE rooms > 0
    <3>1. Continue(h, "idle") /\ chat' = [chat EXCEPT ![h] = NoChat]
      BY <1>2, <2>2 DEF FindConversation, ChatDone, End, Note
    <3>2. ~overlapped /\ ~followed' => ChatRight' /\ ChatFacts("idle", NoChat)'
      BY <1>r, <1>s, <2>1 DEF ChatFacts
    <3>m. HandlerStep(h, "idle") /\ "idle" \in ChatLabels /\ ChatRowsTyped' /\ (followed => followed')
      BY <1>s, <2>1, <3>1, <3>2, NoChatRead DEF HandlerStep, ChatLabels
    <3>n. "idle" \notin Sending
      BY DEF Sending
    <3> QED
      BY <2>1, <3>1, <3>2, NoChatRead, <3>n, <3>m, ChatMoves
  <2>3. CASE ~(rooms > 0)
    <3>1. Continue(h, "newRoom") /\ chat' = chat
      BY <1>2, <2>3 DEF FindConversation
    <3>2. PICK c \in ChatReads : c = chat[h]
      BY <1>t
    <3>3. chat' = [chat EXCEPT ![h] = c] /\ c.senders # <<>>
      BY <1>t, <2>1, <3>1, <3>2 DEF Sending
    <3>4. rooms' = 0
      BY <1>t, <2>1, <2>3 DEF ChatRowsTyped, RoomsSame
    <3>5. ~overlapped /\ ~followed' => ChatRight' /\ ChatFacts("newRoom", c)'
      BY <1>r, <1>s, <2>1, <3>4 DEF ChatFacts
    <3>m. HandlerStep(h, "newRoom") /\ "newRoom" \in ChatLabels /\ ChatRowsTyped' /\ (followed => followed')
      BY <1>s, <2>1, <3>1, <3>3, <3>5 DEF HandlerStep, ChatLabels
    <3> QED
      BY <2>1, <3>1, <3>3, <3>5, <3>m, ChatMoves
  <2> QED
    BY <2>2, <2>3
<1>3. ASSUME NEW h \in Handlers, CreatePrivateConversation(h)
      PROVE  ChatIInv'
  <2>1. /\ at[h] = "newRoom" /\ rooms' = rooms + 1 /\ active' = rooms + 1
        /\ Continue(h, "readBlockers") /\ MessagesSame /\ BlockSame /\ followed' = followed
        /\ chat' = [chat EXCEPT ![h] = [chat[h] EXCEPT !.room = rooms + 1]]
    BY <1>3 DEF CreatePrivateConversation, Note
  <2>2. rooms + 1 \in Nat
    BY <1>t DEF ChatRowsTyped
  <2>3. [chat[h] EXCEPT !.room = rooms + 1] \in ChatReads
    BY <1>t, <2>2 DEF ChatReads
  <2>4. PICK c \in ChatReads : c = [chat[h] EXCEPT !.room = rooms + 1]
    BY <2>3
  <2>5. c.room = rooms + 1 /\ c.senders # <<>>
    <3>1. chat[h] \in ChatReads /\ chat[h].senders # <<>>
      BY <1>t, <2>1 DEF Sending
    <3> QED
      BY <2>4, <3>1 DEF ChatReads
  <2>6. ChatRowsTyped'
    BY <1>t, <2>1, <2>2 DEF ChatRowsTyped, MessagesSame, BlockSame
  <2>7. ~overlapped /\ ~followed' => ChatRight' /\ ChatFacts("readBlockers", c)'
    <3>1. ~overlapped /\ ~followed => ChatRight /\ rooms = 0
      BY <1>r, <2>1 DEF ChatFacts
    <3>2. ~overlapped /\ ~followed => muted = {} /\ rooms' = 1 /\ active' = 1
      BY <2>1, <3>1 DEF ChatRight
    <3>3. ~overlapped /\ ~followed => ChatRight'
      BY <2>1, <3>1, <3>2 DEF ChatRight, MessagesSame, BlockSame, Sent
    <3> QED
      BY <2>1, <2>5, <3>1, <3>2, <3>3 DEF ChatFacts
  <2>m. HandlerStep(h, "readBlockers") /\ "readBlockers" \in ChatLabels /\ ChatRowsTyped' /\ (followed => followed')
    BY <2>1, <2>4, <2>5, <2>6, <2>7 DEF HandlerStep, ChatLabels
  <2> QED
    BY <2>1, <2>4, <2>5, <2>6, <2>7, <2>m, ChatMoves
<1>4. ASSUME NEW h \in Handlers, FollowRecommendation(h)
      PROVE  ChatIInv'
  <2>1. /\ followed' = TRUE /\ Begin(h, "newRoom")
        /\ MessagesSame /\ BlockSame /\ UNCHANGED <<rooms, active>>
    BY <1>4 DEF FollowRecommendation
  <2>2. PICK u \in Pair : Note(h, [NoChat EXCEPT !.senders = <<u>>])
    BY <1>4 DEF FollowRecommendation
  <2> DEFINE c == [NoChat EXCEPT !.senders = <<u>>]
  <2>6. <<u>> \in Seq(Senders) /\ <<u>> # <<>>
    BY DEF Senders, Pair
  <2>7. PICK s \in Seq(Senders) : s = <<u>>
    BY <2>6
  <2>3. c \in ChatReads /\ c.senders # <<>>
    BY <2>6, <2>7, NoChatRead DEF ChatReads
  <2>4. chat' = [chat EXCEPT ![h] = c]
    BY <2>2 DEF Note
  <2> HIDE DEF c
  <2>5. ChatRowsTyped'
    BY <1>t, <2>1 DEF ChatRowsTyped, MessagesSame, BlockSame
  <2>m. HandlerStep(h, "newRoom") /\ "newRoom" \in ChatLabels /\ ChatRowsTyped' /\ (followed => followed')
    BY <2>1, <2>3, <2>4, <2>5 DEF HandlerStep, ChatLabels
  <2> QED
    BY <2>1, <2>3, <2>4, <2>5, <2>m, ChatMoves
<1>5. ASSUME NEW h \in Handlers, SendMessage(h)
      PROVE  ChatIInv'
  <2>1. Begin(h, "readBlockers") /\ RoomsSame /\ MessagesSame /\ BlockSame
    BY <1>5 DEF SendMessage
  <2>2. PICK r \in 0..rooms, s \in Senders : Note(h, [NoChat EXCEPT !.room = r, !.senders = <<s>>])
    BY <1>5 DEF SendMessage
  <2> DEFINE c == [NoChat EXCEPT !.room = r, !.senders = <<s>>]
  <2>8. <<s>> \in Seq(Senders) /\ <<s>> # <<>>
    BY DEF Senders, Pair
  <2>6. PICK q \in Seq(Senders) : q = <<s>> /\ q # <<>>
    BY <2>8
  <2>7. r \in Nat
    BY <1>t DEF ChatRowsTyped
  <2>3. c \in ChatReads /\ c.senders # <<>> /\ c.room = r
    BY <2>6, <2>7, NoChatRead DEF ChatReads
  <2>4. chat' = [chat EXCEPT ![h] = c]
    BY <2>2 DEF Note
  <2> HIDE DEF c
  <2>5. ~overlapped /\ ~followed' => ChatRight' /\ ChatFacts("readBlockers", c)'
    BY <1>r, <1>s, <2>1, <2>3 DEF ChatFacts, RoomsSame
  <2>m. HandlerStep(h, "readBlockers") /\ "readBlockers" \in ChatLabels /\ ChatRowsTyped' /\ (followed => followed')
    BY <1>s, <2>1, <2>3, <2>4, <2>5 DEF HandlerStep, ChatLabels
  <2> QED
    BY <2>1, <2>3, <2>4, <2>5, <2>m, ChatMoves
<1>6. ASSUME NEW h \in Handlers, ReadBlockers(h)
      PROVE  ChatIInv'
  <2> DEFINE b == chat[h].room \in muted \/ (blocked /\ Head(chat[h].senders) = "partner")
  <2>1. /\ at[h] = "readBlockers" /\ Continue(h, "fanOut")
        /\ RoomsSame /\ MessagesSame /\ BlockSame
        /\ chat' = [chat EXCEPT ![h] = [chat[h] EXCEPT !.ignored = b]]
    BY <1>6 DEF ReadBlockers, Note
  <2>2. b \in BOOLEAN
    BY <1>t DEF ChatRowsTyped
  <2>3. chat[h] \in ChatReads /\ chat[h].senders # <<>>
    BY <1>t, <2>1 DEF Sending
  <2>4. PICK d \in BOOLEAN : d = b
    BY <2>2
  <2>5. PICK c : c = [chat[h] EXCEPT !.ignored = d]
    OBVIOUS
  <2>6. c \in ChatReads /\ c.senders # <<>> /\ c.ignored = d /\ c.room = chat[h].room
        /\ c.senders = chat[h].senders
    BY <2>3, <2>5 DEF ChatReads
  <2>7. c.ignored <=> (c.room \in muted \/ (blocked /\ Head(c.senders) = "partner"))
    BY <2>4, <2>6
  <2>8. chat' = [chat EXCEPT ![h] = c]
    BY <2>1, <2>4, <2>5
  <2> HIDE DEF b
  <2>9. ~overlapped /\ ~followed' => ChatRight' /\ ChatFacts("fanOut", c)'
    <3>1. ~overlapped /\ ~followed => c.room \in 0..rooms
      BY <1>r, <2>1, <2>6 DEF ChatFacts
    <3> QED
      BY <1>r, <1>s, <2>1, <2>7, <3>1 DEF ChatFacts, RoomsSame, BlockSame
  <2>m. HandlerStep(h, "fanOut") /\ "fanOut" \in ChatLabels /\ ChatRowsTyped' /\ (followed => followed')
    BY <1>s, <2>1, <2>6, <2>8, <2>9 DEF HandlerStep, ChatLabels
  <2> QED
    BY <2>1, <2>6, <2>8, <2>9, <2>m, ChatMoves
<1>7. ASSUME NEW h \in Handlers, AddUnreadMessages(h)
      PROVE  ChatIInv'
  <2>1. chat[h] \in ChatReads /\ chat[h].senders # <<>> /\ at[h] = "fanOut"
    BY <1>7, <1>t DEF AddUnreadMessages, Sending
  <2>2. PICK r \in Nat, q \in Seq(Senders), g \in BOOLEAN :
          r = chat[h].room /\ q = chat[h].senders /\ g = chat[h].ignored
    BY <2>1 DEF ChatReads
  <2>3. q # <<>> /\ Head(q) \in Senders
    BY <2>1, <2>2
  <2>4. PICK s \in Senders : s = Head(q)
    BY <2>3
  <2>5. PICK n \in {"none", "ignored", "counted"} :
          n = IF s = "viewer" THEN "none" ELSE IF g THEN "ignored" ELSE "counted"
    OBVIOUS
  <2>6. /\ messages' = Append(messages, [room |-> r, from |-> s])
        /\ unread' = Append(unread, n)
        /\ active' = IF r = Group THEN active ELSE r
        /\ BlockSame /\ rooms' = rooms /\ followed' = followed
    BY <1>7, <2>2, <2>4, <2>5 DEF AddUnreadMessages
  <2>7. ChatRowsTyped'
    <3>1. [room |-> r, from |-> s] \in [room : Nat, from : Senders]
      OBVIOUS
    <3>2. /\ messages' \in Seq([room : Nat, from : Senders])
          /\ unread' \in Seq({"none", "counted", "ignored"}) /\ Len(unread') = Len(messages')
      BY <1>t, <2>6, <3>1 DEF ChatRowsTyped
    <3>3. active' \in Nat
      BY <1>t, <2>6 DEF ChatRowsTyped
    <3> QED
      BY <1>t, <2>6, <3>2, <3>3 DEF ChatRowsTyped, BlockSame
  <2>8. ~overlapped /\ ~followed =>
          /\ ChatRight /\ r \in 0..rooms
          /\ (g <=> (r \in muted \/ (blocked /\ s = "partner")))
    BY <1>r, <2>1, <2>2, <2>4 DEF ChatFacts
  <2>9. ~overlapped /\ ~followed => ChatRight'
    <3> SUFFICES ASSUME ~overlapped, ~followed PROVE ChatRight'
      OBVIOUS
    <3>1. rooms' \in {0, 1} /\ active' = rooms' /\ muted' \subseteq 1..rooms' /\ (~blocked' => muted' = {})
      BY <2>6, <2>8 DEF ChatRight, BlockSame, Group
    <3>2. DOMAIN messages' = DOMAIN messages \cup {Len(messages) + 1}
          /\ DOMAIN unread' = DOMAIN messages \cup {Len(messages) + 1}
          /\ messages'[Len(messages) + 1] = [room |-> r, from |-> s]
          /\ unread'[Len(messages) + 1] = n
          /\ \A i \in DOMAIN messages : messages'[i] = messages[i] /\ unread'[i] = unread[i]
      BY <1>t, <2>6 DEF ChatRowsTyped
    <3>3. PICK k : k = Len(messages) + 1
      OBVIOUS
    <3>4. unread'[k] # "none" =>
            (unread'[k] = "ignored" <=> (messages'[k].room \in muted'
                                          \/ (blocked' /\ messages'[k].from = "partner")))
      BY <2>5, <2>6, <2>8, <3>2, <3>3 DEF BlockSame
    <3>5. \A i \in DOMAIN messages : unread'[i] # "none" =>
            (unread'[i] = "ignored" <=> (messages'[i].room \in muted'
                                          \/ (blocked' /\ messages'[i].from = "partner")))
      BY <2>6, <2>8, <3>2 DEF BlockSame, ChatRight, Sent
    <3> QED
      BY <3>1, <3>2, <3>3, <3>4, <3>5 DEF ChatRight, Sent
  <2>10. CASE Len(q) > 1
    <3>1. /\ Continue(h, "readBlockers")
          /\ chat' = [chat EXCEPT ![h] = [chat[h] EXCEPT !.senders = Tail(q)]]
      BY <1>7, <2>2, <2>10 DEF AddUnreadMessages, Note
    <3>6. PICK w : w = Tail(q)
      OBVIOUS
    <3>7. w \in Seq(Senders) /\ Len(w) = Len(q) - 1 /\ Len(q) \in Nat
      BY <2>3, <3>6
    <3>8. Len(w) > 0
      BY <2>10, <3>7
    <3>9. w # <<>>
      BY <3>7, <3>8
    <3>2. w \in Seq(Senders) /\ w = Tail(q) /\ w # <<>>
      BY <3>6, <3>7, <3>9
    <3>3. PICK c : c = [chat[h] EXCEPT !.senders = w]
      OBVIOUS
    <3>4. c \in ChatReads /\ c.senders # <<>> /\ c.room = r
      BY <2>1, <2>2, <3>2, <3>3 DEF ChatReads
    <3>5. ~overlapped /\ ~followed' => ChatRight' /\ ChatFacts("readBlockers", c)'
      BY <2>6, <2>8, <2>9, <3>4 DEF ChatFacts
    <3>m. HandlerStep(h, "readBlockers") /\ "readBlockers" \in ChatLabels
      BY <2>1, <3>1 DEF HandlerStep, ChatLabels
    <3> QED
      BY <2>6, <2>7, <3>1, <3>2, <3>3, <3>4, <3>5, <3>m, ChatMoves
  <2>11. CASE ~(Len(q) > 1)
    <3>1. Continue(h, "idle") /\ chat' = [chat EXCEPT ![h] = NoChat]
      BY <1>7, <2>2, <2>11 DEF AddUnreadMessages, ChatDone, End, Note
    <3>2. ~overlapped /\ ~followed' => ChatRight' /\ ChatFacts("idle", NoChat)'
      BY <2>6, <2>9 DEF ChatFacts
    <3>m. HandlerStep(h, "idle") /\ "idle" \in ChatLabels /\ "idle" \notin Sending
      BY <2>1, <3>1 DEF HandlerStep, ChatLabels, Sending
    <3> QED
      BY <2>6, <2>7, <3>1, <3>2, <3>m, NoChatRead, ChatMoves
  <2> QED
    BY <2>10, <2>11
<1>8. ASSUME NEW h \in Handlers, ShowConversation(h)
      PROVE  ChatIInv'
  <2>1. Begin(h, "deleteRead") /\ RoomsSame /\ MessagesSame /\ BlockSame
    BY <1>8 DEF ShowConversation
  <2>2. PICK r \in 0..rooms : Note(h, [NoChat EXCEPT !.ids = {i \in Sent : messages[i].room = r}])
    BY <1>8 DEF ShowConversation
  <2>3. {i \in Sent : messages[i].room = r} \subseteq Nat
    BY <1>t DEF Sent, ChatRowsTyped
  <2>4. PICK s \in SUBSET Nat : s = {i \in Sent : messages[i].room = r}
    BY <2>3
  <2> DEFINE c == [NoChat EXCEPT !.ids = s]
  <2>5. c \in ChatReads
    BY NoChatRead DEF ChatReads
  <2>6. chat' = [chat EXCEPT ![h] = c]
    BY <2>2, <2>4 DEF Note
  <2> HIDE DEF c
  <2>7. ~overlapped /\ ~followed' => ChatRight' /\ ChatFacts("deleteRead", c)'
    BY <1>r, <1>s, <2>1 DEF ChatFacts
  <2>m. /\ HandlerStep(h, "deleteRead") /\ "deleteRead" \in ChatLabels /\ "deleteRead" \notin Sending
        /\ ChatRowsTyped' /\ (followed => followed')
    BY <1>s, <2>1 DEF HandlerStep, ChatLabels, Sending
  <2> QED
    BY <2>5, <2>6, <2>7, <2>m, ChatMoves
<1>9. ASSUME NEW h \in Handlers, DeleteRead(h)
      PROVE  ChatIInv'
  <2>1. /\ at[h] = "deleteRead" /\ Continue(h, "idle") /\ chat' = [chat EXCEPT ![h] = NoChat]
        /\ RoomsSame /\ BlockSame /\ messages' = messages
        /\ unread' = [i \in Sent |->
                        IF i \in chat[h].ids /\ unread[i] = "counted" THEN "none" ELSE unread[i]]
    BY <1>9 DEF DeleteRead, ChatDone, End, Note
  <2>2. \A i \in Sent : unread'[i] \in {"none", unread[i]}
    BY <2>1
  <2>3. unread' \in [Sent -> {"none", "counted", "ignored"}] /\ Sent = 1..Len(messages)
    BY <1>t, <2>1 DEF Sent, ChatRowsTyped
  <2>4. ChatRowsTyped'
    <3>1. unread' \in Seq({"none", "counted", "ignored"}) /\ Len(unread') = Len(messages)
      BY <1>t, <2>3 DEF ChatRowsTyped
    <3> QED
      BY <1>t, <2>1, <3>1 DEF ChatRowsTyped, RoomsSame, BlockSame
  <2>5. ~overlapped /\ ~followed => ChatRight'
    BY <1>r, <2>1, <2>2 DEF ChatRight, Sent, RoomsSame, BlockSame
  <2>6. ~overlapped /\ ~followed' => ChatRight' /\ ChatFacts("idle", NoChat)'
    BY <2>1, <2>5 DEF ChatFacts, RoomsSame
  <2>m. /\ HandlerStep(h, "idle") /\ "idle" \in ChatLabels /\ "idle" \notin Sending
        /\ (followed => followed')
    BY <2>1 DEF HandlerStep, ChatLabels, Sending, RoomsSame
  <2> QED
    BY <2>1, <2>4, <2>6, <2>m, NoChatRead, ChatMoves
<1>10. ASSUME NEW h \in Handlers, NEW l \in {"block", "unblock"}, Begin(h, l), chat' = chat,
              RoomsSame, MessagesSame, BlockSame
       PROVE  ChatIInv'
  <2>1. PICK c \in ChatReads : c = chat[h]
    BY <1>t
  <2>2. chat' = [chat EXCEPT ![h] = c]
    BY <1>t, <1>10, <2>1
  <2>3. ~overlapped /\ ~followed' => ChatRight' /\ ChatFacts(l, c)'
    BY <1>r, <1>s, <1>10 DEF ChatFacts
  <2>m. HandlerStep(h, l) /\ l \in ChatLabels /\ l \notin Sending /\ ChatRowsTyped' /\ (followed => followed')
    BY <1>s, <1>10 DEF HandlerStep, ChatLabels, Sending
  <2> QED
    BY <2>2, <2>3, <2>m, ChatMoves
<1>11. ASSUME NEW h \in Handlers, CreateBlocking(h) \/ DestroyBlocking(h) \/ ChatDie(h)
       PROVE  ChatIInv'
  <2>1. /\ at[h] # "idle" /\ (Continue(h, "idle") \/ Refused(h, "idle"))
        /\ chat' = [chat EXCEPT ![h] = NoChat]
        /\ RoomsSame /\ messages' = messages
    BY <1>11 DEF CreateBlocking, DestroyBlocking, ChatDie, ChatDone, End, Die, Note, MessagesSame
  <2>2. \/ MessagesSame /\ BlockSame
        \/ /\ ~blocked /\ blocked' = TRUE /\ Flag("ignored")
           /\ muted' = IF rooms > 0 THEN muted \cup {active} ELSE muted
        \/ /\ blocked /\ blocked' = FALSE /\ Flag("counted")
           /\ muted' = IF rooms > 0 THEN muted \ {active} ELSE muted
    BY <1>11 DEF CreateBlocking, DestroyBlocking, ChatDie, MessagesSame, BlockSame
  <2>3. Sent = 1..Len(messages) /\ Sent' = Sent
    BY <1>t, <2>1 DEF Sent, ChatRowsTyped
  <2>4. ASSUME NEW s \in {"ignored", "counted"}, Flag(s)
        PROVE  /\ unread' \in Seq({"none", "counted", "ignored"}) /\ Len(unread') = Len(messages)
               /\ \A i \in Sent : unread'[i] = IF i \in Concerned /\ unread[i] # "none" THEN s ELSE unread[i]
    <3>1. unread' = [i \in Sent |-> IF i \in Concerned /\ unread[i] # "none" THEN s ELSE unread[i]]
      BY <2>4 DEF Flag
    <3>2. unread \in Seq({"none", "counted", "ignored"}) /\ Len(unread) = Len(messages)
      BY <1>t DEF ChatRowsTyped
    <3>3. unread' \in [Sent -> {"none", "counted", "ignored"}]
      BY <2>3, <3>1, <3>2
    <3>4. Len(messages) \in Nat
      BY <1>t DEF ChatRowsTyped
    <3> QED
      BY <2>3, <3>1, <3>3, <3>4
  <2>5. CASE MessagesSame /\ BlockSame
    <3>1. ~overlapped /\ ~followed' => ChatRight' /\ ChatFacts("idle", NoChat)'
      BY <1>r, <1>s, <2>1, <2>5 DEF ChatFacts
    <3>m. /\ HandlerStep(h, "idle") /\ "idle" \in ChatLabels /\ "idle" \notin Sending
          /\ ChatRowsTyped' /\ (followed => followed')
      BY <1>s, <2>1, <2>5 DEF HandlerStep, ChatLabels, Sending
    <3> QED
      BY <2>1, <3>1, <3>m, NoChatRead, ChatMoves
  <2>6. ASSUME NEW s \in {"ignored", "counted"}, Flag(s), blocked' = (s = "ignored"), blocked # blocked',
               muted' = IF rooms > 0
                        THEN IF s = "ignored" THEN muted \cup {active} ELSE muted \ {active}
                        ELSE muted
        PROVE  ChatIInv'
    <3>1. rooms' = rooms /\ active' = active /\ followed' = followed
      BY <2>1 DEF RoomsSame
    <3>2. blocked' \in BOOLEAN /\ muted' \subseteq Nat
      BY <1>t, <2>6 DEF ChatRowsTyped
    <3>3. ChatRowsTyped'
      BY <1>t, <2>1, <2>4, <2>6, <3>1, <3>2 DEF ChatRowsTyped
    <3>4. ASSUME ~overlapped, ~followed PROVE ChatRight'
      <4>1. ChatRight /\ blocked \in BOOLEAN
        BY <1>r, <1>t, <3>4 DEF ChatRowsTyped
      <4>2. muted' \subseteq 1..rooms /\ (~blocked' => muted' = {})
        <5>1. CASE rooms = 0
          BY <2>6, <4>1, <5>1 DEF ChatRight
        <5>2. CASE rooms = 1
          <6>1. active = 1 /\ muted \subseteq 1..1 /\ (~blocked => muted = {})
            BY <4>1, <5>2 DEF ChatRight
          <6>2. muted' = IF s = "ignored" THEN muted \cup {1} ELSE muted \ {1}
            BY <2>6, <5>2, <6>1
          <6>3. s = "counted" => muted' = {}
            BY <6>1, <6>2
          <6>4. muted' \subseteq 1..1
            BY <6>1, <6>2
          <6> QED
            BY <2>6, <5>2, <6>3, <6>4
        <5> QED
          BY <4>1, <5>1, <5>2 DEF ChatRight
      <4>3. ASSUME NEW i \in Sent, unread'[i] # "none"
            PROVE  unread'[i] = "ignored" <=> (messages[i].room \in muted'
                                               \/ (blocked' /\ messages[i].from = "partner"))
        <5>1. unread[i] # "none" /\ unread'[i] = IF i \in Concerned THEN s ELSE unread[i]
          BY <2>4, <2>6, <4>3
        <5>2. unread[i] = "ignored" <=> (messages[i].room \in muted
                                         \/ (blocked /\ messages[i].from = "partner"))
          BY <4>1, <5>1 DEF ChatRight
        <5>3. i \in Concerned <=> (messages[i].from = "partner"
                                    \/ (rooms > 0 /\ messages[i].room = active))
          BY DEF Concerned
        <5>4. CASE i \in Concerned
          BY <2>6, <4>1, <4>2, <5>1, <5>3, <5>4 DEF ChatRight
        <5>5. CASE i \notin Concerned
          BY <2>6, <4>1, <4>2, <5>1, <5>2, <5>3, <5>5 DEF ChatRight
        <5> QED
          BY <5>4, <5>5
      <4> QED
        BY <2>1, <2>3, <3>1, <4>1, <4>2, <4>3 DEF ChatRight
    <3>5. ~overlapped /\ ~followed' => ChatRight' /\ ChatFacts("idle", NoChat)'
      BY <3>1, <3>4 DEF ChatFacts
    <3>m. HandlerStep(h, "idle") /\ "idle" \in ChatLabels /\ "idle" \notin Sending
      BY <2>1 DEF HandlerStep, ChatLabels, Sending
    <3> QED
      BY <2>1, <3>1, <3>3, <3>5, <3>m, NoChatRead, ChatMoves
  <2> QED
    BY <1>t, <2>2, <2>5, <2>6 DEF ChatRowsTyped
<1>12. CASE UNCHANGED <<handlerVars, chatVars>>
  BY <1>12, StillSequential
     DEF ChatIInv, ChatTyped, ChatRowsTyped, ChatRight, ChatFacts, Sent, handlerVars, chatVars
<1>13. ASSUME NEW h \in Handlers, BlockUser(h) \/ UnblockUser(h)
       PROVE  ChatIInv'
  BY <1>10, <1>13 DEF BlockUser, UnblockUser
<1> QED
  BY <1>1, <1>2, <1>3, <1>4, <1>5, <1>6, <1>7, <1>8, <1>9, <1>11, <1>12, <1>13 DEF ChatNext

LEMMA ChatIInvBadges == ChatIInv => BadgeCountsVisible
BY DEF ChatIInv, ChatRight, BadgeCountsVisible
-----------------------------------------------------------------------------
(* Entries *)

EntryLabels == {"idle", "conflicts", "rows"}

Roles == {"none", "unconfirmed", "attending", "out"}

EntryReads == {NoEntry} \cup [order : EntryOrders, lead : EntryCasts, casts : SUBSET EntryCasts]

\* An entry under way is of somebody, for an order; without one there is nothing noted.
EntryNoted(l, e) ==
    IF l = "idle" THEN e = NoEntry ELSE e \in EntryReads \ {NoEntry} /\ e.lead \in e.casts

EntriesTyped ==
    /\ at \in [Handlers -> EntryLabels] /\ Bounded /\ Sequential
    /\ times \in PlannedTimes
    /\ state \in [EntryOrders -> {"open", "matched", "failed"}]
    /\ role \in [EntryOrders -> [EntryCasts -> Roles]]
    /\ leader \in [EntryOrders -> [EntryCasts -> EntryCasts \cup {"nobody"}]]
    /\ DOMAIN selection = EntryOrders
    /\ entry \in [Handlers -> EntryReads]
    /\ \A h \in Handlers : EntryNoted(at[h], entry[h])

\* Who has a leader has one who is in a team.
LeadersLead(led) == \A c \in EntryCasts : led[c] \in EntryCasts => led[led[c]] \in EntryCasts

\* Nobody whom only one request has entered is being entered by two.
OnceEntered ==
    \A g, h \in Handlers : g # h => entry[g].casts \cap entry[h].casts \subseteq raced

\* Casts that have not been recalled or entered twice at once.
Orderly == EntryCasts \ (raced \cup recalled)

\* After the look for conflicts nobody of the team is in a parallel order.
NoConflict(e) ==
    \A c \in e.casts \cap Orderly, o \in EntryOrders \ {e.order} :
        c \in In(o) /\ state[o] # "failed" => ~Parallel(e.order, o)

\* The teams of a matching were whole and the best.
BestOf(s) ==
    /\ \A c \in s.chosen, d \in s.pool : SameTeam(s, c, d) => d \in s.chosen
    /\ \A S \in WholeTeams(s) :
          Cardinality(s.chosen) = s.count /\ TotalScore(S) <= TotalScore(s.chosen)

\* Who has no row has no leader.
NoRowNoLeader == \A o \in EntryOrders, c \in EntryCasts : role[o][c] = "none" => leader[o][c] = "nobody"

EntriesIInv ==
    /\ EntriesTyped
    /\ NoRowNoLeader
    /\ OnceEntered
    /\ \A h \in Handlers : at[h] = "rows" => NoConflict(entry[h])
    /\ NotDoubleBooked
    /\ \A o \in EntryOrders : LeadersLead(leader[o])
    /\ \A o \in EntryOrders : state[o] = "matched" => BestOf(selection[o])

\* Two orders that overlap without one lying inside the other are parallel.
LEMMA OverlapIsParallel ==
  ASSUME times \in PlannedTimes, NEW a \in EntryOrders, NEW b \in EntryOrders,
         Overlap(a, b) \/ Overlap(b, a), ~Parallel(a, b)
  PROVE  Contains(b, a)
<1>1. /\ times[a].from \in Nat /\ times[a].to \in Nat /\ times[b].from \in Nat /\ times[b].to \in Nat
      /\ Blocking \in Nat
  BY EntryAssumption
<1>2. times[a].from <= times[b].to /\ times[b].from <= times[a].to
  BY DEF Overlap
<1>3. /\ ~(times[b].from >= times[a].from /\ times[b].from <= times[a].to + Blocking)
      /\ ~(times[b].to >= times[a].from /\ times[b].to <= times[a].to + Blocking)
  BY DEF Parallel
<1> QED
  BY <1>1, <1>2, <1>3 DEF Contains

\* A score of casts is a number.
LEMMA ScoreInt ==
  ASSUME NEW S \in SUBSET EntryCasts
  PROVE  TotalScore(S) \in Int
<1>1. TotalScore(S) = SumOver(Score, S)
  BY Zenon DEF TotalScore, MapThenSumSet, SumOver, FoldFunctionOnSet
<1>2. IsFiniteSet(S)
  BY EntryAssumption, FS_Subset
<1>3. \A x \in S : Score[x] \in Int
  BY EntryAssumption
<1> QED
  BY <1>1, <1>2, <1>3, SumInt

\* Leaders of the whole teams in S, and who follows them: S again.
LEMMA WholeTeamsAreLed ==
  ASSUME EntriesTyped, NEW o \in EntryOrders, LeadersLead(leader[o]),
         NEW pool \in SUBSET EntryCasts, NEW s, s.pool = pool, s.leaders = leader[o],
         NEW S \in WholeTeams(s)
  PROVE  /\ S \in SUBSET pool /\ Cardinality(S) = s.count
         /\ \E heads \in SUBSET Heads(o, pool) : S = Led(o, pool, heads)
<1> DEFINE heads == S \cap Heads(o, pool)
<1>1. S \subseteq pool /\ Cardinality(S) = s.count
  BY DEF WholeTeams
<1>2. \A c \in pool : leader[o][c] \in EntryCasts \cup {"nobody"}
  BY DEF EntriesTyped
<1>3. ASSUME NEW c \in S PROVE c \in Led(o, pool, heads)
  <2>1. leader[o][c] = "nobody" \/ (leader[o][c] \in S /\ leader[o][leader[o][c]] = leader[o][c])
    BY DEF WholeTeams
  <2>2. CASE leader[o][c] = "nobody"
    BY <1>1, <2>2 DEF Heads, Led
  <2>3. CASE leader[o][c] \in S /\ leader[o][leader[o][c]] = leader[o][c]
    BY <1>1, <2>3 DEF Heads, Led
  <2> QED
    BY <2>1, <2>2, <2>3
<1>4. ASSUME NEW c \in Led(o, pool, heads) PROVE c \in S
  <2>1. c \in pool /\ (c \in heads \/ leader[o][c] \in heads)
    BY DEF Led
  <2>2. CASE leader[o][c] \in heads
    <3>1. PICK l \in S : l = leader[o][c] /\ leader[o][l] \in {"nobody", l}
      BY <2>2 DEF Heads
    <3>2. l \in EntryCasts /\ l # "nobody"
      BY <1>1, <3>1, EntryAssumption
    <3>3. leader[o][l] = l
      BY <2>1, <3>1, <3>2, EntryAssumption DEF LeadersLead
    <3> QED
      BY <1>1, <2>1, <3>1, <3>2, <3>3 DEF WholeTeams, SameTeam
  <2> QED
    BY <2>1, <2>2
<1> QED
  BY <1>1, <1>3, <1>4

\* Who is taken with a leader is taken with the whole team.
LEMMA LedIsWhole ==
  ASSUME EntriesTyped, NEW o \in EntryOrders, NEW pool \in SUBSET EntryCasts,
         NEW heads \in SUBSET Heads(o, pool), NEW s, s.pool = pool, s.leaders = leader[o],
         NEW c \in Led(o, pool, heads), NEW d \in pool, SameTeam(s, c, d)
  PROVE  d \in Led(o, pool, heads)
<1>1. leader[o][c] # "nobody" /\ leader[o][c] = leader[o][d]
  BY DEF SameTeam
<1>2. c \in heads => leader[o][c] = c
  BY <1>1 DEF Heads
<1> QED
  BY <1>1, <1>2 DEF Led

LEMMA CombinationsBest ==
  ASSUME EntriesTyped, NEW o \in EntryOrders, LeadersLead(leader[o]),
         NEW pool \in SUBSET EntryCasts, NEW n \in Int, NEW chosen \in FinalCastIds(o, pool, n),
         NEW s, s = [pool |-> pool, leaders |-> leader[o], count |-> n, chosen |-> chosen]
  PROVE  BestOf(s) /\ chosen \subseteq pool
<1>1. s.pool = pool /\ s.leaders = leader[o] /\ s.count = n /\ s.chosen = chosen
  OBVIOUS
<1>2. \A S \in WholeTeams(s) : S \in Combinations(o, pool, n)
  BY <1>1, WholeTeamsAreLed DEF Combinations
<1>3. CASE Combinations(o, pool, n) = {}
  <2>1. (chosen = {} \/ chosen = pool) /\ WholeTeams(s) = {}
    BY <1>2, <1>3 DEF FinalCastIds
  <2> QED
    BY <1>1, <2>1 DEF BestOf
<1>4. CASE Combinations(o, pool, n) # {}
  <2>1. chosen \in Combinations(o, pool, n)
        /\ \A T \in Combinations(o, pool, n) : TotalScore(T) <= TotalScore(chosen)
    BY <1>4 DEF FinalCastIds, Best
  <2>2. PICK heads \in SUBSET Heads(o, pool) : chosen = Led(o, pool, heads) /\ Cardinality(chosen) = n
    BY <2>1 DEF Combinations
  <2>3. \A c \in chosen, d \in pool : SameTeam(s, c, d) => d \in chosen
    BY <1>1, <2>2, LedIsWhole
  <2>4. \A S \in WholeTeams(s) : Cardinality(chosen) = n /\ TotalScore(S) <= TotalScore(chosen)
    BY <1>2, <2>1, <2>2
  <2> QED
    BY <1>1, <2>2, <2>3, <2>4 DEF BestOf, Led
<1> QED
  BY <1>3, <1>4

\* Everybody who waits is taken, or nobody as no place is left.
LEMMA AllOrNoneBest ==
  ASSUME NEW pool \in SUBSET EntryCasts, NEW led, NEW n, NEW chosen \in SUBSET pool,
         NEW s, s = [pool |-> pool, leaders |-> led, count |-> n, chosen |-> chosen],
         Cardinality(chosen) = n, chosen = pool \/ chosen = {}
  PROVE  BestOf(s)
<1>1. s.pool = pool /\ s.count = n /\ s.chosen = chosen
  OBVIOUS
<1>2. IsFiniteSet(pool)
  BY EntryAssumption, FS_Subset
<1>3. ASSUME NEW S \in WholeTeams(s) PROVE S = chosen
  <2>1. S \subseteq pool /\ Cardinality(S) = n /\ IsFiniteSet(S)
    BY <1>1, <1>2, FS_Subset DEF WholeTeams
  <2>2. CASE chosen = pool
    BY <1>2, <2>1, <2>2, FS_Subset
  <2>3. CASE chosen = {}
    BY <2>1, <2>3, FS_EmptySet
  <2> QED
    BY <2>2, <2>3
<1>4. TotalScore(chosen) \in Int
  BY ScoreInt
<1>5. \A S \in WholeTeams(s) : Cardinality(chosen) = n /\ TotalScore(S) <= TotalScore(chosen)
  BY <1>3, <1>4
<1> QED
  BY <1>1, <1>5 DEF BestOf

LEMMA EntriesInitOK ==
  ASSUME HandlersInit, times \in PlannedTimes, EntriesIdle
  PROVE  EntriesIInv
<1>1. at \in [Handlers -> EntryLabels] /\ Bounded /\ Sequential /\ \A h \in Handlers : at[h] = "idle"
  BY InitBounded DEF Idle, EntryLabels
<1>2. NoEntry \in EntryReads /\ NoEntry.casts = {}
  BY DEF EntryReads, NoEntry
<1>3. EntriesTyped
  BY <1>1, <1>2 DEF EntriesTyped, EntriesIdle, Roles, EntryNoted
<1>4. \A o \in EntryOrders : In(o) = {} /\ state[o] = "open"
  BY DEF EntriesIdle, In
<1>5. OnceEntered /\ NotDoubleBooked
  BY <1>2, <1>4 DEF OnceEntered, NotDoubleBooked, EntriesIdle
<1>6. \A o \in EntryOrders : LeadersLead(leader[o])
  BY EntryAssumption DEF LeadersLead, EntriesIdle
<1>7. NoRowNoLeader
  BY DEF NoRowNoLeader, EntriesIdle
<1> QED
  BY <1>1, <1>3, <1>4, <1>5, <1>6, <1>7 DEF EntriesIInv

\* A step of h, which knows e afterwards.
LEMMA EntryMoves ==
  ASSUME EntriesTyped, NEW h \in Handlers, NEW l \in EntryLabels, HandlerStep(h, l),
         NEW e \in EntryReads, EntryNoted(l, e), entry' = [entry EXCEPT ![h] = e], times' = times,
         state' \in [EntryOrders -> {"open", "matched", "failed"}], DOMAIN selection' = DOMAIN selection,
         role' \in [EntryOrders -> [EntryCasts -> Roles]],
         leader' \in [EntryOrders -> [EntryCasts -> EntryCasts \cup {"nobody"}]]
  PROVE  /\ EntriesTyped' /\ at'[h] = l /\ entry'[h] = e
         /\ \A g \in Handlers \ {h} : at'[g] = at[g] /\ entry'[g] = entry[g]
<1>1. /\ at' \in [Handlers -> EntryLabels] /\ Bounded' /\ Sequential' /\ MovesTo(h, l)
  BY HandlerSteps DEF EntriesTyped
<1>2. /\ entry' \in [Handlers -> EntryReads] /\ entry'[h] = e
      /\ \A g \in Handlers \ {h} : entry'[g] = entry[g]
  BY DEF EntriesTyped
<1>3. \A g \in Handlers : EntryNoted(at'[g], entry'[g])
  BY <1>1, <1>2 DEF EntriesTyped, MovesTo
<1> QED
  BY <1>1, <1>2, <1>3 DEF EntriesTyped, MovesTo, EntryNoted

\* Nobody comes to a new order: those who were free stay free.
LEMMA NobodyNew ==
  ASSUME EntriesIInv, times' = times, raced \subseteq raced', recalled \subseteq recalled',
         \A o \in EntryOrders : \A c \in Orderly' : c \in In(o)' => c \in In(o),
         \A o \in EntryOrders : state[o] = "failed" => state'[o] = "failed"
  PROVE  NotDoubleBooked' /\ \A e : NoConflict(e) => NoConflict(e)'
<1>1. Orderly' \subseteq Orderly
  BY DEF Orderly
<1>2. NotDoubleBooked'
  <2> SUFFICES ASSUME NEW a \in EntryOrders, NEW b \in EntryOrders, NEW c \in Orderly',
                      a # b, c \in In(a)', c \in In(b)', state'[a] # "failed", state'[b] # "failed",
                      Overlap(a, b)'
               PROVE  (Contains(a, b) \/ Contains(b, a))'
    BY DEF NotDoubleBooked, Orderly
  <2>1. c \in Orderly /\ c \in In(a) /\ c \in In(b) /\ state[a] # "failed" /\ state[b] # "failed"
    BY <1>1
  <2>2. Overlap(a, b)
    BY DEF Overlap
  <2>3. Contains(a, b) \/ Contains(b, a)
    BY <2>1, <2>2 DEF EntriesIInv, NotDoubleBooked, Orderly
  <2> QED
    BY <2>3 DEF Contains
<1>3. ASSUME NEW e, NoConflict(e) PROVE NoConflict(e)'
  <2> SUFFICES ASSUME NEW c \in e.casts \cap Orderly', NEW o \in EntryOrders \ {e.order},
                      c \in In(o)', state'[o] # "failed"
               PROVE  ~Parallel(e.order, o)'
    BY DEF NoConflict
  <2>1. ~Parallel(e.order, o)
    BY <1>1, <1>3 DEF NoConflict
  <2> QED
    BY <2>1 DEF Parallel
<1> QED
  BY <1>2, <1>3

\* A request of one statement that enters nobody.
LEMMA EntryAtOnce ==
  ASSUME EntriesIInv, NEW h \in Handlers, HandlerStep(h, "idle"),
         entry' = [entry EXCEPT ![h] = NoEntry], times' = times, leader' = leader, raced' = raced,
         recalled \subseteq recalled',
         state' \in [EntryOrders -> {"open", "matched", "failed"}], DOMAIN selection' = DOMAIN selection,
         role' \in [EntryOrders -> [EntryCasts -> Roles]],
         \A o \in EntryOrders : \A c \in EntryCasts \ recalled' : c \in In(o)' => c \in In(o),
         \A o \in EntryOrders, c \in EntryCasts : role'[o][c] = "none" => role[o][c] = "none",
         \A o \in EntryOrders : state[o] = "failed" => state'[o] = "failed",
         \A o \in EntryOrders : state'[o] = "matched" => BestOf(selection'[o])
  PROVE  EntriesIInv'
<1>1. NoEntry \in EntryReads /\ EntryNoted("idle", NoEntry) /\ NoEntry.casts = {} /\ "idle" \in EntryLabels
  BY DEF EntryReads, EntryNoted, EntryLabels, NoEntry
<1>2. EntriesTyped /\ leader' \in [EntryOrders -> [EntryCasts -> EntryCasts \cup {"nobody"}]]
  BY DEF EntriesIInv, EntriesTyped
<1>3. /\ EntriesTyped' /\ at'[h] = "idle" /\ entry'[h] = NoEntry
      /\ \A g \in Handlers \ {h} : at'[g] = at[g] /\ entry'[g] = entry[g]
  BY <1>1, <1>2, EntryMoves
<1>4. NotDoubleBooked' /\ \A e : NoConflict(e) => NoConflict(e)'
  BY NobodyNew DEF Orderly
<1>5. OnceEntered'
  BY <1>1, <1>3 DEF EntriesIInv, OnceEntered
<1>6. \A g \in Handlers : at'[g] = "rows" => NoConflict(entry[g])'
  <2> SUFFICES ASSUME NEW g \in Handlers, at'[g] = "rows" PROVE NoConflict(entry[g])'
    OBVIOUS
  <2>1. g # h /\ at[g] = "rows" /\ entry'[g] = entry[g]
    BY <1>3
  <2>2. PICK e : e = entry[g]
    OBVIOUS
  <2>3. NoConflict(e)'
    BY <1>4, <2>1, <2>2 DEF EntriesIInv
  <2> QED
    BY <2>1, <2>2, <2>3 DEF NoConflict
<1>7. \A o \in EntryOrders : LeadersLead(leader'[o])
  BY DEF EntriesIInv
<1>8. NoRowNoLeader'
  BY DEF EntriesIInv, NoRowNoLeader
<1> QED
  BY <1>3, <1>4, <1>5, <1>6, <1>7, <1>8 DEF EntriesIInv, BestOf, WholeTeams, SameTeam

LEMMA EntriesNextOK ==
  ASSUME EntriesIInv, [EntriesNext]_<<handlerVars, entryVars>>
  PROVE  EntriesIInv'
<1>t. /\ EntriesTyped
      /\ state \in [EntryOrders -> {"open", "matched", "failed"}]
      /\ role \in [EntryOrders -> [EntryCasts -> Roles]]
      /\ leader \in [EntryOrders -> [EntryCasts -> EntryCasts \cup {"nobody"}]]
      /\ entry \in [Handlers -> EntryReads]
  BY DEF EntriesIInv, EntriesTyped
<1>b. \A o \in EntryOrders : state[o] = "matched" => BestOf(selection[o])
  BY DEF EntriesIInv
<1>n. NoEntry \in EntryReads /\ EntryNoted("idle", NoEntry) /\ NoEntry.casts = {} /\ "idle" \in EntryLabels
  BY DEF EntryReads, EntryNoted, EntryLabels, NoEntry
<1>i. ASSUME NEW h \in Handlers, Begin(h, "idle"), entry' = entry
      PROVE  HandlerStep(h, "idle") /\ entry' = [entry EXCEPT ![h] = NoEntry]
  <2>1. at[h] = "idle"
    BY <1>i DEF Begin, Deliver
  <2>2. entry[h] = NoEntry
    BY <2>1, <1>t DEF EntriesTyped, EntryNoted
  <2> QED
    BY <1>i, <1>t, <2>2 DEF HandlerStep
<1>1. ASSUME NEW h \in Handlers, WishToAttend(h)
      PROVE  EntriesIInv'
  <2>1. PICK o \in EntryOrders, team \in SUBSET EntryCasts \ {{}} :
          /\ state[o] = "open" /\ Cardinality(team) <= Needed[o]
          /\ \E c \in team : Enters(h, [order |-> o, lead |-> c, casts |-> team])
          /\ raced' = raced \cup UNION {entry[g].casts \cap team : g \in Handlers}
    BY <1>1 DEF WishToAttend
  <2>2. PICK c \in team : Enters(h, [order |-> o, lead |-> c, casts |-> team])
    BY <2>1
  <2>3. PICK e : e = [order |-> o, lead |-> c, casts |-> team]
    OBVIOUS
  <2>4. e \in EntryReads /\ e.casts = team /\ EntryNoted("conflicts", e) /\ entry' = [entry EXCEPT ![h] = e]
    BY <2>2, <2>3 DEF EntryReads, EntryNoted, NoEntry, Enters
  <2>5. /\ HandlerStep(h, "conflicts") /\ RowsSame /\ UNCHANGED <<times, recalled>>
        /\ "conflicts" \in EntryLabels
    BY <1>1 DEF WishToAttend, HandlerStep, EntryLabels
  <2>6. /\ EntriesTyped' /\ at'[h] = "conflicts" /\ entry'[h] = e
        /\ \A g \in Handlers \ {h} : at'[g] = at[g] /\ entry'[g] = entry[g]
    BY <1>t, <2>4, <2>5, EntryMoves DEF RowsSame
  <2>7. NotDoubleBooked' /\ \A x : NoConflict(x) => NoConflict(x)'
    BY <2>1, <2>5, NobodyNew DEF RowsSame, In
  <2>8. OnceEntered'
    BY <2>1, <2>4, <2>6 DEF EntriesIInv, OnceEntered
  <2>9. \A g \in Handlers : at'[g] = "rows" => NoConflict(entry[g])'
    BY <2>6, <2>7 DEF EntriesIInv, NoConflict
  <2> QED
    BY <1>b, <2>5, <2>6, <2>7, <2>8, <2>9 DEF EntriesIInv, RowsSame, NoRowNoLeader
<1>2. ASSUME NEW h \in Handlers, CheckConflicts(h)
      PROVE  EntriesIInv'
  <2>1. at[h] = "conflicts" /\ RowsSame /\ UNCHANGED <<times, raced, recalled>>
    BY <1>2 DEF CheckConflicts
  <2>2. CASE \E c \in entry[h].casts, o \in EntryOrders \ {entry[h].order} :
               c \in In(o) /\ state[o] \in {"open", "matched"} /\ Parallel(entry[h].order, o)
    <3>1. HandlerStep(h, "idle") /\ entry' = [entry EXCEPT ![h] = NoEntry]
      BY <1>2, <2>1, <2>2 DEF CheckConflicts, EntryDone, End, Enters, HandlerStep
    <3>2. \A o \in EntryOrders : state'[o] = "matched" => BestOf(selection'[o])
      BY <1>b, <2>1 DEF RowsSame
    <3>3. \A o \in EntryOrders : \A c \in EntryCasts \ recalled' : c \in In(o)' => c \in In(o)
      BY <2>1 DEF RowsSame, In
    <3> QED
      BY <1>t, <2>1, <3>1, <3>2, <3>3, EntryAtOnce DEF RowsSame
  <2>3. CASE ~(\E c \in entry[h].casts, o \in EntryOrders \ {entry[h].order} :
               c \in In(o) /\ state[o] \in {"open", "matched"} /\ Parallel(entry[h].order, o))
    <3>1. Continue(h, "rows") /\ entry' = entry
      BY <1>2, <2>3 DEF CheckConflicts
    <3>2. PICK e \in EntryReads : e = entry[h]
      BY <1>t
    <3>3. /\ HandlerStep(h, "rows") /\ "rows" \in EntryLabels /\ EntryNoted("rows", e)
          /\ entry' = [entry EXCEPT ![h] = e]
      BY <1>t, <2>1, <3>1, <3>2 DEF HandlerStep, EntryLabels, EntriesTyped, EntryNoted
    <3>4. /\ EntriesTyped' /\ at'[h] = "rows"
          /\ \A g \in Handlers \ {h} : at'[g] = at[g]
      BY <1>t, <2>1, <3>3, EntryMoves DEF RowsSame
    <3>5. NotDoubleBooked' /\ \A x : NoConflict(x) => NoConflict(x)'
      BY <2>1, NobodyNew DEF RowsSame, In
    <3>6. NoConflict(e)
      BY <1>t, <2>3, <3>2 DEF NoConflict
    <3>7. \A g \in Handlers : at'[g] = "rows" => NoConflict(entry[g])'
      BY <3>1, <3>2, <3>4, <3>5, <3>6 DEF EntriesIInv, NoConflict
    <3>8. OnceEntered'
      BY <2>1, <3>1 DEF EntriesIInv, OnceEntered
    <3> QED
      BY <1>b, <2>1, <3>4, <3>5, <3>7, <3>8 DEF EntriesIInv, RowsSame, NoRowNoLeader
  <2> QED
    BY <2>2, <2>3
<1>3. ASSUME NEW h \in Handlers, PrepareAttendances(h)
      PROVE  EntriesIInv'
  <2>1. /\ at[h] = "rows" /\ HandlerStep(h, "idle") /\ entry' = [entry EXCEPT ![h] = NoEntry]
        /\ UNCHANGED <<times, raced, recalled>>
    BY <1>3 DEF PrepareAttendances, EntryDone, End, Enters, HandlerStep
  <2>2. PICK e \in EntryReads : e = entry[h]
    BY <1>t
  <2>3. PICK o : o = e.order
    OBVIOUS
  <2>4. o \in EntryOrders /\ e.lead \in e.casts /\ e.casts \subseteq EntryCasts
    BY <1>t, <2>1, <2>2, <2>3 DEF EntriesTyped, EntryNoted, EntryReads
  <2>5. CASE e.casts \cap In(o) # {}
    <3>1. RowsSame
      BY <1>3, <2>2, <2>3, <2>5 DEF PrepareAttendances
    <3>2. \A p \in EntryOrders : state'[p] = "matched" => BestOf(selection'[p])
      BY <1>b, <3>1 DEF RowsSame
    <3>3. \A p \in EntryOrders : \A c \in EntryCasts \ recalled' : c \in In(p)' => c \in In(p)
      BY <3>1 DEF RowsSame, In
    <3> QED
      BY <1>t, <2>1, <3>1, <3>2, <3>3, EntryAtOnce DEF RowsSame
  <2>6. CASE e.casts \cap In(o) = {}
    <3> DEFINE ro == [c \in EntryCasts |-> IF c \in e.casts THEN "unconfirmed" ELSE role[o][c]]
               lo == [c \in EntryCasts |->
                       IF c \in e.casts /\ e.casts # {e.lead} THEN e.lead ELSE leader[o][c]]
    <3>1. /\ role' = [role EXCEPT ![o] = ro] /\ leader' = [leader EXCEPT ![o] = lo]
          /\ state' = state /\ selection' = selection
      BY <1>3, <2>2, <2>3, <2>6 DEF PrepareAttendances
    <3>2. ro \in [EntryCasts -> Roles] /\ lo \in [EntryCasts -> EntryCasts \cup {"nobody"}]
      BY <1>t, <2>4 DEF Roles
    <3>3. /\ role' \in [EntryOrders -> [EntryCasts -> Roles]]
          /\ leader' \in [EntryOrders -> [EntryCasts -> EntryCasts \cup {"nobody"}]]
      BY <1>t, <3>1, <3>2
    <3>4. /\ EntriesTyped' /\ at'[h] = "idle" /\ entry'[h] = NoEntry
          /\ \A g \in Handlers \ {h} : at'[g] = at[g] /\ entry'[g] = entry[g]
      BY <1>n, <1>t, <2>1, <3>1, <3>3, EntryMoves
    <3>5. \A p \in EntryOrders : \A c \in EntryCasts :
            c \in In(p)' => c \in In(p) \/ (p = o /\ c \in e.casts)
      <4>1. \A p \in EntryOrders, c \in EntryCasts :
              role'[p][c] = role[p][c] \/ (p = o /\ c \in e.casts)
        BY <1>t, <2>4, <3>1
      <4> QED
        BY <4>1 DEF In
    <3>6. Orderly' = Orderly /\ \A a, b \in EntryOrders : Parallel(a, b)' = Parallel(a, b)
          /\ Overlap(a, b)' = Overlap(a, b) /\ Contains(a, b)' = Contains(a, b)
      BY <2>1 DEF Orderly, Parallel, Overlap, Contains
    <3>7. NoConflict(e)
      BY <2>1, <2>2 DEF EntriesIInv
    <3>8. ASSUME NEW p \in EntryOrders \ {o}, NEW c \in e.casts \cap Orderly, c \in In(p),
                 state[p] # "failed", Overlap(o, p) \/ Overlap(p, o)
          PROVE  Contains(p, o)
      <4>1. ~Parallel(o, p)
        BY <2>3, <3>7, <3>8 DEF NoConflict
      <4>2. Overlap(p, o) => Overlap(o, p)
        BY DEF Overlap
      <4> QED
        BY <1>t, <2>4, <3>8, <4>1, OverlapIsParallel DEF EntriesTyped
    <3>9. NotDoubleBooked'
      <4> SUFFICES ASSUME NEW a \in EntryOrders, NEW b \in EntryOrders, NEW c \in Orderly,
                          a # b, c \in In(a)', c \in In(b)', state[a] # "failed", state[b] # "failed",
                          Overlap(a, b)
                   PROVE  Contains(a, b) \/ Contains(b, a)
        BY <3>1, <3>6 DEF NotDoubleBooked, Orderly
      <4>1. c \in EntryCasts
        BY DEF Orderly
      <4>2. CASE c \in In(a) /\ c \in In(b)
        BY <4>2 DEF EntriesIInv, NotDoubleBooked, Orderly
      <4>3. CASE c \notin In(a)
        <5>1. a = o /\ c \in e.casts /\ c \in In(b)
          BY <3>5, <4>1, <4>3
        <5> QED
          BY <3>8, <5>1
      <4>4. CASE c \notin In(b)
        <5>1. b = o /\ c \in e.casts /\ c \in In(a)
          BY <3>5, <4>1, <4>4
        <5> QED
          BY <3>8, <5>1
      <4> QED
        BY <4>2, <4>3, <4>4
    <3>10. ASSUME NEW g \in Handlers, at'[g] = "rows" PROVE NoConflict(entry[g])'
      <4>1. g # h /\ at[g] = "rows" /\ entry'[g] = entry[g]
        BY <3>4, <3>10
      <4>2. PICK x \in EntryReads : x = entry[g]
        BY <1>t
      <4>3. NoConflict(x) /\ x.casts \cap e.casts \subseteq raced
            /\ x.order \in EntryOrders /\ x.casts \subseteq EntryCasts
        BY <1>t, <2>2, <4>1, <4>2 DEF EntriesIInv, OnceEntered, EntriesTyped, EntryNoted, EntryReads
      <4>4. ASSUME NEW c \in x.casts \cap Orderly, NEW p \in EntryOrders \ {x.order}, c \in In(p)',
                   state[p] # "failed"
            PROVE  ~Parallel(x.order, p)
        <5>1. c \in In(p)
          BY <3>5, <4>3, <4>4 DEF Orderly
        <5> QED
          BY <4>3, <4>4, <5>1 DEF NoConflict
      <4>5. NoConflict(x)'
        BY <3>1, <3>6, <4>3, <4>4 DEF NoConflict
      <4> QED
        BY <4>1, <4>2, <4>5 DEF NoConflict
    <3>11. \A p \in EntryOrders : LeadersLead(leader'[p])
      <4>1. LeadersLead(leader[o])
        BY <2>4 DEF EntriesIInv
      <4>2. LeadersLead(lo)
        BY <1>t, <2>4, <4>1 DEF LeadersLead
      <4>3. \A p \in EntryOrders : leader'[p] = IF p = o THEN lo ELSE leader[p]
        BY <1>t, <2>4, <3>1
      <4> HIDE DEF lo
      <4> QED
        BY <4>2, <4>3 DEF EntriesIInv
    <3>13. NoRowNoLeader'
      <4>1. NoRowNoLeader
        BY DEF EntriesIInv
      <4>2. \A c \in EntryCasts : ro[c] = "none" => lo[c] = "nobody"
        BY <2>4, <4>1 DEF NoRowNoLeader
      <4>3. \A p \in EntryOrders : /\ role'[p] = IF p = o THEN ro ELSE role[p]
                                /\ leader'[p] = IF p = o THEN lo ELSE leader[p]
        BY <1>t, <2>4, <3>1
      <4> HIDE DEF ro, lo
      <4> QED
        BY <4>1, <4>2, <4>3 DEF NoRowNoLeader
    <3>12. OnceEntered'
      BY <1>n, <2>1, <3>4 DEF EntriesIInv, OnceEntered
    <3> QED
      BY <1>b, <3>1, <3>4, <3>9, <3>10, <3>11, <3>12, <3>13 DEF EntriesIInv
  <2> QED
    BY <2>5, <2>6
<1>4. ASSUME NEW h \in Handlers, WishToNotAttend(h)
      PROVE  EntriesIInv'
  <2>1. PICK o \in EntryOrders : \E c \in In(o) : role' = [role EXCEPT ![o][c] = "out"]
    BY <1>4 DEF WishToNotAttend
  <2>2. PICK c \in In(o) : role' = [role EXCEPT ![o][c] = "out"]
    BY <2>1
  <2>3. /\ HandlerStep(h, "idle") /\ entry' = [entry EXCEPT ![h] = NoEntry]
        /\ UNCHANGED <<times, state, leader, raced, recalled, selection>>
    BY <1>4, <1>i DEF WishToNotAttend
  <2>4. role' \in [EntryOrders -> [EntryCasts -> Roles]]
        /\ \A p \in EntryOrders, d \in EntryCasts : role'[p][d] \in {role[p][d], "out"}
    BY <1>t, <2>2 DEF In, Roles
  <2>5. \A p \in EntryOrders : \A d \in EntryCasts \ recalled' : d \in In(p)' => d \in In(p)
    BY <2>4 DEF In
  <2>6. \A p \in EntryOrders : state'[p] = "matched" => BestOf(selection'[p])
    BY <1>b, <2>3
  <2> QED
    BY <1>t, <2>3, <2>4, <2>5, <2>6, EntryAtOnce
<1>5. ASSUME NEW h \in Handlers, SelectCast(h)
      PROVE  EntriesIInv'
  <2>1. PICK o \in EntryOrders, c \in EntryCasts :
          /\ c \in Pending(o)
          /\ role' = [role EXCEPT ![o] = [d \in EntryCasts |->
                          IF d \in Team(o, c) THEN "attending" ELSE role[o][d]]]
          /\ recalled' = recalled \cup {d \in Team(o, c) : role[o][d] = "out"}
    BY <1>5 DEF SelectCast, Pending
  <2>2. /\ HandlerStep(h, "idle") /\ entry' = [entry EXCEPT ![h] = NoEntry]
        /\ UNCHANGED <<times, state, leader, raced, selection>>
    BY <1>5, <1>i DEF SelectCast
  <2>3. role' \in [EntryOrders -> [EntryCasts -> Roles]]
        /\ \A p \in EntryOrders, d \in EntryCasts :
              role'[p][d] = IF p = o /\ d \in Team(o, c) THEN "attending" ELSE role[p][d]
    <3> DEFINE ro == [d \in EntryCasts |-> IF d \in Team(o, c) THEN "attending" ELSE role[o][d]]
    <3>1. ro \in [EntryCasts -> Roles]
      BY <1>t DEF Roles
    <3>2. role' = [role EXCEPT ![o] = ro]
      BY <2>1
    <3>3. \A p \in EntryOrders : role'[p] = IF p = o THEN ro ELSE role[p]
      BY <1>t, <3>2
    <3>4. role' \in [EntryOrders -> [EntryCasts -> Roles]]
      BY <1>t, <3>1, <3>2
    <3> QED
      BY <3>3, <3>4
  <2>4. ASSUME NEW d \in Team(o, c), d \in EntryCasts PROVE role[o][d] # "none"
    <3>1. CASE leader[o][c] = "nobody"
      BY <2>1, <2>4, <3>1 DEF Team, Pending
    <3>2. CASE leader[o][c] # "nobody"
      <4>1. leader[o][d] # "nobody"
        BY <2>4, <3>2 DEF Team
      <4> QED
        BY <2>4, <4>1 DEF EntriesIInv, NoRowNoLeader
    <3> QED
      BY <3>1, <3>2
  <2>5. \A p \in EntryOrders : \A d \in EntryCasts \ recalled' : d \in In(p)' => d \in In(p)
    <3> SUFFICES ASSUME NEW p \in EntryOrders, NEW d \in EntryCasts \ recalled', d \in In(p)'
                 PROVE  d \in In(p)
      OBVIOUS
    <3>1. CASE p = o /\ d \in Team(o, c)
      <4>1. role[o][d] \in {"unconfirmed", "attending"}
        BY <1>t, <2>1, <2>4, <3>1 DEF Roles
      <4> QED
        BY <3>1, <4>1 DEF In
    <3>2. CASE ~(p = o /\ d \in Team(o, c))
      BY <2>3, <3>2 DEF In
    <3> QED
      BY <3>1, <3>2
  <2>6. \A p \in EntryOrders : state'[p] = "matched" => BestOf(selection'[p])
    BY <1>b, <2>2
  <2> QED
    BY <1>t, <2>1, <2>2, <2>3, <2>5, <2>6, EntryAtOnce
<1>6. ASSUME NEW h \in Handlers, AutoSelectCast(h)
      PROVE  EntriesIInv'
  <2>1. /\ HandlerStep(h, "idle") /\ entry' = [entry EXCEPT ![h] = NoEntry]
        /\ UNCHANGED <<times, leader, raced, recalled>>
    BY <1>6, <1>i DEF AutoSelectCast
  <2>2. PICK o \in EntryOrders :
          LET n    == Needed[o] - Cardinality(Decided(o))
              pool == IF n = Cardinality(Pending(o)) THEN Pending(o) ELSE Fitting(o, n)
              options == IF n = 0 THEN {{}}
                         ELSE IF n = Cardinality(Pending(o)) THEN {pool}
                         ELSE FinalCastIds(o, pool, n)
          IN  /\ state[o] = "open"
              /\ IF Cardinality(In(o)) < Needed[o] \/ n < 0
                 THEN /\ state' = [state EXCEPT ![o] = "failed"]
                      /\ UNCHANGED <<role, selection>>
                 ELSE \E chosen \in options :
                      /\ state' = [state EXCEPT ![o] = "matched"]
                      /\ selection' = [selection EXCEPT ![o] =
                            [pool |-> pool, leaders |-> leader[o], count |-> n, chosen |-> chosen]]
                      /\ role' = [role EXCEPT ![o] = [c \in EntryCasts |->
                            IF c \in chosen THEN "attending"
                            ELSE IF c \in Pending(o) THEN "out" ELSE role[o][c]]]
    BY <1>6 DEF AutoSelectCast
  <2>3. PICK n : n = Needed[o] - Cardinality(Decided(o))
    OBVIOUS
  <2>4. PICK pool : pool = IF n = Cardinality(Pending(o)) THEN Pending(o) ELSE Fitting(o, n)
    OBVIOUS
  <2>5. n \in Int /\ IsFiniteSet(Pending(o)) /\ Cardinality(Pending(o)) \in Nat
    <3>1. IsFiniteSet(Decided(o)) /\ IsFiniteSet(Pending(o))
      BY EntryAssumption, FS_Subset DEF Decided, Pending
    <3>2. Cardinality(Decided(o)) \in Nat /\ Cardinality(Pending(o)) \in Nat
      BY <3>1, FS_CardinalityType
    <3> QED
      BY <2>3, <3>1, <3>2, EntryAssumption
  <2>6. pool \subseteq Pending(o) /\ Pending(o) \subseteq EntryCasts
    BY <2>4 DEF Fitting, Pending
  <2>7. CASE /\ state' = [state EXCEPT ![o] = "failed"]
             /\ UNCHANGED <<role, selection>>
    <3>1. \A p \in EntryOrders : \A d \in EntryCasts \ recalled' : d \in In(p)' => d \in In(p)
      BY <2>7 DEF In
    <3>2. state' \in [EntryOrders -> {"open", "matched", "failed"}]
          /\ \A p \in EntryOrders : state'[p] = IF p = o THEN "failed" ELSE state[p]
      BY <1>t, <2>7
    <3>3. \A p \in EntryOrders : state'[p] = "matched" => BestOf(selection'[p])
      BY <1>b, <2>7, <3>2
    <3> QED
      BY <1>t, <2>1, <2>7, <3>1, <3>2, <3>3, EntryAtOnce
  <2>8. CASE \E chosen \in (IF n = 0 THEN {{}}
                           ELSE IF n = Cardinality(Pending(o)) THEN {pool}
                           ELSE FinalCastIds(o, pool, n)) :
                      /\ state' = [state EXCEPT ![o] = "matched"]
                      /\ selection' = [selection EXCEPT ![o] =
                            [pool |-> pool, leaders |-> leader[o], count |-> n, chosen |-> chosen]]
                      /\ role' = [role EXCEPT ![o] = [c \in EntryCasts |->
                            IF c \in chosen THEN "attending"
                            ELSE IF c \in Pending(o) THEN "out" ELSE role[o][c]]]
    <3>1. PICK chosen \in (IF n = 0 THEN {{}}
                           ELSE IF n = Cardinality(Pending(o)) THEN {pool}
                           ELSE FinalCastIds(o, pool, n)) :
                      /\ state' = [state EXCEPT ![o] = "matched"]
                      /\ selection' = [selection EXCEPT ![o] =
                            [pool |-> pool, leaders |-> leader[o], count |-> n, chosen |-> chosen]]
                      /\ role' = [role EXCEPT ![o] = [c \in EntryCasts |->
                            IF c \in chosen THEN "attending"
                            ELSE IF c \in Pending(o) THEN "out" ELSE role[o][c]]]
      BY <2>8
    <3>2. PICK s : s = [pool |-> pool, leaders |-> leader[o], count |-> n, chosen |-> chosen]
      OBVIOUS
    <3>3. BestOf(s) /\ chosen \subseteq pool
      <4>1. CASE n = 0
        <5>1. chosen = {} /\ Cardinality(chosen) = n
          BY <3>1, <4>1, FS_EmptySet
        <5> QED
          BY <2>6, <3>2, <5>1, AllOrNoneBest
      <4>2. CASE n # 0 /\ n = Cardinality(Pending(o))
        <5>1. chosen = pool /\ Cardinality(chosen) = n
          BY <2>4, <3>1, <4>2
        <5> QED
          BY <2>6, <3>2, <5>1, AllOrNoneBest
      <4>3. CASE n # 0 /\ n # Cardinality(Pending(o))
        <5>1. chosen \in FinalCastIds(o, pool, n)
          BY <3>1, <4>3
        <5>2. LeadersLead(leader[o]) /\ pool \in SUBSET EntryCasts
          BY <2>6 DEF EntriesIInv
        <5> QED
          BY <1>t, <2>5, <3>2, <5>1, <5>2, CombinationsBest
      <4> QED
        BY <4>1, <4>2, <4>3
    <3> DEFINE ro == [c \in EntryCasts |-> IF c \in chosen THEN "attending"
                                          ELSE IF c \in Pending(o) THEN "out" ELSE role[o][c]]
    <3>4. ro \in [EntryCasts -> Roles] /\ \A c \in EntryCasts :
            /\ ro[c] = "none" => role[o][c] = "none"
            /\ ro[c] \in {"unconfirmed", "attending"} => role[o][c] \in {"unconfirmed", "attending"}
      BY <1>t, <2>6, <3>3 DEF Roles, Pending
    <3>5. role' = [role EXCEPT ![o] = ro]
      BY <3>1
    <3> HIDE DEF ro
    <3>6. /\ role' \in [EntryOrders -> [EntryCasts -> Roles]]
          /\ \A p \in EntryOrders : role'[p] = IF p = o THEN ro ELSE role[p]
      BY <1>t, <3>4, <3>5
    <3>7. state' \in [EntryOrders -> {"open", "matched", "failed"}]
          /\ \A p \in EntryOrders : state'[p] = IF p = o THEN "matched" ELSE state[p]
      BY <1>t, <3>1
    <3>8. \A p \in EntryOrders : \A d \in EntryCasts \ recalled' : d \in In(p)' => d \in In(p)
      BY <3>4, <3>6 DEF In
    <3>9. \A p \in EntryOrders : state'[p] = "matched" => BestOf(selection'[p])
      <4>1. \A p \in EntryOrders : p # o => selection'[p] = selection[p]
        BY <3>1
      <4>2. selection'[o] = s
        BY <1>t, <3>1, <3>2 DEF EntriesTyped
      <4> QED
        BY <1>b, <3>3, <3>7, <4>1, <4>2
    <3>10. DOMAIN selection' = DOMAIN selection
      BY <3>1
    <3> QED
      BY <1>t, <2>1, <2>2, <3>4, <3>6, <3>7, <3>8, <3>9, <3>10, EntryAtOnce
  <2> QED
    BY <2>2, <2>3, <2>4, <2>7, <2>8
<1>7. ASSUME NEW h \in Handlers, EntryDie(h)
      PROVE  EntriesIInv'
  <2>1. /\ HandlerStep(h, "idle") /\ entry' = [entry EXCEPT ![h] = NoEntry]
        /\ RowsSame /\ UNCHANGED <<times, raced, recalled>>
    BY <1>7 DEF EntryDie, Die, HandlerStep, Enters
  <2>2. \A p \in EntryOrders : state'[p] = "matched" => BestOf(selection'[p])
    BY <1>b, <2>1 DEF RowsSame
  <2>3. \A p \in EntryOrders : \A c \in EntryCasts \ recalled' : c \in In(p)' => c \in In(p)
    BY <2>1 DEF RowsSame, In
  <2> QED
    BY <1>t, <2>1, <2>2, <2>3, EntryAtOnce DEF RowsSame
<1>8. CASE UNCHANGED <<handlerVars, entryVars>>
  BY <1>8, StillSequential
     DEF EntriesIInv, EntriesTyped, NoRowNoLeader, OnceEntered, NoConflict, NotDoubleBooked, In, Orderly,
         Parallel, Overlap, Contains, handlerVars, entryVars
<1> QED
  BY <1>1, <1>2, <1>3, <1>4, <1>5, <1>6, <1>7, <1>8 DEF EntriesNext

LEMMA EntriesIInvHold == EntriesIInv => EntriesHold
BY DEF EntriesIInv, EntriesHold, BestTeamsChosen, BestOf
-----------------------------------------------------------------------------
(* Rewards: the rules *)

\* The smaller one of a limit and a quotient.
Capped(limit, q) == IF limit < q THEN limit ELSE q

LEMMA CountUpTo ==
  ASSUME NEW e \in Nat \ {0}, NEW limit \in Nat, NEW t \in Nat
  PROVE  Cardinality({k \in 1..limit : k * e <= t}) = Capped(limit, t \div e)
<1>1. PICK c : c = Capped(limit, t \div e)
  OBVIOUS
<1>2. t \div e \in Nat /\ c \in Nat
  BY <1>1, Quotient DEF Capped
<1>3. {k \in 1..limit : k * e <= t} = 1..c
  BY <1>1, <1>2, QuotientIsLargest DEF Capped
<1>4. Cardinality(1..c) = c
  BY <1>2, FS_Interval
<1> QED
  BY <1>1, <1>3, <1>4

LEMMA NextQuotient ==
  ASSUME NEW e \in Nat \ {0}, NEW t \in Nat
  PROVE  (t + 1) \div e = IF (t + 1) % e = 0 THEN t \div e + 1 ELSE t \div e
<1>0. PICK q, p, r, u : q = t \div e /\ u = t + 1 /\ p = u \div e /\ r = u % e
  OBVIOUS
<1>a. u \in Nat
  BY <1>0
<1>1. q \in Nat /\ p \in Nat /\ r \in 0..e - 1 /\ u = e * p + r
  BY <1>0, <1>a, Quotient
<1>2. \A k \in Nat : (k * e <= t <=> k <= q) /\ (k * e <= u <=> k <= p)
  BY <1>0, <1>a, QuotientIsLargest
<1>3. p * e <= u /\ q * e <= t /\ (q + 1) * e > t /\ (p + 1) * e > u
  <2>1. q + 1 \in Nat /\ p + 1 \in Nat /\ (q + 1) * e \in Nat /\ (p + 1) * e \in Nat
    BY <1>1
  <2> QED
    BY <1>0, <1>1, <1>2, <2>1
<1>4. q * e \in Nat /\ p * e \in Nat /\ p * e = e * p
  BY <1>1
<1>5. q <= p
  BY <1>0, <1>1, <1>2, <1>3, <1>4
<1>6. CASE r = 0
  <2>1. p * e = u
    BY <1>1, <1>4, <1>6
  <2>2. ~(p <= q)
    BY <1>0, <1>1, <1>2, <1>4, <2>1
  <2>3. (p - 1) * e = p * e - e
    BY <1>1
  <2>4. p - 1 \in Nat
    BY <1>1, <1>5, <2>2
  <2>5. (p - 1) * e <= t
    BY <1>0, <2>1, <2>3
  <2>6. p - 1 <= q
    BY <1>2, <2>4, <2>5
  <2> QED
    BY <1>0, <1>1, <1>5, <1>6, <2>2, <2>6
<1>7. CASE r # 0
  <2>1. p * e <= t
    BY <1>0, <1>1, <1>4, <1>7
  <2>2. p <= q
    BY <1>1, <1>2, <2>1
  <2> QED
    BY <1>0, <1>1, <1>5, <1>7, <2>2
<1> QED
  BY <1>6, <1>7

\* fixed_steps: the payout for the next order completes what is due by then.
LEMMA StepsGrow ==
  ASSUME NEW n \in Nat
  PROVE  /\ StepsUpTo(n) \in Nat /\ StepsUpTo(0) = 0
         /\ StepsUpTo(n + 1) = StepsUpTo(n) + StepDue(n + 1)
<1>1. StepEach \in Nat \ {0} /\ StepLimit \in Nat
  BY RewardAssumption
<1>2. \A t \in Nat : StepsUpTo(t) = Capped(StepLimit, t \div StepEach)
  BY <1>1, CountUpTo DEF StepsUpTo
<1>3. n \div StepEach \in Nat /\ 0 \div StepEach = 0
  <2>1. 0 \div StepEach \in Nat /\ 0 = StepEach * (0 \div StepEach) + (0 % StepEach)
        /\ 0 % StepEach \in 0..StepEach - 1 /\ n \div StepEach \in Nat
    BY <1>1, Quotient
  <2>2. 1 * StepEach <= 0 <=> 1 <= 0 \div StepEach
    BY <1>1, QuotientIsLargest
  <2> QED
    BY <1>1, <2>1, <2>2
<1>4. (n + 1) \div StepEach =
        IF (n + 1) % StepEach = 0 THEN n \div StepEach + 1 ELSE n \div StepEach
  BY <1>1, NextQuotient
<1>5. PICK q, p, r : q = n \div StepEach /\ p = (n + 1) \div StepEach /\ r = (n + 1) % StepEach
  OBVIOUS
<1>6. q \in Nat /\ p = IF r = 0 THEN q + 1 ELSE q
  BY <1>3, <1>4, <1>5
<1>7. /\ StepsUpTo(n) = Capped(StepLimit, q) /\ StepsUpTo(n + 1) = Capped(StepLimit, p)
      /\ StepsUpTo(0) = Capped(StepLimit, 0)
  BY <1>2, <1>3, <1>5
<1>8. StepDue(n + 1) = IF r = 0 /\ p <= StepLimit THEN 1 ELSE 0
  BY <1>5 DEF StepDue
<1> QED
  BY <1>1, <1>6, <1>7, <1>8 DEF Capped

\* fixed_turnover: what is paid for a larger turnover completes what is due by then.
LEMMA TurnsGrow ==
  ASSUME NEW s \in Nat, NEW t \in Nat, s <= t
  PROVE  /\ TurnsUpTo(s) \in Nat /\ TurnsUpTo(0) = 0
         /\ TurnsUpTo(t) = TurnsUpTo(s) + TurnsDue(t, TurnsUpTo(s))
<1>1. TurnEach \in Nat \ {0} /\ TurnLimit \in Nat
  BY RewardAssumption
<1>2. \A x \in Nat : TurnsUpTo(x) = Capped(TurnLimit, x \div TurnEach)
  BY <1>1, CountUpTo DEF TurnsUpTo
<1>3. s \div TurnEach \in Nat /\ t \div TurnEach \in Nat /\ 0 \div TurnEach = 0
  <2>1. 0 \div TurnEach \in Nat /\ s \div TurnEach \in Nat /\ t \div TurnEach \in Nat
    BY <1>1, Quotient
  <2>2. 1 * TurnEach <= 0 <=> 1 <= 0 \div TurnEach
    BY <1>1, QuotientIsLargest
  <2> QED
    BY <1>1, <2>1, <2>2
<1>4. s \div TurnEach <= t \div TurnEach
  <2>1. PICK q : q = s \div TurnEach
    OBVIOUS
  <2>2. q \in Nat /\ q * TurnEach <= s /\ q * TurnEach \in Nat
    BY <1>1, <1>3, <2>1, QuotientIsLargest
  <2>3. q * TurnEach <= t
    BY <2>2
  <2> QED
    BY <1>1, <2>1, <2>2, <2>3, QuotientIsLargest
<1>5. PICK a, b : a = s \div TurnEach /\ b = t \div TurnEach
  OBVIOUS
<1>6. PICK before : before = TurnsUpTo(s)
  OBVIOUS
<1>7. before = Capped(TurnLimit, a) /\ TurnsUpTo(t) = Capped(TurnLimit, b) /\ before \in Nat
  BY <1>1, <1>2, <1>3, <1>5, <1>6 DEF Capped
<1>8. {k \in 1..b : k > before /\ k <= TurnLimit} = before + 1..Capped(TurnLimit, b)
  BY <1>1, <1>3, <1>5, <1>7 DEF Capped
<1>9. TurnsDue(t, before) = Capped(TurnLimit, b) - before
  <2>1. Capped(TurnLimit, b) \in Int /\ before <= Capped(TurnLimit, b)
    BY <1>1, <1>3, <1>4, <1>5, <1>7 DEF Capped
  <2>2. Cardinality(before + 1..Capped(TurnLimit, b)) = Capped(TurnLimit, b) - before
    BY <1>7, <2>1, FS_Interval
  <2> QED
    BY <1>5, <1>8, <2>2 DEF TurnsDue
<1>10. TurnsUpTo(0) = 0
  BY <1>1, <1>2, <1>3 DEF Capped
<1>11. Capped(TurnLimit, b) \in Nat
  BY <1>1, <1>3, <1>5 DEF Capped
<1> QED
  BY <1>6, <1>7, <1>9, <1>10, <1>11

-----------------------------------------------------------------------------
(* Rewards: what an order adds *)

\* Payouts that a settlement books; those of reviews are booked by themselves.
OrderKinds == Kinds \ {"review"}

\* The first three groups of rules have paid u what they give for the orders S.
RightlyPaid(p, u, S) ==
    LET n == Cardinality(OrdersOf(u, S))
        t == Turnover(u, S)
        invited(x) == IF InviterOf[u] = "nobody" THEN 0 ELSE x
    IN  /\ p["steps"][u] = StepsUpTo(n)
        /\ p["turns"][u] = TurnsUpTo(t)
        /\ p["inviterSteps"][u] = invited(StepsUpTo(n))
        /\ p["inviterTurns"][u] = invited(TurnsUpTo(t))
        /\ p["inviterShares"][u] = invited(SharesUpTo(n))

\* The turnover is a number that grows with the orders.
LEMMA TurnoverGrows ==
  ASSUME NEW S \in SUBSET Orders, IsFiniteSet(S), NEW T \in SUBSET S, NEW u
  PROVE  Turnover(u, T) \in Nat /\ Turnover(u, S) \in Nat /\ Turnover(u, T) <= Turnover(u, S)
<1> DEFINE Rows(X) == UNION {{m} \X CastsOf[m] : m \in OrdersOf(u, X)}
<1>1. IsFiniteSet(S \X RewardCasts)
  BY RewardAssumption, FS_Product
<1>2. OrdersOf(u, T) \subseteq OrdersOf(u, S) /\ OrdersOf(u, S) \subseteq S
  BY DEF OrdersOf
<1>3. \A m \in Orders : CastsOf[m] \subseteq RewardCasts
  BY RewardAssumption
<1>4. Rows(T) \subseteq Rows(S) /\ Rows(S) \subseteq S \X RewardCasts
  BY <1>2, <1>3
<1> HIDE DEF Rows
<1>5. IsFiniteSet(Rows(S)) /\ IsFiniteSet(OrdersOf(u, S))
  BY <1>1, <1>2, <1>4, FS_Subset
<1>6. /\ Cardinality(Rows(T)) \in Nat /\ Cardinality(Rows(S)) \in Nat
      /\ Cardinality(Rows(T)) <= Cardinality(Rows(S))
  BY <1>4, <1>5, FS_Subset, FS_CardinalityType
<1>7. /\ Cardinality(OrdersOf(u, T)) \in Nat /\ Cardinality(OrdersOf(u, S)) \in Nat
      /\ Cardinality(OrdersOf(u, T)) <= Cardinality(OrdersOf(u, S))
  BY <1>2, <1>5, FS_Subset, FS_CardinalityType
<1>8. \A X : Turnover(u, X) = IF u \in RewardCasts THEN Cardinality(OrdersOf(u, X))
                              ELSE Cardinality(Rows(X))
  BY DEF Turnover, Rows
<1> QED
  BY <1>6, <1>7, <1>8

\* A participant of an order more has one order more.
LEMMA OneOrderMore ==
  ASSUME NEW S \in SUBSET Orders, IsFiniteSet(S), NEW m \in Orders \ S, NEW u
  PROVE  /\ IsFiniteSet(S \cup {m})
         /\ u \in Members(m) =>
               /\ OrdersOf(u, S \cup {m}) = OrdersOf(u, S) \cup {m}
               /\ Cardinality(OrdersOf(u, S)) \in Nat
               /\ Cardinality(OrdersOf(u, S \cup {m})) = Cardinality(OrdersOf(u, S)) + 1
         /\ u \notin Members(m) => OrdersOf(u, S \cup {m}) = OrdersOf(u, S)
<1>1. OrdersOf(u, S) \subseteq S /\ IsFiniteSet(OrdersOf(u, S)) /\ m \notin OrdersOf(u, S)
  BY FS_Subset DEF OrdersOf
<1>2. IsFiniteSet(S \cup {m})
  BY FS_AddElement
<1>3. u \in Members(m) => OrdersOf(u, S \cup {m}) = OrdersOf(u, S) \cup {m}
  BY DEF OrdersOf
<1>4. Cardinality(OrdersOf(u, S) \cup {m}) = Cardinality(OrdersOf(u, S)) + 1
      /\ Cardinality(OrdersOf(u, S)) \in Nat
  BY <1>1, FS_AddElement, FS_CardinalityType
<1> QED
  BY <1>2, <1>3, <1>4 DEF OrdersOf

\* What the rules give for an order more, read while the order's members are locked,
\* is what they lack.
LEMMA PaidOn ==
  ASSUME NEW S \in SUBSET Orders, IsFiniteSet(S), NEW w, w.order \in Orders \ S,
         NEW u \in Participants, NEW p, NEW q, RightlyPaid(p, u, S),
         \A k \in OrderKinds : q[k][u] = p[k][u] + Payouts(w, 6, k, u),
         u \in Members(w.order) => OrdersOf(u, w.done) = OrdersOf(u, S \cup {w.order}),
         u \in Members(w.order) => \A k \in OrderKinds : w.paid[k][u] = p[k][u]
  PROVE  RightlyPaid(q, u, S \cup {w.order})
<1>1. PICK m, Z : m = w.order /\ Z = S \cup {m}
  OBVIOUS
<1>2. PICK n, t, s, r : /\ n = Cardinality(OrdersOf(u, S)) /\ t = Turnover(u, S)
                        /\ r = Cardinality(OrdersOf(u, Z)) /\ s = Turnover(u, Z)
  OBVIOUS
<1>3. {"steps", "turns", "inviterSteps", "inviterTurns", "inviterShares"} \subseteq OrderKinds
  BY DEF OrderKinds, Kinds, InviterKinds
<1>k. {"inviterSteps", "inviterTurns", "inviterShares"} = InviterKinds
  BY DEF InviterKinds
<1>4. PICK free : free = (InviterOf[u] = "nobody")
  OBVIOUS
<1>5. /\ p["steps"][u] = StepsUpTo(n) /\ p["turns"][u] = TurnsUpTo(t)
      /\ free => p["inviterSteps"][u] = 0 /\ p["inviterTurns"][u] = 0 /\ p["inviterShares"][u] = 0
      /\ ~free => /\ p["inviterSteps"][u] = StepsUpTo(n) /\ p["inviterTurns"][u] = TurnsUpTo(t)
                  /\ p["inviterShares"][u] = SharesUpTo(n)
  BY <1>2, <1>4 DEF RightlyPaid
<1>6. CASE u \notin Members(m)
  <2>1. \A k \in OrderKinds : k \notin {"patron", "firstCast"} => Payouts(w, 6, k, u) = 0
    BY <1>1, <1>6 DEF Payouts, Members
  <2>2. OrdersOf(u, Z) = OrdersOf(u, S) /\ Turnover(u, Z) = Turnover(u, S)
    BY <1>1, <1>6, OneOrderMore DEF Turnover
  <2>3. \A x \in Nat : StepsUpTo(x) \in Nat /\ TurnsUpTo(x) \in Nat /\ SharesUpTo(x) \in Nat
    BY StepsGrow, TurnsGrow, RewardAssumption DEF SharesUpTo
  <2>4. IsFiniteSet(OrdersOf(u, S))
    BY FS_Subset DEF OrdersOf
  <2>5. n \in Nat /\ t \in Nat
    BY <1>2, <2>4, FS_CardinalityType, TurnoverGrows
  <2>6. \A k \in {"steps", "turns", "inviterSteps", "inviterTurns", "inviterShares"} :
            q[k][u] = p[k][u] + 0
    BY <1>3, <2>1
  <2>7. \A k \in {"steps", "turns", "inviterSteps", "inviterTurns", "inviterShares"} :
            q[k][u] = p[k][u]
    BY <1>5, <2>3, <2>5, <2>6
  <2> QED
    BY <1>1, <1>2, <1>4, <1>5, <2>2, <2>7 DEF RightlyPaid
<1>7. CASE u \in Members(m)
  <2>1. n \in Nat /\ r = n + 1 /\ OrdersOf(u, w.done) = OrdersOf(u, Z)
    BY <1>1, <1>2, <1>7, OneOrderMore
  <2>2. t \in Nat /\ s \in Nat /\ t <= s
    BY <1>1, <1>2, OneOrderMore, TurnoverGrows
  <2>3. Turnover(u, w.done) = s /\ Cardinality(OrdersOf(u, w.done)) = r
    BY <1>2, <2>1 DEF Turnover
  <2>4. Steps(w, u) = StepDue(n + 1)
    BY <2>1, <2>3 DEF Steps
  <2>5. \A k \in OrderKinds : Turns(w, k, u) = TurnsDue(s, p[k][u])
    BY <1>1, <1>7, <2>3 DEF Turns
  <2>6. /\ Payouts(w, 6, "steps", u) = Steps(w, u)
        /\ Payouts(w, 6, "turns", u) = Turns(w, "turns", u)
    BY <1>1, <1>7 DEF Payouts, Members, InviterKinds
  <2>7. \A k \in InviterKinds : Payouts(w, 6, k, u) = InviterPayouts(w, k, u)
    BY <1>1, <1>7 DEF Payouts, InviterKinds
  <2>a. /\ StepsUpTo(n + 1) = StepsUpTo(n) + StepDue(n + 1)
        /\ TurnsUpTo(s) = TurnsUpTo(t) + TurnsDue(s, TurnsUpTo(t))
    BY <2>1, <2>2, StepsGrow, TurnsGrow
  <2>b. /\ q["steps"][u] = p["steps"][u] + StepDue(n + 1)
        /\ q["turns"][u] = p["turns"][u] + TurnsDue(s, p["turns"][u])
    BY <1>3, <2>4, <2>5, <2>6
  <2>8. CASE free
    <3>1. \A k \in InviterKinds : Payouts(w, 6, k, u) = 0
      BY <1>4, <2>7, <2>8 DEF InviterPayouts
    <3>2. \A k \in InviterKinds : q[k][u] = 0
      BY <1>3, <1>5, <1>k, <2>8, <3>1
    <3>3. q["steps"][u] = StepsUpTo(n + 1) /\ q["turns"][u] = TurnsUpTo(s)
      BY <1>5, <2>a, <2>b
    <3> QED
      BY <1>1, <1>2, <1>4, <1>k, <2>1, <2>8, <3>2, <3>3 DEF RightlyPaid
  <2>9. CASE ~free
    <3>1. /\ Payouts(w, 6, "inviterSteps", u) = Steps(w, u)
          /\ Payouts(w, 6, "inviterTurns", u) = Turns(w, "inviterTurns", u)
          /\ Payouts(w, 6, "inviterShares", u) =
                IF w.paid["inviterShares"][u] < ShareLimit THEN 1 ELSE 0
      BY <1>4, <1>k, <2>7, <2>9 DEF InviterPayouts
    <3>2. w.paid["inviterShares"][u] = SharesUpTo(n)
      BY <1>1, <1>3, <1>5, <1>7, <2>9
    <3>3. q["steps"][u] = StepsUpTo(n + 1) /\ q["turns"][u] = TurnsUpTo(s)
      BY <1>5, <2>a, <2>b
    <3>4. q["inviterSteps"][u] = StepsUpTo(n + 1) /\ q["inviterTurns"][u] = TurnsUpTo(s)
      <4>1. /\ q["inviterSteps"][u] = p["inviterSteps"][u] + StepDue(n + 1)
            /\ q["inviterTurns"][u] = p["inviterTurns"][u] + TurnsDue(s, p["inviterTurns"][u])
        BY <1>3, <2>4, <2>5, <3>1
      <4> QED
        BY <1>5, <2>9, <2>a, <4>1
    <3>5. q["inviterShares"][u] = SharesUpTo(n + 1)
      <4>1. q["inviterShares"][u] = SharesUpTo(n) + IF SharesUpTo(n) < ShareLimit THEN 1 ELSE 0
        BY <1>3, <1>5, <2>9, <3>1, <3>2
      <4> QED
        BY <4>1, <2>1, RewardAssumption DEF SharesUpTo
    <3> QED
      BY <1>1, <1>2, <1>4, <2>1, <2>9, <3>3, <3>4, <3>5 DEF RightlyPaid
  <2> QED
    BY <2>8, <2>9
<1> QED
  BY <1>6, <1>7

-----------------------------------------------------------------------------
(* Rewards: first meetings *)

\* The places of the orders of cast c in s.
OrdersWith(c, s) == {i \in 1..Len(s) : c \in CastsOf[s[i]]}

\* The private order at i follows another one of the same guest and c.
Follows(c, s, i) ==
    \E j \in OrdersWith(c, s) : j < i /\ s[j] \in Private /\ OwnerOf[s[j]] = OwnerOf[s[i]]

Repeats(c, s) == {i \in OrdersWith(c, s) : s[i] \in Private /\ Follows(c, s, i)}

\* What FirstMeetingsCount says of one cast; before the first order nothing was paid.
CastMet(c) ==
    LET mine == OrdersWith(c, settled)
    IN  /\ patron[c] # "nobody" => \E i \in mine : OwnerOf[settled[i]] = patron[c]
        /\ \A i \in mine : (\A j \in mine : i <= j) /\ CastsOf[settled[i]] = {c}
                              => patron[c] = OwnerOf[settled[i]]
        /\ mine # {} => paid["patron"][c] < Cardinality(mine)
        /\ mine = {} => paid["patron"][c] = 0
        /\ repeats[c] = Cardinality(Repeats(c, settled))

OrdersBy(g, s) == {i \in 1..Len(s) : OwnerOf[s[i]] = g}
PrivateBy(g, s) == {i \in 1..Len(s) : OwnerOf[s[i]] = g /\ s[i] \in Private}

\* What it says of one guest.
GuestMet(g) ==
    LET private == PrivateBy(g, settled)
    IN  /\ firstMet[g] = "nobody" <=> private = {}
        /\ private = {} => paid["firstCast"][g] = 0
        /\ \A i \in private : (\A j \in private : i <= j) =>
              /\ CastsOf[settled[i]] = {firstMet[g]}
              /\ paid["firstCast"][g] = Cardinality({j \in OrdersBy(g, settled) : j >= i})

\* A private order has one cast.
LEMMA PrivateCast ==
  ASSUME NEW m \in Private
  PROVE  \E c \in RewardCasts : CastsOf[m] = {c}
<1>1. CastsOf[m] \subseteq RewardCasts /\ IsFiniteSet(RewardCasts) /\ Cardinality(CastsOf[m]) = 1
  BY RewardAssumption
<1>2. \E c : CastsOf[m] = {c}
  BY <1>1, FS_Subset, FS_Singleton
<1> QED
  BY <1>1, <1>2

LEMMA Appended ==
  ASSUME NEW s \in Seq(Orders), NEW m \in Orders, NEW t, t = Append(s, m), NEW n, n = Len(s)
  PROVE  /\ n \in Nat /\ Len(t) = n + 1 /\ t \in Seq(Orders) /\ t[n + 1] = m
         /\ \A i \in 1..n : t[i] = s[i] /\ s[i] \in Orders /\ i < n + 1
         /\ 1..n + 1 = 1..n \cup {n + 1} /\ n + 1 \notin 1..n
OBVIOUS

\* Places are finitely many, and an order that is appended adds its own.
LEMMA PlacesFinite ==
  ASSUME NEW s \in Seq(Orders), NEW P \in SUBSET 1..Len(s)
  PROVE  /\ IsFiniteSet(P) /\ Cardinality(P) \in Nat
         /\ Cardinality(P \cup {Len(s) + 1}) = Cardinality(P) + 1
<1>1. PICK n : n = Len(s)
  OBVIOUS
<1>2. n \in Nat /\ IsFiniteSet(1..n)
  BY <1>1, FS_Interval
<1>3. P \subseteq 1..n
  BY <1>1
<1>4. IsFiniteSet(P)
  BY <1>2, <1>3, FS_Subset
<1>6. n + 1 \notin P
  BY <1>2, <1>3
<1>5. Cardinality(P) \in Nat /\ Cardinality(P \cup {n + 1}) = Cardinality(P) + 1
  BY <1>4, <1>6, FS_AddElement, FS_CardinalityType
<1> QED
  BY <1>1, <1>4, <1>5

LEMMA CastPlacesGrow ==
  ASSUME NEW s \in Seq(Orders), NEW m \in Orders, NEW c
  PROVE  /\ OrdersWith(c, s) \subseteq 1..Len(s) /\ Repeats(c, s) \subseteq 1..Len(s)
         /\ OrdersWith(c, Append(s, m)) = IF c \in CastsOf[m] THEN OrdersWith(c, s) \cup {Len(s) + 1}
                               ELSE OrdersWith(c, s)
<1>1. PICK n, t : n = Len(s) /\ t = Append(s, m)
  OBVIOUS
<1>2. /\ n \in Nat /\ Len(t) = n + 1 /\ t \in Seq(Orders) /\ t[n + 1] = m
      /\ \A i \in 1..n : t[i] = s[i] /\ s[i] \in Orders /\ i < n + 1
      /\ 1..n + 1 = 1..n \cup {n + 1} /\ n + 1 \notin 1..n
  BY <1>1, Appended
<1> QED
  BY <1>1, <1>2 DEF OrdersWith, Repeats

LEMMA GuestPlacesGrow ==
  ASSUME NEW s \in Seq(Orders), NEW m \in Orders, NEW g
  PROVE  /\ PrivateBy(g, s) \subseteq 1..Len(s) /\ OrdersBy(g, s) \subseteq 1..Len(s)
         /\ OrdersBy(g, Append(s, m)) = IF OwnerOf[m] = g THEN OrdersBy(g, s) \cup {Len(s) + 1}
                             ELSE OrdersBy(g, s)
         /\ PrivateBy(g, Append(s, m)) = IF OwnerOf[m] = g /\ m \in Private
                              THEN PrivateBy(g, s) \cup {Len(s) + 1} ELSE PrivateBy(g, s)
<1>1. PICK n, t : n = Len(s) /\ t = Append(s, m)
  OBVIOUS
<1>2. /\ n \in Nat /\ Len(t) = n + 1 /\ t \in Seq(Orders) /\ t[n + 1] = m
      /\ \A i \in 1..n : t[i] = s[i] /\ s[i] \in Orders /\ i < n + 1
      /\ 1..n + 1 = 1..n \cup {n + 1} /\ n + 1 \notin 1..n
  BY <1>1, Appended
<1> QED
  BY <1>1, <1>2 DEF OrdersBy, PrivateBy

LEMMA RepeatsGrow ==
  ASSUME NEW s \in Seq(Orders), NEW m \in Orders, NEW c
  PROVE  Repeats(c, Append(s, m)) =
           IF m \in Private /\ c \in CastsOf[m] /\
              (\E j \in OrdersWith(c, s) : s[j] \in Private /\ OwnerOf[s[j]] = OwnerOf[m])
           THEN Repeats(c, s) \cup {Len(s) + 1} ELSE Repeats(c, s)
<1>0. PICK t : t = Append(s, m)
  OBVIOUS
<1>1. PICK n, P, T : t = Append(s, m) /\ n = Len(s) /\ P = OrdersWith(c, s) /\ T = OrdersWith(c, t)
  BY <1>0
<1>2. /\ n \in Nat /\ Len(t) = n + 1 /\ t \in Seq(Orders) /\ t[n + 1] = m
      /\ \A i \in 1..n : t[i] = s[i] /\ s[i] \in Orders /\ i < n + 1
      /\ 1..n + 1 = 1..n \cup {n + 1} /\ n + 1 \notin 1..n
  BY <1>1, Appended
<1>3. P \subseteq 1..n /\ T = IF c \in CastsOf[m] THEN P \cup {n + 1} ELSE P
  BY <1>1, CastPlacesGrow
<1>4. ASSUME NEW i \in P
      PROVE  i \in Repeats(c, t) <=> i \in Repeats(c, s)
  <2>1. \A j \in T : j < i => j \in P
    BY <1>2, <1>3
  <2>2. P \subseteq T /\ i \in T
    BY <1>3
  <2>3. Follows(c, t, i) <=> Follows(c, s, i)
    BY <1>1, <1>2, <1>3, <2>1, <2>2 DEF Follows
  <2>4. t[i] = s[i]
    BY <1>2, <1>3
  <2> QED
    BY <1>1, <2>2, <2>3, <2>4 DEF Repeats
<1>5. ASSUME c \in CastsOf[m]
      PROVE  n + 1 \in Repeats(c, t) <=> m \in Private /\
                (\E j \in P : s[j] \in Private /\ OwnerOf[s[j]] = OwnerOf[m])
  <2>0. T = P \cup {n + 1}
    BY <1>3, <1>5
  <2>1. T = P \cup {n + 1} /\ \A j \in T : j < n + 1 <=> j \in P
    BY <1>2, <1>3, <2>0
  <2>2. \A j \in P : t[j] = s[j]
    BY <1>2, <1>3
  <2>3. Follows(c, t, n + 1) <=> \E j \in P : s[j] \in Private /\ OwnerOf[s[j]] = OwnerOf[m]
    BY <1>1, <1>2, <2>1, <2>2 DEF Follows
  <2> QED
    BY <1>1, <1>2, <2>1, <2>3 DEF Repeats
<1>6. Repeats(c, t) \subseteq T /\ Repeats(c, s) \subseteq P
  BY <1>1 DEF Repeats
<1> QED
  BY <1>1, <1>2, <1>3, <1>4, <1>5, <1>6

\* An order is appended: the cast is still paid for those after the first.
LEMMA CastMeets ==
  ASSUME settled \in Seq(Orders), NEW m \in Orders, settled' = Append(settled, m),
         NEW c \in RewardCasts, CastMet(c), paid["patron"][c] \in Nat,
         \/ patron'[c] = patron[c]
         \/ patron[c] = "nobody" /\ c \in CastsOf[m] /\ patron'[c] = OwnerOf[m],
         patron[c] = "nobody" /\ CastsOf[m] = {c} => patron'[c] = OwnerOf[m],
         \/ paid'["patron"][c] = paid["patron"][c]
         \/ /\ paid'["patron"][c] = paid["patron"][c] + 1
            /\ c \in CastsOf[m] /\ patron[c] # "nobody",
         repeats'[c] = repeats[c] + IF m \in Private /\ c \in CastsOf[m] /\
                           (\E j \in OrdersWith(c, settled) :
                               settled[j] \in Private /\ OwnerOf[settled[j]] = OwnerOf[m])
                         THEN 1 ELSE 0
  PROVE  CastMet(c)'
<1>1. PICK s, t, n, P, T : /\ s = settled /\ t = settled' /\ t = Append(s, m) /\ n = Len(s)
                           /\ P = OrdersWith(c, s) /\ T = OrdersWith(c, t)
  OBVIOUS
<1>2. /\ n \in Nat /\ Len(t) = n + 1 /\ t \in Seq(Orders) /\ t[n + 1] = m
      /\ \A i \in 1..n : t[i] = s[i] /\ s[i] \in Orders /\ i < n + 1
      /\ 1..n + 1 = 1..n \cup {n + 1} /\ n + 1 \notin 1..n
  BY <1>1, Appended
<1>3. /\ P \subseteq 1..n /\ Repeats(c, s) \subseteq 1..n
      /\ T = IF c \in CastsOf[m] THEN P \cup {n + 1} ELSE P
  BY <1>1, CastPlacesGrow
<1>4. OwnerOf \in [Orders -> Guests] /\ "nobody" \notin Guests
  BY RewardAssumption DEF Participants
<1>5. /\ Cardinality(P) \in Nat /\ Cardinality(P \cup {n + 1}) = Cardinality(P) + 1
      /\ Cardinality(Repeats(c, s)) \in Nat
      /\ Cardinality(Repeats(c, s) \cup {n + 1}) = Cardinality(Repeats(c, s)) + 1
  BY <1>1, <1>3, PlacesFinite
<1>6. PICK p, q : p = patron[c] /\ q = patron'[c]
  OBVIOUS
<1>7. /\ p # "nobody" => \E i \in P : OwnerOf[s[i]] = p
      /\ \A i \in P : (\A j \in P : i <= j) /\ CastsOf[s[i]] = {c} => p = OwnerOf[s[i]]
      /\ P # {} => paid["patron"][c] < Cardinality(P)
      /\ P = {} => paid["patron"][c] = 0
      /\ repeats[c] = Cardinality(Repeats(c, s))
  BY <1>1, <1>6 DEF CastMet
<1>8. /\ q = p \/ (p = "nobody" /\ c \in CastsOf[m] /\ q = OwnerOf[m])
      /\ p = "nobody" /\ CastsOf[m] = {c} => q = OwnerOf[m]
  BY <1>6
<1>9. repeats'[c] = Cardinality(Repeats(c, t))
  <2>1. Repeats(c, t) =
           IF m \in Private /\ c \in CastsOf[m] /\
              (\E j \in P : s[j] \in Private /\ OwnerOf[s[j]] = OwnerOf[m])
           THEN Repeats(c, s) \cup {n + 1} ELSE Repeats(c, s)
    BY <1>1, RepeatsGrow
  <2> QED
    BY <1>1, <1>5, <1>7, <2>1
<1>10. q # "nobody" => \E i \in T : OwnerOf[t[i]] = q
  BY <1>2, <1>3, <1>7, <1>8
<1>11. ASSUME NEW i \in T, \A j \in T : i <= j, CastsOf[t[i]] = {c}
       PROVE  q = OwnerOf[t[i]]
  <2>1. CASE i \in P
    <3>1. t[i] = s[i] /\ s[i] \in Orders /\ \A j \in P : i <= j
      BY <1>2, <1>3, <1>11, <2>1
    <3>2. p = OwnerOf[s[i]]
      BY <1>7, <1>11, <2>1, <3>1
    <3>3. OwnerOf[s[i]] # "nobody"
      BY <1>4, <3>1
    <3> QED
      BY <1>8, <3>1, <3>2, <3>3
  <2>2. CASE i \notin P
    <3>1. i = n + 1 /\ c \in CastsOf[m] /\ t[i] = m
      BY <1>2, <1>3, <1>11, <2>2
    <3>2. P = {}
      <4> SUFFICES ASSUME NEW j \in P PROVE FALSE
        OBVIOUS
      <4>1. n + 1 <= j /\ j < n + 1 /\ j \in Int /\ n + 1 \in Int
        BY <1>2, <1>3, <1>11, <3>1
      <4> QED
        BY <4>1
    <3>3. p = "nobody"
      BY <1>7, <3>2
    <3> QED
      BY <1>8, <1>11, <3>1, <3>3
  <2> QED
    BY <2>1, <2>2
<1>12. /\ T # {} => paid'["patron"][c] < Cardinality(T)
       /\ T = {} => paid'["patron"][c] = 0
  <2>1. P = {} => p = "nobody" /\ Cardinality(P) = 0
    BY <1>7, FS_EmptySet
  <2>2. CASE c \in CastsOf[m]
    BY <1>3, <1>5, <1>6, <1>7, <2>1, <2>2
  <2>3. CASE c \notin CastsOf[m]
    BY <1>3, <1>5, <1>7, <2>3
  <2> QED
    BY <2>2, <2>3
<1> QED
  BY <1>1, <1>6, <1>9, <1>10, <1>11, <1>12 DEF CastMet

\* An order is appended: the guest's first private cast is still paid from there on.
LEMMA GuestMeets ==
  ASSUME settled \in Seq(Orders), NEW m \in Orders, settled' = Append(settled, m),
         NEW g \in Guests, GuestMet(g), paid["firstCast"][g] \in Nat,
         OwnerOf[m] # g => firstMet'[g] = firstMet[g] /\ paid'["firstCast"][g] = paid["firstCast"][g],
         OwnerOf[m] = g =>
            /\ firstMet'[g] = FirstCast(m)
            /\ paid'["firstCast"][g] =
                  paid["firstCast"][g] + IF FirstCast(m) # "nobody" THEN 1 ELSE 0
  PROVE  GuestMet(g)'
<1>1. PICK s, t, n, P, T : /\ s = settled /\ t = settled' /\ t = Append(s, m) /\ n = Len(s)
                           /\ P = PrivateBy(g, s) /\ T = PrivateBy(g, t)
  OBVIOUS
<1>2. /\ n \in Nat /\ Len(t) = n + 1 /\ t \in Seq(Orders) /\ t[n + 1] = m
      /\ \A i \in 1..n : t[i] = s[i] /\ s[i] \in Orders /\ i < n + 1
      /\ 1..n + 1 = 1..n \cup {n + 1} /\ n + 1 \notin 1..n
  BY <1>1, Appended
<1>3. /\ P \subseteq 1..n /\ OrdersBy(g, s) \subseteq 1..n
      /\ T = IF OwnerOf[m] = g /\ m \in Private THEN P \cup {n + 1} ELSE P
      /\ OrdersBy(g, t) = IF OwnerOf[m] = g THEN OrdersBy(g, s) \cup {n + 1} ELSE OrdersBy(g, s)
  BY <1>1, GuestPlacesGrow
<1>4. PICK f, e, x, y : /\ f = firstMet[g] /\ e = firstMet'[g] /\ x = paid["firstCast"][g]
                        /\ y = paid'["firstCast"][g]
  OBVIOUS
<1>5. /\ f = "nobody" <=> P = {}
      /\ P = {} => x = 0
      /\ \A i \in P : (\A j \in P : i <= j) =>
            CastsOf[s[i]] = {f} /\ x = Cardinality({j \in OrdersBy(g, s) : j >= i})
  BY <1>1, <1>4 DEF GuestMet
<1>6. SUFFICES /\ e = "nobody" <=> T = {}
               /\ T = {} => y = 0
               /\ \A i \in T : (\A j \in T : i <= j) =>
                     CastsOf[t[i]] = {e} /\ y = Cardinality({j \in OrdersBy(g, t) : j >= i})
  BY <1>1, <1>4 DEF GuestMet
<1>7. CASE OwnerOf[m] # g
  <2>1. e = f /\ y = x /\ T = P /\ OrdersBy(g, t) = OrdersBy(g, s)
    BY <1>3, <1>4, <1>7
  <2> QED
    BY <1>2, <1>3, <1>5, <2>1
<1>8. CASE OwnerOf[m] = g /\ P = {} /\ m \in Private
  <2>1. PICK c \in RewardCasts : CastsOf[m] = {c}
    BY <1>8, PrivateCast
  <2>2. e = c /\ y = 1 /\ e # "nobody"
    <3>1. f = "nobody" /\ x = 0
      BY <1>5, <1>8
    <3>2. FirstCast(m) = c
      BY <1>4, <1>8, <2>1, <3>1 DEF FirstCast
    <3>3. c # "nobody"
      BY RewardAssumption DEF Participants
    <3> QED
      BY <1>4, <1>8, <3>1, <3>2, <3>3
  <2>3. T = {n + 1} /\ \A i \in T : i = n + 1 /\ CastsOf[t[i]] = {e}
    BY <1>2, <1>3, <1>8, <2>1, <2>2
  <2>4. {j \in OrdersBy(g, t) : j >= n + 1} = {n + 1}
    BY <1>2, <1>3, <1>8
  <2>5. Cardinality({n + 1}) = 1
    BY FS_Singleton
  <2> QED
    BY <2>2, <2>3, <2>4, <2>5
<1>9. CASE OwnerOf[m] = g /\ P = {} /\ m \notin Private
  <2>1. f = "nobody" /\ x = 0 /\ T = {}
    BY <1>3, <1>5, <1>9
  <2>2. e = "nobody" /\ y = 0
    BY <1>4, <1>9, <2>1 DEF FirstCast
  <2> QED
    BY <2>1, <2>2
<1>10. CASE OwnerOf[m] = g /\ P # {}
  <2>1. e = f /\ y = x + 1 /\ e # "nobody" /\ T # {}
    <3>1. f # "nobody"
      BY <1>5, <1>10
    <3>2. FirstCast(m) = f
      BY <1>4, <1>10, <3>1 DEF FirstCast
    <3> QED
      BY <1>3, <1>4, <1>10, <3>1, <3>2
  <2>2. ASSUME NEW i \in T, \A j \in T : i <= j
        PROVE  CastsOf[t[i]] = {e} /\ y = Cardinality({j \in OrdersBy(g, t) : j >= i})
    <3>1. P \subseteq T /\ T \subseteq P \cup {n + 1}
      BY <1>3
    <3>2. i # n + 1
      <4> SUFFICES ASSUME i = n + 1 PROVE FALSE
        OBVIOUS
      <4>1. PICK j \in P : TRUE
        BY <1>10
      <4>2. n + 1 <= j /\ j < n + 1 /\ j \in Int /\ n + 1 \in Int
        BY <1>2, <1>3, <2>2, <3>1, <4>1
      <4> QED
        BY <4>2
    <3>3. i \in P /\ i \in 1..n /\ t[i] = s[i] /\ \A j \in P : i <= j
      BY <1>2, <1>3, <2>2, <3>1, <3>2
    <3>4. PICK S : S = {j \in OrdersBy(g, s) : j >= i}
      OBVIOUS
    <3>5. CastsOf[s[i]] = {f} /\ x = Cardinality(S)
      BY <1>5, <3>3, <3>4
    <3>6. {j \in OrdersBy(g, t) : j >= i} = S \cup {n + 1}
      BY <1>2, <1>3, <1>10, <3>3, <3>4
    <3>7. S \subseteq 1..n
      BY <1>3, <3>4
    <3>8. Cardinality(S \cup {n + 1}) = Cardinality(S) + 1
      BY <1>1, <3>7, PlacesFinite
    <3> QED
      BY <2>1, <3>3, <3>5, <3>6, <3>8
  <2> QED
    BY <2>1, <2>2
<1> QED
  BY <1>7, <1>8, <1>9, <1>10

-----------------------------------------------------------------------------
(* Rewards: the settlements *)

RewardLabels == {"idle", "book", "count", "reward", "findReview", "createReview", "payReview"}

SettlingAt == {"book", "count", "reward"}
Reviewing == {"findReview", "createReview", "payReview"}

PaymentRows == [Kinds -> [Participants -> Nat]]

WorkRows ==
    [order : Orders \cup {"none"}, rest : SUBSET RewardCasts, done : SUBSET Orders,
     paid : PaymentRows \cup {NoWork.paid},
     by : Participants \cup {"nobody"}, of : Participants \cup {"nobody"}]

RewardRowsTyped ==
    /\ settled \in Seq(Orders) /\ IsFiniteSet(Done)
    /\ DOMAIN lock = Participants
    /\ paid \in PaymentRows
    /\ patron \in [RewardCasts -> Guests \cup {"nobody"}]
    /\ firstMet \in [Guests -> RewardCasts \cup {"nobody"}]
    /\ repeats \in [RewardCasts -> Nat]
    /\ IsFiniteSet(reviewed) /\ reviews \in [Participants -> Nat]

RewardsTyped ==
    /\ at \in [Handlers -> RewardLabels] /\ Bounded /\ Sequential
    /\ RewardRowsTyped
    /\ work \in [Handlers -> WorkRows]

\* What handler h at l, which has noted w, relies on: the order is not settled yet, the
\* rows of those it has booked are locked, and so what it has read of them still holds.
RewardFacts(h, l, w) ==
    /\ l \in SettlingAt => w.order \in Orders \ Done /\ w.rest \subseteq CastsOf[w.order]
    /\ l = "book" =>
          /\ w.rest # {}
          /\ \A c \in CastsOf[w.order] \ w.rest : lock[c] = h
    /\ l \in {"count", "reward"} => \A u \in Members(w.order) : lock[u] = h
    /\ l = "reward" =>
          \A u \in Members(w.order) :
              /\ OrdersOf(u, w.done) = OrdersOf(u, Done \cup {w.order})
              /\ \A k \in OrderKinds : w.paid[k][u] = paid[k][u]
    /\ l \in Reviewing => w.order \in Orders /\ w.by \in Participants /\ w.of \in Participants

\* No order is settled twice.
OneSettles ==
    \A g, h \in Handlers : g # h /\ at[g] \in SettlingAt /\ at[h] \in SettlingAt
                              => work[g].order # work[h].order

\* Settlements have been paid for as the rules say.
OrdersPaid ==
    /\ \A u \in Participants : RightlyPaid(paid, u, Done)
    /\ \A c \in RewardCasts : CastMet(c)
    /\ \A g \in Guests : GuestMet(g)

\* Reviews of u that have been written and not yet paid for: none or one.
Unpaid(u) == IF \E h \in Handlers : at[h] = "payReview" /\ work[h].of = u THEN 1 ELSE 0

ReviewsPaid ==
    /\ \A u \in Participants :
          /\ reviews[u] = Cardinality({r \in reviewed : r[3] = u})
          /\ Unpaid(u) <= reviews[u]
          /\ paid["review"][u] = StepsUpTo(reviews[u] - Unpaid(u))
    /\ \A h \in Handlers : at[h] = "createReview" =>
          <<work[h].order, work[h].by, work[h].of>> \notin reviewed

RewardsIInv ==
    /\ RewardsTyped
    /\ \A h \in Handlers : RewardFacts(h, at[h], work[h])
    /\ OneSettles
    /\ faults = 0 => OrdersPaid
    /\ faults = 0 /\ ~overlapped => ReviewsPaid

LEMMA RewardsInitOK ==
  ASSUME HandlersInit, RewardsIdle
  PROVE  RewardsIInv
<1>1. at \in [Handlers -> RewardLabels] /\ Bounded /\ Sequential /\ \A h \in Handlers : at[h] = "idle"
  BY InitBounded DEF Idle, RewardLabels, HandlersInit
<1>2. settled = <<>> /\ Len(settled) = 0 /\ Done = {} /\ 1..0 = {}
  BY DEF RewardsIdle, Done
<1>3. NoWork \in WorkRows
  BY DEF NoWork, WorkRows
<1>4. /\ paid = [k \in Kinds |-> [u \in Participants |-> 0]] /\ reviews = [u \in Participants |-> 0]
      /\ patron = [c \in RewardCasts |-> "nobody"] /\ firstMet = [g \in Guests |-> "nobody"]
      /\ repeats = [c \in RewardCasts |-> 0] /\ reviewed = {}
      /\ lock = [u \in Participants |-> "free"] /\ work = [h \in Handlers |-> NoWork]
  BY DEF RewardsIdle
<1>5. RewardsTyped
  <2>1. settled \in Seq(Orders) /\ IsFiniteSet(Done) /\ IsFiniteSet(reviewed)
    BY <1>2, <1>4, FS_EmptySet
  <2>2. RewardRowsTyped
    BY <1>4, <2>1 DEF RewardRowsTyped, PaymentRows
  <2> QED
    BY <1>1, <1>3, <1>4, <2>2 DEF RewardsTyped
<1>6. \A k \in Kinds, u \in Participants : paid[k][u] = 0
  BY <1>4
<1>7. /\ \A k \in OrderKinds : k \in Kinds
      /\ {"steps", "turns", "inviterSteps", "inviterTurns", "inviterShares"} \subseteq Kinds
      /\ {"patron", "firstCast", "review"} \subseteq Kinds
  BY DEF OrderKinds, Kinds, InviterKinds
<1>8. Cardinality({}) = 0
  BY FS_EmptySet
<1>9. StepsUpTo(0) = 0 /\ TurnsUpTo(0) = 0 /\ SharesUpTo(0) = 0
  BY StepsGrow, TurnsGrow, RewardAssumption DEF SharesUpTo
<1>10. ASSUME NEW u \in Participants
       PROVE  RightlyPaid(paid, u, Done)
  <2>1. OrdersOf(u, Done) = {}
    BY <1>2 DEF OrdersOf
  <2>2. Turnover(u, Done) = 0
    BY <1>8, <2>1 DEF Turnover
  <2> QED
    BY <1>6, <1>7, <1>8, <1>9, <2>1, <2>2 DEF RightlyPaid
<1>11. ASSUME NEW c \in RewardCasts
       PROVE  CastMet(c)
  <2>1. OrdersWith(c, settled) = {} /\ Repeats(c, settled) = {}
    BY <1>2 DEF OrdersWith, Repeats
  <2>2. c \in Participants
    BY DEF Participants
  <2> QED
    BY <1>4, <1>6, <1>7, <1>8, <2>1, <2>2 DEF CastMet
<1>12. ASSUME NEW g \in Guests
       PROVE  GuestMet(g)
  <2>1. PrivateBy(g, settled) = {}
    BY <1>2 DEF PrivateBy
  <2>2. g \in Participants
    BY DEF Participants
  <2> QED
    BY <1>4, <1>6, <1>7, <2>1, <2>2 DEF GuestMet
<1>13. ReviewsPaid
  <2>1. \A u : Unpaid(u) = 0
    BY <1>1 DEF Unpaid
  <2>2. \A u : {r \in reviewed : r[3] = u} = {}
    BY <1>4
  <2>3. \A u \in Participants : reviews[u] = 0 /\ 0 - 0 = 0
    BY <1>4
  <2>4. \A u \in Participants : reviews[u] = Cardinality({r \in reviewed : r[3] = u})
    BY <1>8, <2>2, <2>3
  <2>5. \A u \in Participants :
           /\ Unpaid(u) <= reviews[u] /\ paid["review"][u] = StepsUpTo(reviews[u] - Unpaid(u))
    BY <1>6, <1>7, <1>9, <2>1, <2>3
  <2> QED
    BY <1>1, <2>4, <2>5 DEF ReviewsPaid
<1> QED
  BY <1>1, <1>5, <1>10, <1>11, <1>12, <1>13
     DEF RewardsIInv, OrdersPaid, OneSettles, RewardFacts, SettlingAt, Reviewing

\* A step of h that keeps what others have locked leaves them what they rely on.
LEMMA RewardMoves ==
  ASSUME RewardsIInv, NEW h \in Handlers, NEW l \in RewardLabels, HandlerStep(h, l),
         NEW w \in WorkRows, work' = [work EXCEPT ![h] = w], RewardRowsTyped',
         RewardFacts(h, l, w)',
         \/ l \notin SettlingAt
         \/ at[h] \in SettlingAt /\ w.order = work[h].order
         \/ \A g \in Handlers : work[g].order # w.order,
         \A m \in Done' \ Done : at[h] \in SettlingAt /\ m = work[h].order,
         \A g \in Handlers \ {h}, u \in Participants : lock[u] = g =>
            /\ lock'[u] = g /\ OrdersOf(u, Done') = OrdersOf(u, Done)
            /\ \A k \in OrderKinds : paid'[k][u] = paid[k][u],
         faults' = 0 /\ OrdersPaid => OrdersPaid',
         faults' = 0 /\ ~overlapped' /\ ReviewsPaid => ReviewsPaid'
  PROVE  RewardsIInv'
<1>1. /\ at' \in [Handlers -> RewardLabels] /\ Bounded' /\ Sequential' /\ MovesTo(h, l)
      /\ faults <= faults' /\ faults \in Nat /\ faults' \in Nat /\ (~overlapped' => ~overlapped)
  <2>1. at \in [Handlers -> RewardLabels] /\ Bounded /\ Sequential
    BY DEF RewardsIInv, RewardsTyped
  <2>2. /\ at' \in [Handlers -> RewardLabels] /\ Bounded' /\ Sequential' /\ MovesTo(h, l)
        /\ faults <= faults' /\ (~overlapped' => ~overlapped)
    BY <2>1, HandlerSteps
  <2> QED
    BY <2>1, <2>2 DEF Bounded
<1>2. /\ work' \in [Handlers -> WorkRows] /\ work'[h] = w /\ at'[h] = l
      /\ \A g \in Handlers \ {h} : work'[g] = work[g] /\ at'[g] = at[g]
  BY <1>1 DEF RewardsIInv, RewardsTyped, MovesTo
<1>3. RewardsTyped'
  BY <1>1, <1>2 DEF RewardsTyped
<1>4. ASSUME NEW g \in Handlers
      PROVE  RewardFacts(g, at[g], work[g])'
  <2>1. CASE g = h
    <3>1. RewardFacts(h, l, w)'
      OBVIOUS
    <3> QED
      BY <1>2, <2>1, <3>1 DEF RewardFacts
  <2>2. CASE g # h
    <3>1. PICK a, v : a = at[g] /\ v = work[g]
      OBVIOUS
    <3>2. at'[g] = a /\ work'[g] = v
      BY <1>2, <2>2, <3>1
    <3>3. RewardFacts(g, a, v)
      BY <3>1 DEF RewardsIInv
    <3>4. a \in SettlingAt => v.order \notin Done'
      <4>1. a \in SettlingAt /\ at[h] \in SettlingAt => v.order # work[h].order
        BY <2>2, <3>1 DEF RewardsIInv, OneSettles
      <4>2. a \in SettlingAt => v.order \notin Done
        BY <3>3 DEF RewardFacts
      <4> QED
        BY <4>1, <4>2
    <3>5. \A u \in Participants : lock[u] = g =>
            /\ lock'[u] = g /\ OrdersOf(u, Done') = OrdersOf(u, Done)
            /\ \A k \in OrderKinds : paid'[k][u] = paid[k][u]
      BY <2>2
    <3>6. a \in SettlingAt => v.order \in Orders /\ Members(v.order) \subseteq Participants
                             /\ CastsOf[v.order] \subseteq Participants
      BY <3>3, RewardAssumption DEF RewardFacts, Members, Participants
    <3>7. \A u \in Participants : lock[u] = g =>
             OrdersOf(u, Done' \cup {v.order}) = OrdersOf(u, Done \cup {v.order})
      BY <3>5 DEF OrdersOf
    <3>8. RewardFacts(g, a, v)'
      <4>1. a \in SettlingAt => v.order \in Orders \ Done' /\ v.rest \subseteq CastsOf[v.order]
        BY <3>3, <3>4 DEF RewardFacts
      <4>2. a = "book" => v.rest # {} /\ \A c \in CastsOf[v.order] \ v.rest : lock'[c] = g
        BY <3>3, <3>5, <3>6 DEF RewardFacts, SettlingAt
      <4>3. a \in {"count", "reward"} => \A u \in Members(v.order) : lock[u] = g /\ lock'[u] = g
        BY <3>3, <3>5, <3>6 DEF RewardFacts, SettlingAt
      <4>4. a = "reward" =>
              \A u \in Members(v.order) :
                  /\ OrdersOf(u, v.done) = OrdersOf(u, Done' \cup {v.order})
                  /\ \A k \in OrderKinds : v.paid[k][u] = paid'[k][u]
        <5> SUFFICES ASSUME a = "reward", NEW u \in Members(v.order)
                     PROVE  /\ OrdersOf(u, v.done) = OrdersOf(u, Done' \cup {v.order})
                            /\ \A k \in OrderKinds : v.paid[k][u] = paid'[k][u]
          OBVIOUS
        <5>1. u \in Participants /\ lock[u] = g
          BY <3>6, <4>3 DEF SettlingAt
        <5>2. /\ OrdersOf(u, v.done) = OrdersOf(u, Done \cup {v.order})
              /\ \A k \in OrderKinds : v.paid[k][u] = paid[k][u]
          BY <3>3 DEF RewardFacts
        <5> QED
          BY <3>5, <3>7, <5>1, <5>2
      <4>5. a \in Reviewing => v.order \in Orders /\ v.by \in Participants /\ v.of \in Participants
        BY <3>3 DEF RewardFacts
      <4> QED
        BY <4>1, <4>2, <4>3, <4>4, <4>5 DEF RewardFacts, OrdersOf
    <3> QED
      BY <3>2, <3>8 DEF RewardFacts
  <2> QED
    BY <2>1, <2>2
<1>5. OneSettles'
  <2> SUFFICES ASSUME NEW f \in Handlers, NEW g \in Handlers, f # g, at'[f] \in SettlingAt,
                      at'[g] \in SettlingAt, work'[f].order = work'[g].order
               PROVE  FALSE
    BY DEF OneSettles
  <2>1. \A e \in Handlers : e # h /\ at'[e] \in SettlingAt /\ at[h] \in SettlingAt
            => work'[e].order # work[h].order
    BY <1>2 DEF RewardsIInv, OneSettles
  <2>2. CASE f # h /\ g # h
    BY <1>2, <2>2 DEF RewardsIInv, OneSettles
  <2>3. CASE f = h \/ g = h
    BY <1>2, <2>1, <2>3
  <2> QED
    BY <2>2, <2>3
<1>6. faults' = 0 => OrdersPaid'
  BY <1>1 DEF RewardsIInv
<1>7. faults' = 0 /\ ~overlapped' => ReviewsPaid'
  BY <1>1 DEF RewardsIInv
<1> QED
  BY <1>3, <1>4, <1>5, <1>6, <1>7 DEF RewardsIInv

\* Where h neither writes nor pays a review, reviews stay as they were.
LEMMA ReviewsKept ==
  ASSUME RewardsIInv, NEW h \in Handlers, \A g \in Handlers \ {h} : at'[g] = at[g] /\ work'[g] = work[g],
         at[h] # "payReview", at'[h] \notin {"createReview", "payReview"},
         reviewed' = reviewed, reviews' = reviews,
         \A u \in Participants : paid'["review"][u] = paid["review"][u], ReviewsPaid
  PROVE  ReviewsPaid'
<1>1. \A u : Unpaid(u)' = Unpaid(u)
  BY DEF Unpaid
<1>2. \A g \in Handlers : at'[g] = "createReview" => g # h
  OBVIOUS
<1> QED
  BY <1>1, <1>2 DEF ReviewsPaid

\* A step of h that pays nothing, and settles and reviews nothing.
LEMMA RewardQuiet ==
  ASSUME RewardsIInv, NEW h \in Handlers, NEW l \in RewardLabels, HandlerStep(h, l),
         NEW w \in WorkRows, work' = [work EXCEPT ![h] = w], DOMAIN lock' = Participants,
         \A g \in Handlers \ {h}, u \in Participants : lock[u] = g => lock'[u] = g,
         PaymentsSame, ReviewsSame, settled' = settled, RewardFacts(h, l, w)',
         \/ l \notin SettlingAt
         \/ at[h] \in SettlingAt /\ w.order = work[h].order
         \/ \A g \in Handlers : work[g].order # w.order,
         faults' > 0 \/ at[h] # "payReview", l \notin {"createReview", "payReview"}
  PROVE  RewardsIInv'
<1>1. Done' = Done
  BY DEF Done
<1>2. RewardRowsTyped'
  BY <1>1 DEF RewardsIInv, RewardsTyped, RewardRowsTyped, PaymentsSame, ReviewsSame
<1>3. OrdersPaid => OrdersPaid'
  BY <1>1 DEF OrdersPaid, PaymentsSame, RightlyPaid, CastMet, GuestMet
<1>4. MovesTo(h, l)
  <2>1. at \in [Handlers -> RewardLabels] /\ Bounded /\ Sequential
    BY DEF RewardsIInv, RewardsTyped
  <2> QED
    BY <2>1, HandlerSteps
<1>5. ASSUME faults' = 0, ReviewsPaid PROVE ReviewsPaid'
  <2>1. at'[h] = l /\ \A g \in Handlers \ {h} : at'[g] = at[g] /\ work'[g] = work[g]
    BY <1>4 DEF MovesTo, RewardsIInv, RewardsTyped
  <2>2. faults' \in Int /\ ~(faults' > 0)
    BY <1>5
  <2> QED
    BY <1>5, <2>1, <2>2, ReviewsKept DEF PaymentsSame, ReviewsSame
<1>6. \A k, u : paid'[k][u] = paid[k][u]
  BY DEF PaymentsSame
<1>7. \A g \in Handlers \ {h}, u \in Participants : lock[u] = g =>
         /\ lock'[u] = g /\ OrdersOf(u, Done') = OrdersOf(u, Done)
         /\ \A k \in OrderKinds : paid'[k][u] = paid[k][u]
  BY <1>1, <1>6
<1>8. \A m \in Done' \ Done : at[h] \in SettlingAt /\ m = work[h].order
  BY <1>1
<1> QED
  BY <1>2, <1>3, <1>5, <1>7, <1>8, RewardMoves

\* What h commits is about members of its order, whose rows nobody else has locked.
LEMMA CommitTyped ==
  ASSUME RewardsIInv, NEW h \in Handlers, at[h] = "reward", NEW n \in 0..6, CommitRewards(h, n)
  PROVE  /\ RewardRowsTyped' /\ Done' = Done \cup {work[h].order}
         /\ work' = [work EXCEPT ![h] = NoWork]
         /\ \A g \in Handlers \ {h}, u \in Participants : lock[u] = g =>
               /\ lock'[u] = g /\ OrdersOf(u, Done') = OrdersOf(u, Done)
               /\ \A k \in OrderKinds : paid'[k][u] = paid[k][u]
<1>1. PICK w, m : w = work[h] /\ m = w.order
  OBVIOUS
<1>t. RewardRowsTyped /\ work[h] \in WorkRows
  BY DEF RewardsIInv, RewardsTyped
<1>2. /\ RewardFacts(h, "reward", w) /\ m \in Orders \ Done /\ \A u \in Members(m) : lock[u] = h
  BY <1>1 DEF RewardsIInv, RewardFacts, SettlingAt
<1>3. /\ settled' = Append(settled, m)
      /\ paid' = [k \in Kinds |-> [u \in Participants |-> paid[k][u] + Payouts(w, n, k, u)]]
      /\ RewardPatron(m, n)
      /\ firstMet' = [firstMet EXCEPT ![OwnerOf[m]] = IF n >= 5 THEN FirstCast(m) ELSE @]
      /\ UpdateCastRepeatCounts(w, n)
      /\ lock' = [u \in Participants |-> IF lock[u] = h THEN "free" ELSE lock[u]]
      /\ Work(h, NoWork) /\ ReviewsSame
  BY <1>1 DEF CommitRewards
<1>4. Done' = Done \cup {m} /\ settled' \in Seq(Orders)
  <2>1. PICK j : j = Len(settled)
    OBVIOUS
  <2>2. settled \in Seq(Orders)
    BY <1>t DEF RewardRowsTyped
  <2>3. /\ j \in Nat /\ Len(settled') = j + 1 /\ settled'[j + 1] = m /\ settled' \in Seq(Orders)
        /\ \A i \in 1..j : settled'[i] = settled[i]
        /\ 1..j + 1 = 1..j \cup {j + 1}
    BY <1>2, <1>3, <2>1, <2>2, Appended
  <2>4. Done' = {settled'[i] : i \in 1..j + 1} /\ Done = {settled[i] : i \in 1..j}
    BY <2>1, <2>3 DEF Done
  <2> QED
    BY <2>3, <2>4
<1>5. OwnerOf[m] \in Guests /\ CastsOf[m] \subseteq RewardCasts /\ CastsOf[m] # {}
  BY <1>2, RewardAssumption
<1>6. FirstCast(m) \in RewardCasts \cup {"nobody"}
  BY <1>5, <1>t DEF FirstCast, RewardRowsTyped
<1>7. \A u, k : u \notin Members(m) => Payouts(w, n, k, u) = 0
  BY <1>1, <1>5 DEF Payouts, Members
<1>8. ASSUME NEW k \in Kinds, NEW u \in Participants PROVE Payouts(w, n, k, u) \in Nat
  <2>1. \A x : StepDue(x) \in Nat
    BY DEF StepDue
  <2>2. u \in Members(m) => \A j \in OrderKinds : w.paid[j][u] = paid[j][u]
    BY <1>1, <1>2 DEF RewardFacts
  <2>3. u \in Members(m) => /\ IsFiniteSet(Done \cup {m})
                            /\ OrdersOf(u, w.done) = OrdersOf(u, Done \cup {m})
    BY <1>1, <1>2, <1>t, FS_AddElement DEF RewardFacts, RewardRowsTyped
  <2>4. u \in Members(m) => Turnover(u, w.done) \in Nat
    <3>1. Done \cup {m} \subseteq Orders
      BY <1>2, <1>t DEF RewardRowsTyped, Done
    <3>2. u \in Members(m) => Turnover(u, w.done) = Turnover(u, Done \cup {m})
      BY <2>3 DEF Turnover
    <3> QED
      BY <2>3, <3>1, <3>2, TurnoverGrows
  <2>5. \A t \in Nat, x \in Nat : TurnsDue(t, x) \in Nat
    <3> SUFFICES ASSUME NEW t \in Nat, NEW x \in Nat PROVE TurnsDue(t, x) \in Nat
      OBVIOUS
    <3>1. t \div TurnEach \in Nat
      BY RewardAssumption, Quotient
    <3>2. PICK b : b = t \div TurnEach
      OBVIOUS
    <3>3. IsFiniteSet(1..b) /\ {j \in 1..b : j > x /\ j <= TurnLimit} \subseteq 1..b
      BY <3>1, <3>2, FS_Interval
    <3> QED
      BY <3>2, <3>3, FS_Subset, FS_CardinalityType DEF TurnsDue
  <2>6. u \in Members(m) => \A j \in OrderKinds : Turns(w, j, u) \in Nat
    BY <2>2, <2>4, <2>5, <1>t DEF Turns, RewardRowsTyped, PaymentRows, OrderKinds
  <2>7. u \in Members(m) => Steps(w, u) \in Nat
    BY <2>1 DEF Steps
  <2>8. {"steps", "turns", "inviterSteps", "inviterTurns", "inviterShares"} \subseteq OrderKinds
    BY DEF OrderKinds, Kinds, InviterKinds
  <2>9. u \in Members(m) => \A j \in InviterKinds : InviterPayouts(w, j, u) \in Nat
    BY <2>6, <2>7, <2>8 DEF InviterPayouts, InviterKinds
  <2>10. CASE u \in Members(m)
    BY <2>6, <2>7, <2>8, <2>9, <2>10 DEF Payouts
  <2>11. CASE u \notin Members(m)
    BY <1>7, <2>11
  <2> QED
    BY <2>10, <2>11
<1>9. paid' \in PaymentRows
  BY <1>3, <1>8, <1>t DEF PaymentRows, RewardRowsTyped
<1>10. patron' \in [RewardCasts -> Guests \cup {"nobody"}]
  <2>1. patron \in [RewardCasts -> Guests \cup {"nobody"}]
    BY <1>t DEF RewardRowsTyped
  <2> QED
    BY <1>3, <1>5, <2>1 DEF RewardPatron
<1>11. firstMet' \in [Guests -> RewardCasts \cup {"nobody"}]
  BY <1>3, <1>6, <1>t DEF RewardRowsTyped
<1>12. repeats' \in [RewardCasts -> Nat]
  BY <1>3, <1>t DEF UpdateCastRepeatCounts, RewardRowsTyped
<1>13. RewardRowsTyped'
  <2>1. IsFiniteSet(Done') /\ DOMAIN lock' = Participants /\ IsFiniteSet(reviewed')
        /\ reviews' \in [Participants -> Nat]
    BY <1>3, <1>4, <1>t, FS_AddElement DEF RewardRowsTyped, ReviewsSame
  <2> QED
    BY <1>4, <1>9, <1>10, <1>11, <1>12, <2>1 DEF RewardRowsTyped
<1>14. ASSUME NEW g \in Handlers \ {h}, NEW u \in Participants, lock[u] = g
       PROVE  /\ lock'[u] = g /\ OrdersOf(u, Done') = OrdersOf(u, Done)
              /\ \A k \in OrderKinds : paid'[k][u] = paid[k][u]
  <2>1. u \notin Members(m)
    BY <1>2, <1>14
  <2>2. OrdersOf(u, Done') = OrdersOf(u, Done)
    BY <1>4, <2>1 DEF OrdersOf
  <2>3. \A k \in Kinds : paid[k][u] \in Nat /\ Payouts(w, n, k, u) = 0
    BY <1>7, <1>t, <2>1 DEF RewardRowsTyped, PaymentRows
  <2>4. \A k \in Kinds : paid'[k][u] = paid[k][u]
    BY <1>3, <2>3
  <2> QED
    BY <1>3, <1>14, <2>2, <2>4 DEF OrderKinds
<1> QED
  BY <1>1, <1>3, <1>4, <1>13, <1>14 DEF Work

\* All six interactors ran: everybody has been paid for one order more.
LEMMA CommitPays ==
  ASSUME RewardsIInv, NEW h \in Handlers, at[h] = "reward", CommitRewards(h, 6), OrdersPaid
  PROVE  OrdersPaid'
<1>1. PICK w, m : w = work[h] /\ m = w.order
  OBVIOUS
<1>t. RewardRowsTyped /\ work[h] \in WorkRows
  BY DEF RewardsIInv, RewardsTyped
<1>2. /\ RewardFacts(h, "reward", w) /\ m \in Orders \ Done
  BY <1>1 DEF RewardsIInv, RewardFacts, SettlingAt
<1>3. /\ settled' = Append(settled, m)
      /\ paid' = [k \in Kinds |-> [u \in Participants |-> paid[k][u] + Payouts(w, 6, k, u)]]
      /\ RewardPatron(m, 6)
      /\ firstMet' = [firstMet EXCEPT ![OwnerOf[m]] = FirstCast(m)]
      /\ UpdateCastRepeatCounts(w, 6)
  BY <1>1 DEF CommitRewards
<1>4. Done' = Done \cup {m} /\ RewardRowsTyped'
  BY <1>1, CommitTyped
<1>5. settled \in Seq(Orders) /\ Done \in SUBSET Orders /\ IsFiniteSet(Done)
  BY <1>t DEF RewardRowsTyped, Done
<1>6. OwnerOf[m] \in Guests /\ CastsOf[m] \subseteq RewardCasts /\ CastsOf[m] # {}
      /\ "nobody" \notin Guests
  BY <1>2, RewardAssumption DEF Participants
<1>7. \A k \in Kinds, u \in Participants : paid'[k][u] = paid[k][u] + Payouts(w, 6, k, u)
  BY <1>3
<1>8. ASSUME NEW u \in Participants
      PROVE  RightlyPaid(paid', u, Done')
  <2>1. RightlyPaid(paid, u, Done)
    BY DEF OrdersPaid
  <2>2. \A k \in OrderKinds : paid'[k][u] = paid[k][u] + Payouts(w, 6, k, u)
    BY <1>7 DEF OrderKinds
  <2>3. u \in Members(m) => OrdersOf(u, w.done) = OrdersOf(u, Done \cup {m})
    BY <1>1, <1>2 DEF RewardFacts
  <2>4. u \in Members(m) => \A k \in OrderKinds : w.paid[k][u] = paid[k][u]
    BY <1>1, <1>2 DEF RewardFacts
  <2> QED
    BY <1>1, <1>2, <1>4, <1>5, <2>1, <2>2, <2>3, <2>4, PaidOn
<1>9. ASSUME NEW c \in RewardCasts
      PROVE  CastMet(c)'
  <2>1. CastMet(c) /\ paid["patron"][c] \in Nat /\ c \in Participants
    BY <1>t DEF OrdersPaid, RewardRowsTyped, PaymentRows, Kinds, Participants
  <2>2. patron[c] = "nobody" <=> patron[c] \notin Guests
    BY <1>6, <1>t DEF RewardRowsTyped
  <2>3. \/ patron'[c] = patron[c]
        \/ patron[c] = "nobody" /\ c \in CastsOf[m] /\ patron'[c] = OwnerOf[m]
    BY <1>3, <1>t DEF RewardPatron, New, RewardRowsTyped
  <2>4. patron[c] = "nobody" /\ CastsOf[m] = {c} => patron'[c] = OwnerOf[m]
    <3> SUFFICES ASSUME patron[c] = "nobody", CastsOf[m] = {c} PROVE patron'[c] = OwnerOf[m]
      OBVIOUS
    <3>1. New(m) = {c}
      BY DEF New
    <3> QED
      BY <1>3, <1>t, <3>1 DEF RewardPatron, RewardRowsTyped
  <2>5. \/ paid'["patron"][c] = paid["patron"][c]
        \/ /\ paid'["patron"][c] = paid["patron"][c] + 1
           /\ c \in CastsOf[m] /\ patron[c] # "nobody"
    <3>1. paid'["patron"][c] = paid["patron"][c] + Payouts(w, 6, "patron", c)
      BY <1>7, <2>1 DEF Kinds
    <3>2. Payouts(w, 6, "patron", c) = IF c \in CastsOf[m] /\ New(m) = {} THEN 1 ELSE 0
      BY <1>1 DEF Payouts, InviterKinds
    <3>3. c \in CastsOf[m] /\ New(m) = {} => patron[c] # "nobody"
      BY DEF New
    <3> QED
      BY <2>1, <3>1, <3>2, <3>3
  <2>6. repeats'[c] = repeats[c] + IF m \in Private /\ c \in CastsOf[m] /\
                         (\E j \in OrdersWith(c, settled) :
                             settled[j] \in Private /\ OwnerOf[settled[j]] = OwnerOf[m])
                       THEN 1 ELSE 0
    <3>1. repeats'[c] = repeats[c] +
              IF m \in Private /\ c \in CastsOf[m] /\
                 {e \in (Private \cap w.done) \ {m} :
                     OwnerOf[e] = OwnerOf[m] /\ CastsOf[e] = CastsOf[m]} # {}
              THEN 1 ELSE 0
      BY <1>1, <1>3 DEF UpdateCastRepeatCounts
    <3>2. ASSUME m \in Private, c \in CastsOf[m]
          PROVE  {e \in (Private \cap w.done) \ {m} :
                     OwnerOf[e] = OwnerOf[m] /\ CastsOf[e] = CastsOf[m]} # {}
                 <=> \E j \in OrdersWith(c, settled) :
                        settled[j] \in Private /\ OwnerOf[settled[j]] = OwnerOf[m]
      <4>1. PICK g : g = OwnerOf[m]
        OBVIOUS
      <4>2. OrdersOf(g, w.done) = OrdersOf(g, Done \cup {m})
        BY <1>1, <1>2, <4>1 DEF RewardFacts, Members
      <4>3. \A e \in Private : OwnerOf[e] = g => (e \in w.done <=> e \in Done \cup {m})
        BY <4>2 DEF OrdersOf, Members
      <4>4. CastsOf[m] = {c} /\ \A e \in Private : c \in CastsOf[e] <=> CastsOf[e] = {c}
        BY <3>2, PrivateCast
      <4>5. {e \in (Private \cap w.done) \ {m} :
                     OwnerOf[e] = OwnerOf[m] /\ CastsOf[e] = CastsOf[m]}
              = {e \in Private \cap Done : OwnerOf[e] = g /\ c \in CastsOf[e]}
        BY <1>2, <4>1, <4>3, <4>4
      <4>6. {e \in Private \cap Done : OwnerOf[e] = g /\ c \in CastsOf[e]} # {}
              <=> \E j \in OrdersWith(c, settled) : settled[j] \in Private /\ OwnerOf[settled[j]] = g
        BY DEF Done, OrdersWith
      <4> QED
        BY <4>1, <4>5, <4>6
    <3> QED
      BY <3>1, <3>2
  <2> QED
    BY <1>2, <1>3, <1>5, <2>1, <2>3, <2>4, <2>5, <2>6, CastMeets
<1>10. ASSUME NEW g \in Guests
       PROVE  GuestMet(g)'
  <2>1. GuestMet(g) /\ paid["firstCast"][g] \in Nat /\ g \in Participants
    BY <1>t DEF OrdersPaid, RewardRowsTyped, PaymentRows, Kinds, Participants
  <2>2. paid'["firstCast"][g] = paid["firstCast"][g]
            + IF g = OwnerOf[m] /\ FirstCast(m) # "nobody" THEN 1 ELSE 0
    <3>1. paid'["firstCast"][g] = paid["firstCast"][g] + Payouts(w, 6, "firstCast", g)
      BY <1>7, <2>1 DEF Kinds
    <3>2. Payouts(w, 6, "firstCast", g) = IF g = OwnerOf[m] /\ FirstCast(m) # "nobody" THEN 1 ELSE 0
      BY <1>1 DEF Payouts, InviterKinds
    <3> QED
      BY <3>1, <3>2
  <2>3. /\ OwnerOf[m] # g => firstMet'[g] = firstMet[g]
        /\ OwnerOf[m] = g => firstMet'[g] = FirstCast(m)
    BY <1>3, <1>t DEF RewardRowsTyped
  <2>4. /\ OwnerOf[m] # g =>
              firstMet'[g] = firstMet[g] /\ paid'["firstCast"][g] = paid["firstCast"][g]
        /\ OwnerOf[m] = g =>
              /\ firstMet'[g] = FirstCast(m)
              /\ paid'["firstCast"][g] =
                    paid["firstCast"][g] + IF FirstCast(m) # "nobody" THEN 1 ELSE 0
    BY <2>1, <2>2, <2>3
  <2>5. settled' = Append(settled, m) /\ settled \in Seq(Orders) /\ m \in Orders
    BY <1>2, <1>3, <1>5
  <2> QED
    BY <2>1, <2>4, <2>5, GuestMeets
<1> QED
  BY <1>8, <1>9, <1>10 DEF OrdersPaid, RightlyPaid, OrdersOf, Turnover

LEMMA RewardsNextOK ==
  ASSUME RewardsIInv, [RewardsNext]_<<handlerVars, rewardVars>>
  PROVE  RewardsIInv'
<1>t. /\ at \in [Handlers -> RewardLabels] /\ Bounded /\ Sequential /\ RewardRowsTyped
      /\ work \in [Handlers -> WorkRows] /\ DOMAIN lock = Participants
      /\ faults \in Nat /\ "free" \notin Handlers
  BY RewardAssumption DEF RewardsIInv, RewardsTyped, RewardRowsTyped, Bounded
<1>n. NoWork \in WorkRows /\ "idle" \in RewardLabels /\ "idle" \notin SettlingAt
  BY DEF NoWork, WorkRows, RewardLabels, SettlingAt
<1>i. ASSUME NEW h \in Handlers
      PROVE  RewardFacts(h, "idle", NoWork)'
  BY DEF RewardFacts, SettlingAt, Reviewing
<1>1. ASSUME NEW h \in Handlers, CompleteMeeting(h)
      PROVE  RewardsIInv'
  <2>1. PICK m \in Orders \ Done : /\ \A g \in Handlers : work[g].order # m
                                   /\ Work(h, [NoWork EXCEPT !.order = m, !.rest = CastsOf[m]])
    BY <1>1 DEF CompleteMeeting
  <2>2. PICK w : w = [NoWork EXCEPT !.order = m, !.rest = CastsOf[m]]
    OBVIOUS
  <2>3. CastsOf[m] \subseteq RewardCasts /\ CastsOf[m] # {}
    BY RewardAssumption
  <2>4. /\ w \in WorkRows /\ w.order = m /\ w.rest = CastsOf[m] /\ work' = [work EXCEPT ![h] = w]
    BY <2>1, <2>2, <2>3 DEF WorkRows, NoWork, Work
  <2>5. /\ HandlerStep(h, "book") /\ "book" \in RewardLabels /\ at[h] = "idle"
        /\ PaymentsSame /\ ReviewsSame /\ settled' = settled /\ lock' = lock
    BY <1>1 DEF CompleteMeeting, HandlerStep, RewardLabels, Begin, Deliver
  <2>6. RewardFacts(h, "book", w)'
    BY <2>3, <2>4, <2>5 DEF RewardFacts, SettlingAt, Reviewing, Done
  <2> QED
    BY <1>t, <2>1, <2>4, <2>5, <2>6, RewardQuiet
<1>2. ASSUME NEW h \in Handlers, CreateMeetingTransactions(h)
      PROVE  RewardsIInv'
  <2>1. PICK m, v : v = work[h] /\ m = v.order
    OBVIOUS
  <2>2. at[h] = "book" /\ v \in WorkRows /\ RewardFacts(h, "book", v)
    BY <1>2, <1>t, <2>1 DEF CreateMeetingTransactions, RewardsIInv
  <2>3. PICK c \in v.rest :
          /\ Mine(h, OwnerOf[m]) /\ Mine(h, c)
          /\ lock' = [lock EXCEPT ![OwnerOf[m]] = h, ![c] = h]
          /\ Work(h, [work[h] EXCEPT !.rest = @ \ {c}])
          /\ Continue(h, IF v.rest = {c} THEN "count" ELSE "book")
    BY <1>2, <2>1 DEF CreateMeetingTransactions
  <2>4. PICK w, l : w = [work[h] EXCEPT !.rest = @ \ {c}] /\ l = IF v.rest = {c} THEN "count" ELSE "book"
    OBVIOUS
  <2>5. w \in WorkRows /\ w.order = m /\ w.rest = v.rest \ {c} /\ work' = [work EXCEPT ![h] = w]
    BY <1>t, <2>1, <2>2, <2>3, <2>4 DEF WorkRows, Work
  <2>6. /\ m \in Orders \ Done /\ OwnerOf[m] \in Participants /\ c \in Participants
        /\ CastsOf[m] \subseteq Participants /\ v.rest \subseteq CastsOf[m]
        /\ \A d \in CastsOf[m] \ v.rest : lock[d] = h
    BY <2>1, <2>2, RewardAssumption DEF RewardFacts, SettlingAt, Participants
  <2>7. /\ DOMAIN lock' = Participants /\ lock'[OwnerOf[m]] = h /\ lock'[c] = h
        /\ \A d \in CastsOf[m] \ w.rest : lock'[d] = h
        /\ \A u \in Participants : lock'[u] # lock[u] => lock[u] \in {h, "free"}
    BY <1>t, <2>3, <2>5, <2>6 DEF Mine
  <2>8. \A g \in Handlers \ {h}, u \in Participants : lock[u] = g => lock'[u] = g
    BY <1>t, <2>7
  <2>9. /\ HandlerStep(h, l) /\ l \in {"book", "count"} /\ l \in RewardLabels
        /\ PaymentsSame /\ ReviewsSame /\ settled' = settled
        /\ at[h] \in SettlingAt /\ l \notin {"createReview", "payReview"} /\ at[h] # "payReview"
    BY <1>2, <2>2, <2>3, <2>4 DEF CreateMeetingTransactions, HandlerStep, RewardLabels, SettlingAt
  <2>10. RewardFacts(h, l, w)'
    <3>1. m \notin Done' /\ w.rest \subseteq CastsOf[m]
      BY <2>5, <2>6, <2>9 DEF Done
    <3>2. l = "book" => w.rest # {}
      BY <2>3, <2>4, <2>5
    <3>3. l = "count" => \A u \in Members(m) : lock'[u] = h
      BY <2>4, <2>5, <2>6, <2>7 DEF Members
    <3> QED
      BY <2>5, <2>6, <2>7, <2>9, <3>1, <3>2, <3>3 DEF RewardFacts, Reviewing
  <2> QED
    BY <2>1, <2>5, <2>7, <2>8, <2>9, <2>10, RewardQuiet
<1>3. ASSUME NEW h \in Handlers, CountOrders(h)
      PROVE  RewardsIInv'
  <2>1. PICK m, v, w : /\ v = work[h] /\ m = v.order
                       /\ w = [work[h] EXCEPT !.done = Done \cup {work[h].order}, !.paid = paid]
    OBVIOUS
  <2>2. at[h] = "count" /\ v \in WorkRows /\ RewardFacts(h, "count", v)
    BY <1>3, <1>t, <2>1 DEF CountOrders, RewardsIInv
  <2>3. /\ m \in Orders \ Done /\ v.rest \subseteq CastsOf[m] /\ \A u \in Members(m) : lock[u] = h
    BY <2>1, <2>2 DEF RewardFacts, SettlingAt
  <2>4. Done \subseteq Orders /\ paid \in PaymentRows
    BY <1>t DEF RewardRowsTyped, Done
  <2>5. /\ w \in WorkRows /\ w.order = m /\ w.rest = v.rest /\ w.done = Done \cup {m} /\ w.paid = paid
        /\ work' = [work EXCEPT ![h] = w]
    BY <1>3, <2>1, <2>2, <2>3, <2>4 DEF WorkRows, Work, CountOrders
  <2>6. /\ HandlerStep(h, "reward") /\ "reward" \in RewardLabels
        /\ PaymentsSame /\ ReviewsSame /\ settled' = settled /\ lock' = lock
        /\ at[h] \in SettlingAt /\ at[h] # "payReview"
    BY <1>3, <2>2 DEF CountOrders, HandlerStep, RewardLabels, SettlingAt
  <2>7. RewardFacts(h, "reward", w)'
    <3>1. Done' = Done /\ paid' = paid
      BY <2>6 DEF Done, PaymentsSame
    <3> QED
      BY <2>3, <2>5, <2>6, <3>1 DEF RewardFacts, Reviewing
  <2> QED
    BY <1>t, <2>1, <2>5, <2>6, <2>7, RewardQuiet
<1>4. ASSUME NEW h \in Handlers, Reward(h) \/ RewardRaises(h)
      PROVE  RewardsIInv'
  <2>1. PICK n \in 0..6 : CommitRewards(h, n) /\ (faults' > 0 \/ n = 6)
    BY <1>4, <1>t DEF Reward, RewardRaises, Refused
  <2>2. at[h] = "reward" /\ HandlerStep(h, "idle")
    BY <1>4 DEF Reward, RewardRaises, HandlerStep, End
  <2>3. /\ RewardRowsTyped' /\ Done' = Done \cup {work[h].order}
        /\ work' = [work EXCEPT ![h] = NoWork]
        /\ \A g \in Handlers \ {h}, u \in Participants : lock[u] = g =>
              /\ lock'[u] = g /\ OrdersOf(u, Done') = OrdersOf(u, Done)
              /\ \A k \in OrderKinds : paid'[k][u] = paid[k][u]
    BY <2>1, <2>2, CommitTyped
  <2>4. faults' = 0 /\ OrdersPaid => OrdersPaid'
    BY <2>1, <2>2, CommitPays
  <2>5. MovesTo(h, "idle")
    BY <1>n, <1>t, <2>2, HandlerSteps
  <2>6. ASSUME ReviewsPaid PROVE ReviewsPaid'
    <3>1. at'[h] = "idle" /\ \A g \in Handlers \ {h} : at'[g] = at[g] /\ work'[g] = work[g]
      BY <2>3, <2>5, <1>t DEF MovesTo
    <3>2. reviewed' = reviewed /\ reviews' = reviews
      BY <2>1 DEF CommitRewards, ReviewsSame
    <3>3. ASSUME NEW u \in Participants PROVE paid'["review"][u] = paid["review"][u]
      <4>1. PICK w : w = work[h]
        OBVIOUS
      <4>2. paid'["review"][u] = paid["review"][u] + Payouts(w, n, "review", u)
        BY <2>1, <3>3, <4>1 DEF CommitRewards, Kinds
      <4>3. Payouts(w, n, "review", u) = 0
        BY DEF Payouts, InviterKinds
      <4>4. paid["review"][u] \in Nat
        BY <1>t DEF RewardRowsTyped, PaymentRows, Kinds
      <4> QED
        BY <4>2, <4>3, <4>4
    <3> QED
      BY <2>2, <2>6, <3>1, <3>2, <3>3, ReviewsKept
  <2>7. \A m \in Done' \ Done : at[h] \in SettlingAt /\ m = work[h].order
    BY <2>2, <2>3 DEF SettlingAt
  <2> QED
    BY <1>i, <1>n, <2>2, <2>3, <2>4, <2>6, <2>7, RewardMoves
<1>5. ASSUME NEW h \in Handlers, SettlementAborted(h) \/ RewardDie(h)
      PROVE  RewardsIInv'
  <2>1. /\ HandlerStep(h, "idle") /\ work' = [work EXCEPT ![h] = NoWork]
        /\ PaymentsSame /\ ReviewsSame /\ settled' = settled
        /\ lock' = [u \in Participants |-> IF lock[u] = h THEN "free" ELSE lock[u]]
    BY <1>5 DEF SettlementAborted, WaitsFor, RewardDone, RewardDie, Die, HandlerStep, End, Work
  <2>2. faults' > 0 \/ at[h] # "payReview"
    BY <1>5, <1>t DEF SettlementAborted, WaitsFor, RewardDie, Die, Refused
  <2>3. /\ DOMAIN lock' = Participants
        /\ \A g \in Handlers \ {h}, u \in Participants : lock[u] = g => lock'[u] = g
    BY <2>1
  <2> QED
    BY <1>i, <1>n, <2>1, <2>2, <2>3, RewardQuiet
<1>6. ASSUME NEW h \in Handlers, Review(h)
      PROVE  RewardsIInv'
  <2>0. PICK m \in Done : \E r, u \in Members(m) :
           Work(h, [NoWork EXCEPT !.order = m, !.by = r, !.of = u])
    BY <1>6 DEF Review
  <2>1. PICK r \in Members(m), u \in Members(m) :
           Work(h, [NoWork EXCEPT !.order = m, !.by = r, !.of = u])
    BY <2>0
  <2>2. PICK w : w = [NoWork EXCEPT !.order = m, !.by = r, !.of = u]
    OBVIOUS
  <2>3. m \in Orders
    BY <1>t DEF Done, RewardRowsTyped
  <2>4. r \in Participants /\ u \in Participants
    BY <2>3, RewardAssumption DEF Members, Participants
  <2>5. /\ w \in WorkRows /\ w.order = m /\ w.by = r /\ w.of = u /\ work' = [work EXCEPT ![h] = w]
    BY <2>1, <2>2, <2>3, <2>4 DEF WorkRows, NoWork, Work
  <2>6. /\ HandlerStep(h, "findReview") /\ "findReview" \in RewardLabels /\ "findReview" \notin SettlingAt
        /\ PaymentsSame /\ ReviewsSame /\ settled' = settled /\ lock' = lock /\ at[h] # "payReview"
    BY <1>6 DEF Review, HandlerStep, RewardLabels, Begin, Deliver, SettlingAt
  <2>7. RewardFacts(h, "findReview", w)'
    BY <2>3, <2>4, <2>5 DEF RewardFacts, SettlingAt
  <2> QED
    BY <1>t, <2>5, <2>6, <2>7, RewardQuiet
<1>7. ASSUME NEW h \in Handlers, FindReview(h)
      PROVE  RewardsIInv'
  <2>1. PICK w : w = work[h]
    OBVIOUS
  <2>2. /\ at[h] = "findReview" /\ w \in WorkRows /\ RewardFacts(h, "findReview", w)
        /\ PaymentsSame /\ ReviewsSame /\ settled' = settled
    BY <1>7, <1>t, <2>1 DEF FindReview, RewardsIInv
  <2>3. CASE RewardDone(h)
    <3>1. /\ HandlerStep(h, "idle") /\ work' = [work EXCEPT ![h] = NoWork]
          /\ lock' = [u \in Participants |-> IF lock[u] = h THEN "free" ELSE lock[u]]
      BY <2>2, <2>3 DEF RewardDone, HandlerStep, End, Work
    <3>2. /\ DOMAIN lock' = Participants
          /\ \A g \in Handlers \ {h}, u \in Participants : lock[u] = g => lock'[u] = g
      BY <3>1
    <3> QED
      BY <1>i, <1>n, <2>2, <3>1, <3>2, RewardQuiet
  <2>4. CASE <<w.order, w.by, w.of>> \notin reviewed
    <3>1. /\ HandlerStep(h, "createReview") /\ "createReview" \in RewardLabels
          /\ "createReview" \notin SettlingAt /\ work' = work /\ lock' = lock
      BY <1>7, <2>1, <2>2, <2>4 DEF FindReview, HandlerStep, RewardLabels, SettlingAt
    <3>2. work' = [work EXCEPT ![h] = w]
      BY <1>t, <2>1, <3>1
    <3>3. Done' = Done /\ RewardRowsTyped'
      BY <1>t, <2>2, <3>1 DEF Done, RewardRowsTyped, PaymentsSame, ReviewsSame
    <3>4. OrdersPaid => OrdersPaid'
      BY <2>2, <3>3 DEF OrdersPaid, PaymentsSame, RightlyPaid, CastMet, GuestMet
    <3>5. RewardFacts(h, "createReview", w)'
      BY <2>2 DEF RewardFacts, SettlingAt, Reviewing
    <3>6. MovesTo(h, "createReview")
      BY <1>t, <3>1, HandlerSteps
    <3>7. ASSUME ReviewsPaid PROVE ReviewsPaid'
      <4>1. at'[h] = "createReview" /\ \A g \in Handlers \ {h} : at'[g] = at[g]
        BY <3>6 DEF MovesTo
      <4>2. \A u : Unpaid(u)' = Unpaid(u)
        BY <2>2, <3>1, <4>1 DEF Unpaid
      <4>3. reviewed' = reviewed /\ reviews' = reviews /\ paid' = paid
        BY <2>2 DEF PaymentsSame, ReviewsSame
      <4>4. \A g \in Handlers : at'[g] = "createReview" =>
               <<work'[g].order, work'[g].by, work'[g].of>> \notin reviewed'
        BY <2>1, <2>4, <3>1, <3>7, <4>1, <4>3 DEF ReviewsPaid
      <4> QED
        BY <3>7, <4>2, <4>3, <4>4 DEF ReviewsPaid
    <3>8. \A g \in Handlers \ {h}, u \in Participants : lock[u] = g =>
            /\ lock'[u] = g /\ OrdersOf(u, Done') = OrdersOf(u, Done)
            /\ \A k \in OrderKinds : paid'[k][u] = paid[k][u]
      BY <2>2, <3>1, <3>3 DEF PaymentsSame
    <3>9. \A m \in Done' \ Done : at[h] \in SettlingAt /\ m = work[h].order
      BY <3>3
    <3> QED
      BY <2>2, <3>1, <3>2, <3>3, <3>4, <3>5, <3>7, <3>8, <3>9, RewardMoves
  <2> QED
    BY <1>7, <2>1, <2>3, <2>4 DEF FindReview
<1>8. ASSUME NEW h \in Handlers, CreateReview(h)
      PROVE  RewardsIInv'
  <2>1. PICK w, u, r : w = work[h] /\ u = w.of /\ r = <<w.order, w.by, w.of>>
    OBVIOUS
  <2>2. /\ at[h] = "createReview" /\ w \in WorkRows /\ RewardFacts(h, "createReview", w)
        /\ PaymentsSame /\ settled' = settled /\ work' = work /\ lock' = lock
        /\ reviewed' = reviewed \cup {r} /\ reviews' = [reviews EXCEPT ![u] = @ + 1]
    BY <1>8, <1>t, <2>1 DEF CreateReview, RewardsIInv
  <2>3. u \in Participants /\ r[3] = u
    BY <2>1, <2>2 DEF RewardFacts, Reviewing
  <2>4. /\ HandlerStep(h, "payReview") /\ "payReview" \in RewardLabels /\ "payReview" \notin SettlingAt
    BY <1>8, <2>2 DEF CreateReview, HandlerStep, RewardLabels, SettlingAt
  <2>5. work' = [work EXCEPT ![h] = w]
    BY <1>t, <2>1, <2>2
  <2>6. Done' = Done /\ RewardRowsTyped'
    <3>1. IsFiniteSet(reviewed') /\ reviews' \in [Participants -> Nat]
      <4>1. IsFiniteSet(reviewed) /\ reviews \in [Participants -> Nat]
        BY <1>t DEF RewardRowsTyped
      <4>2. IsFiniteSet(reviewed')
        BY <2>2, <4>1, FS_AddElement
      <4> QED
        BY <2>2, <2>3, <4>1, <4>2
    <3> QED
      BY <1>t, <2>2, <3>1 DEF Done, RewardRowsTyped, PaymentsSame
  <2>7. OrdersPaid => OrdersPaid'
    BY <2>2, <2>6 DEF OrdersPaid, PaymentsSame, RightlyPaid, CastMet, GuestMet
  <2>8. RewardFacts(h, "payReview", w)'
    BY <2>2 DEF RewardFacts, SettlingAt, Reviewing
  <2>9. ASSUME ~overlapped', ReviewsPaid PROVE ReviewsPaid'
    <3>1. MovesTo(h, "payReview") /\ \A g \in Handlers \ {h} : at[g] = "idle" /\ at'[g] = "idle"
      BY <1>t, <2>4, <2>9, HandlerSteps
    <3>2. \A x : Unpaid(x) = 0 /\ Unpaid(x)' = IF x = u THEN 1 ELSE 0
      BY <2>1, <2>2, <3>1 DEF Unpaid, MovesTo
    <3>3. r \notin reviewed
      BY <2>1, <2>2, <2>9 DEF ReviewsPaid
    <3>4. ASSUME NEW x \in Participants
          PROVE  reviews'[x] = Cardinality({y \in reviewed' : y[3] = x})
      <4>1. PICK R : R = {y \in reviewed : y[3] = x}
        OBVIOUS
      <4>2. IsFiniteSet(R) /\ r \notin R /\ reviews[x] = Cardinality(R)
        BY <1>t, <2>9, <3>3, <4>1, FS_Subset DEF RewardRowsTyped, ReviewsPaid
      <4>3. {y \in reviewed' : y[3] = x} = IF x = u THEN R \cup {r} ELSE R
        BY <2>2, <2>3, <4>1
      <4>4. Cardinality(R \cup {r}) = Cardinality(R) + 1
        BY <4>2, FS_AddElement
      <4>5. reviews'[x] = IF x = u THEN reviews[x] + 1 ELSE reviews[x]
        BY <1>t, <2>2, <2>3 DEF RewardRowsTyped
      <4> QED
        BY <4>2, <4>3, <4>4, <4>5
    <3>5. ASSUME NEW x \in Participants
          PROVE  /\ Unpaid(x)' <= reviews'[x]
                 /\ paid'["review"][x] = StepsUpTo(reviews'[x] - Unpaid(x)')
      <4>1. reviews[x] \in Nat /\ reviews'[x] = IF x = u THEN reviews[x] + 1 ELSE reviews[x]
        BY <1>t, <2>2, <2>3 DEF RewardRowsTyped
      <4>2. paid["review"][x] = StepsUpTo(reviews[x])
        <5>1. paid["review"][x] = StepsUpTo(reviews[x] - Unpaid(x))
          BY <2>9 DEF ReviewsPaid
        <5>2. reviews[x] - Unpaid(x) = reviews[x]
          BY <3>2, <4>1
        <5> QED
          BY <5>1, <5>2
      <4>3. reviews'[x] - Unpaid(x)' = reviews[x] /\ Unpaid(x)' <= reviews'[x]
        BY <3>2, <4>1
      <4> QED
        BY <2>2, <4>2, <4>3 DEF PaymentsSame
    <3>6. \A g \in Handlers : at'[g] # "createReview"
      BY <3>1 DEF MovesTo
    <3> QED
      BY <3>4, <3>5, <3>6 DEF ReviewsPaid
  <2>10. \A g \in Handlers \ {h}, x \in Participants : lock[x] = g =>
           /\ lock'[x] = g /\ OrdersOf(x, Done') = OrdersOf(x, Done)
           /\ \A k \in OrderKinds : paid'[k][x] = paid[k][x]
    BY <2>2, <2>6 DEF PaymentsSame
  <2>11. \A m \in Done' \ Done : at[h] \in SettlingAt /\ m = work[h].order
    BY <2>6
  <2> QED
    BY <2>2, <2>4, <2>5, <2>6, <2>7, <2>8, <2>9, <2>10, <2>11, RewardMoves
<1>9. ASSUME NEW h \in Handlers, RewardForReviews(h)
      PROVE  RewardsIInv'
  <2>1. PICK w, u : w = work[h] /\ u = w.of
    OBVIOUS
  <2>2. /\ at[h] = "payReview" /\ RewardFacts(h, "payReview", w) /\ RewardDone(h) /\ ReviewsSame
        /\ UNCHANGED <<settled, patron, firstMet, repeats>>
        /\ paid' = [paid EXCEPT !["review"][u] = @ + StepDue(reviews[u])]
    BY <1>9, <2>1 DEF RewardForReviews, RewardsIInv
  <2>3. u \in Participants /\ StepDue(reviews[u]) \in Nat /\ "review" \in Kinds
    BY <2>2, <2>1 DEF RewardFacts, Reviewing, StepDue, Kinds
  <2>4. /\ HandlerStep(h, "idle") /\ work' = [work EXCEPT ![h] = NoWork]
        /\ lock' = [x \in Participants |-> IF lock[x] = h THEN "free" ELSE lock[x]]
    BY <2>2 DEF RewardDone, HandlerStep, End, Work
  <2>5. paid \in PaymentRows
    BY <1>t DEF RewardRowsTyped
  <2>6. /\ paid' \in PaymentRows /\ \A k \in OrderKinds : paid'[k] = paid[k]
        /\ \A x \in Participants :
             paid'["review"][x] = paid["review"][x] + IF x = u THEN StepDue(reviews[u]) ELSE 0
    BY <2>2, <2>3, <2>5 DEF PaymentRows, OrderKinds
  <2>7. Done' = Done /\ RewardRowsTyped'
    BY <1>t, <2>2, <2>4, <2>6 DEF Done, RewardRowsTyped, ReviewsSame
  <2>8. OrdersPaid => OrdersPaid'
    <3>1. {"steps", "turns", "inviterSteps", "inviterTurns", "inviterShares", "patron", "firstCast"}
            \subseteq OrderKinds
      BY DEF OrderKinds, Kinds, InviterKinds
    <3>2. \A x : RightlyPaid(paid, x, Done) => RightlyPaid(paid', x, Done')
      BY <2>6, <2>7, <3>1 DEF RightlyPaid
    <3>3. /\ \A c : CastMet(c) => CastMet(c)'
          /\ \A g : GuestMet(g) => GuestMet(g)'
      BY <2>2, <2>6, <3>1 DEF CastMet, GuestMet
    <3> QED
      BY <2>7, <3>2, <3>3 DEF OrdersPaid, RightlyPaid
  <2>9. ASSUME ~overlapped', ReviewsPaid PROVE ReviewsPaid'
    <3>1. MovesTo(h, "idle") /\ \A g \in Handlers \ {h} : at[g] = "idle" /\ at'[g] = "idle"
      BY <1>n, <1>t, <2>4, <2>9, HandlerSteps
    <3>2. \A x : Unpaid(x)' = 0 /\ Unpaid(x) = IF x = u THEN 1 ELSE 0
      BY <2>1, <2>2, <3>1 DEF Unpaid, MovesTo
    <3>3. ASSUME NEW x \in Participants
          PROVE  /\ Unpaid(x)' <= reviews'[x]
                 /\ paid'["review"][x] = StepsUpTo(reviews'[x] - Unpaid(x)')
      <4>1. reviews[x] \in Nat /\ reviews'[x] = reviews[x]
        BY <1>t, <2>2 DEF RewardRowsTyped, ReviewsSame
      <4>2. Unpaid(x) <= reviews[x] /\ paid["review"][x] = StepsUpTo(reviews[x] - Unpaid(x))
        BY <2>9 DEF ReviewsPaid
      <4>3. Unpaid(x)' <= reviews'[x] /\ reviews'[x] - Unpaid(x)' = reviews[x]
        BY <3>2, <4>1
      <4>4. paid'["review"][x] = StepsUpTo(reviews[x])
        <5>1. CASE x = u
          <6>1. PICK n : n = reviews[u] - 1
            OBVIOUS
          <6>2. n \in Nat /\ reviews[u] = n + 1 /\ paid["review"][u] = StepsUpTo(n)
            BY <3>2, <4>1, <4>2, <5>1, <6>1
          <6>3. StepsUpTo(n + 1) = StepsUpTo(n) + StepDue(n + 1)
            BY <6>2, StepsGrow
          <6> QED
            BY <2>6, <5>1, <6>2, <6>3
        <5>2. CASE x # u
          <6>1. paid["review"][x] = StepsUpTo(reviews[x])
            BY <3>2, <4>1, <4>2, <5>2
          <6>2. paid["review"][x] \in Nat
            BY <2>3, <2>5 DEF PaymentRows
          <6> QED
            BY <2>6, <5>2, <6>1, <6>2
        <5> QED
          BY <5>1, <5>2
      <4> QED
        BY <4>3, <4>4
    <3>4. \A g \in Handlers : at'[g] # "createReview"
      BY <3>1 DEF MovesTo
    <3>5. \A x \in Participants : reviews'[x] = Cardinality({y \in reviewed' : y[3] = x})
      BY <2>2, <2>9 DEF ReviewsPaid, ReviewsSame
    <3> QED
      BY <3>3, <3>4, <3>5 DEF ReviewsPaid
  <2>10. \A g \in Handlers \ {h}, x \in Participants : lock[x] = g =>
           /\ lock'[x] = g /\ OrdersOf(x, Done') = OrdersOf(x, Done)
           /\ \A k \in OrderKinds : paid'[k][x] = paid[k][x]
    BY <2>4, <2>6, <2>7
  <2>11. \A m \in Done' \ Done : at[h] \in SettlingAt /\ m = work[h].order
    BY <2>7
  <2> QED
    BY <1>i, <1>n, <2>4, <2>7, <2>8, <2>9, <2>10, <2>11, RewardMoves
<1>10. CASE UNCHANGED <<handlerVars, rewardVars>>
  <2>1. Bounded' /\ Sequential'
    BY <1>10, <1>t, StillSequential
  <2>2. /\ at' = at /\ faults' = faults /\ overlapped' = overlapped /\ settled' = settled
        /\ lock' = lock /\ paid' = paid /\ patron' = patron /\ firstMet' = firstMet
        /\ repeats' = repeats /\ reviewed' = reviewed /\ reviews' = reviews /\ work' = work
    BY <1>10 DEF handlerVars, rewardVars
  <2>3. Done' = Done
    BY <2>2 DEF Done
  <2>4. RewardsTyped'
    BY <2>1, <2>2, <2>3 DEF RewardsIInv, RewardsTyped, RewardRowsTyped
  <2>5. \A h \in Handlers : RewardFacts(h, at[h], work[h])'
    BY <2>2, <2>3 DEF RewardsIInv, RewardFacts
  <2>6. OneSettles' /\ (OrdersPaid => OrdersPaid')
    BY <2>2, <2>3 DEF RewardsIInv, OneSettles, OrdersPaid, RightlyPaid, CastMet, GuestMet
  <2>7. ReviewsPaid => ReviewsPaid'
    BY <2>2 DEF ReviewsPaid, Unpaid
  <2> QED
    BY <2>2, <2>4, <2>5, <2>6, <2>7 DEF RewardsIInv
<1> QED
  BY <1>1, <1>2, <1>3, <1>4, <1>5, <1>6, <1>7, <1>8, <1>9, <1>10 DEF RewardsNext

\* The counts of the invariant are those of the property.
LEMMA RewardsIInvPaid == RewardsIInv => RewardsFollowRules
<1> SUFFICES ASSUME RewardsIInv, faults = 0
             PROVE  /\ \A u \in Participants : RightlyPaid(paid, u, Done)
                    /\ Undisturbed => \A u \in Participants :
                          /\ paid["review"][u] = StepsUpTo(reviews[u])
                          /\ reviews[u] = Cardinality({r \in reviewed : r[3] = u})
                    /\ FirstMeetingsCount
  BY DEF RewardsFollowRules, RightlyPaid
<1>1. OrdersPaid
  BY DEF RewardsIInv
<1>2. FirstMeetingsCount
  <2>1. ASSUME NEW c \in RewardCasts
        PROVE  LET mine == Places(LAMBDA m : c \in CastsOf[m])
               IN  /\ patron[c] # "nobody" => \E i \in mine : OwnerOf[settled[i]] = patron[c]
                   /\ \A i \in mine : (\A j \in mine : i <= j) /\ CastsOf[settled[i]] = {c}
                                         => patron[c] = OwnerOf[settled[i]]
                   /\ mine # {} => paid["patron"][c] < Cardinality(mine)
                   /\ repeats[c] = Cardinality({i \in mine : settled[i] \in Private /\
                         \E j \in mine : j < i /\ settled[j] \in Private
                                          /\ OwnerOf[settled[j]] = OwnerOf[settled[i]]})
    <3>1. CastMet(c)
      BY <1>1 DEF OrdersPaid
    <3> QED
      BY <3>1 DEF CastMet, Places, OrdersWith, Repeats, Follows
  <2>2. ASSUME NEW g \in Guests
        PROVE  LET private == Places(LAMBDA m : OwnerOf[m] = g /\ m \in Private)
                   since   == Places(LAMBDA m : OwnerOf[m] = g)
               IN  /\ (firstMet[g] = "nobody") = (private = {})
                   /\ \A i \in private : (\A j \in private : i <= j) =>
                         /\ CastsOf[settled[i]] = {firstMet[g]}
                         /\ paid["firstCast"][g] = Cardinality({j \in since : j >= i})
    <3>1. GuestMet(g)
      BY <1>1 DEF OrdersPaid
    <3> QED
      BY <3>1 DEF GuestMet, Places, PrivateBy, OrdersBy
  <2> QED
    BY <2>1, <2>2 DEF FirstMeetingsCount
<1>3. ASSUME Undisturbed, NEW u \in Participants
      PROVE  /\ paid["review"][u] = StepsUpTo(reviews[u])
             /\ reviews[u] = Cardinality({r \in reviewed : r[3] = u})
  <2>1. ReviewsPaid /\ \A h \in Handlers : at[h] = "idle"
    BY <1>3 DEF Undisturbed, AtRest, Idle, RewardsIInv
  <2>2. Unpaid(u) = 0
    BY <2>1 DEF Unpaid
  <2>3. reviews[u] \in Nat
    BY DEF RewardsIInv, RewardsTyped, RewardRowsTyped
  <2> QED
    BY <2>1, <2>2, <2>3 DEF ReviewsPaid
<1> QED
  BY <1>1, <1>2, <1>3 DEF OrdersPaid
-----------------------------------------------------------------------------
(* Posts and likes *)

PostLabels == {"idle", "like", "unlike", "destroy", "pay"}

PostsTyped ==
    /\ at \in [Handlers -> PostLabels] /\ faults \in Nat
    /\ slot \in Nat \ {0}
    /\ author \in [PostIds -> Posters \cup {"none", "gone"}]
    /\ postedAt \in [PostIds -> Nat]
    /\ likedAt \in [Posters \X PostIds -> Nat]
    /\ likes \in [PostIds -> Int]
    /\ counted \in [LikingCasts \X PostIds -> Nat]
    /\ earned \in [LikingCasts -> Nat]
    /\ due \in [Handlers -> [LikingCasts -> Nat]]
    /\ about \in [Handlers -> [user : Posters \cup {"nobody"}, post : PostIds \cup {1}]]

\* What a handler at l knows of a: only guests take a like back.
PostFacts(l, a) ==
    /\ l \in {"like", "unlike", "destroy"} => a.post \in PostIds
    /\ l = "like" => a.user \in Posters
    /\ l = "unlike" => a.user \in LikingGuests

PostsUnderWay ==
    \A h \in Handlers : PostFacts(at[h], about[h]) /\ (at[h] # "pay" => due[h] = NothingDue)

\* Likes are given in the past, to posts there are, and a run is for a day that is over.
PastLikes ==
    /\ \A u \in Posters, p \in PostIds :
          likedAt[<<u, p>>] <= slot /\ (author[p] = "none" => likedAt[<<u, p>>] = 0)
    /\ \A c \in LikingCasts, p \in PostIds : author[p] = "none" => counted[<<c, p>>] = 0
    /\ \A n \in collected : n < slot /\ \E k \in Nat : n = DayLength * k

\* The three parts of LikePaidOnce.
CountedOnce ==
    \A c \in LikingCasts, p \in PostIds : author[p] \in Posters =>
        counted[<<c, p>>] = IF likedAt[<<c, p>>] > 0 /\ Young(c, p)
                               /\ Midnight(likedAt[<<c, p>>]) \in collected THEN 1 ELSE 0

DueTo(c) == [h \in Handlers |-> due[h][c]]

EarnedAsCounted ==
    \A c \in LikingCasts :
        earned[c] + SumOver(DueTo(c), Handlers) = CreditsPerLike * Cardinality(CountedBy(c))

LikesShown == \A p \in PostIds : likes[p] = Cardinality({u \in Posters : likedAt[<<u, p>>] > 0})

PostsIInv ==
    /\ PostsTyped /\ PostsUnderWay /\ PastLikes /\ LikesShown
    /\ faults = 0 => CountedOnce /\ EarnedAsCounted

LEMMA PostSets ==
  /\ IsFiniteSet(Posters) /\ IsFiniteSet(PostIds) /\ IsFiniteSet(Handlers)
  /\ "none" \notin Posters /\ "gone" \notin Posters
  /\ LikingCasts \subseteq Posters /\ LikingGuests \subseteq Posters
  /\ LikingCasts \cap LikingGuests = {}
  /\ DayLength \in Nat /\ DayLength > 1 /\ CreditsPerLike \in Nat
<1>1. IsFiniteSet(PostIds)
  BY HandlerBoundAssumption, FS_Interval DEF PostIds
<1> QED
  BY <1>1, PostsAssumption DEF Posters

\* A like belongs to the midnight that ends its day.
LEMMA MidnightIs ==
  ASSUME NEW t \in Nat \ {0}, NEW k \in Nat
  PROVE  Midnight(t) = DayLength * k <=> DayLength * k - DayLength < t /\ t <= DayLength * k
<1>1. PICK d, x, q : d = DayLength /\ x = t + DayLength - 1 /\ q = x \div d
  OBVIOUS
<1>2. d \in Nat \ {0} /\ x \in Nat
  BY <1>1, PostSets
<1>3. q \in Nat /\ \A j \in Nat : j * d <= x <=> j <= q
  BY <1>1, <1>2, Quotient, QuotientIsLargest
<1>4. Midnight(t) = d * q
  BY <1>1 DEF Midnight
<1>5. d * k \in Nat /\ d * q \in Nat /\ (k + 1) * d = d * k + d /\ k * d = d * k /\ q * d = d * q
  BY <1>2, <1>3
<1>6. ASSUME d * q = d * k PROVE q = k
  <2>1. q < k => d * (q + 1) <= d * k
    BY <1>2, <1>3, ProductGrows
  <2>2. k < q => d * (k + 1) <= d * q
    BY <1>2, <1>3, ProductGrows
  <2>3. d * (q + 1) = d * q + d /\ d * (k + 1) = d * k + d
    BY <1>2, <1>3
  <2> QED
    BY <1>2, <1>3, <1>5, <1>6, <2>1, <2>2, <2>3
<1>7. q = k <=> k * d <= x /\ ~((k + 1) * d <= x)
  BY <1>3
<1>8. (k * d <= x /\ ~((k + 1) * d <= x)) <=> (d * k - d < t /\ t <= d * k)
  BY <1>1, <1>2, <1>5
<1> QED
  BY <1>1, <1>4, <1>6, <1>7, <1>8

LEMMA MidnightNotBefore ==
  ASSUME NEW t \in Nat \ {0}
  PROVE  t <= Midnight(t)
<1>1. PICK q : q = (t + DayLength - 1) \div DayLength
  OBVIOUS
<1>2. t + DayLength - 1 \in Nat /\ DayLength \in Nat \ {0}
  BY PostSets
<1>3. q \in Nat
  BY <1>1, <1>2, Quotient
<1>4. Midnight(t) = DayLength * q
  BY <1>1 DEF Midnight
<1> QED
  BY <1>3, <1>4, MidnightIs

LEMMA PostsInitOK ==
  ASSUME HandlersInit, PostsIdle
  PROVE  PostsIInv
<1>1. /\ at = [h \in Handlers |-> "idle"] /\ faults = 0
  BY DEF HandlersInit, Idle
<1>2. /\ author = [p \in PostIds |-> "none"] /\ postedAt = [p \in PostIds |-> 0]
      /\ likedAt = [x \in Posters \X PostIds |-> 0] /\ likes = [p \in PostIds |-> 0]
      /\ counted = [x \in LikingCasts \X PostIds |-> 0] /\ earned = NothingDue
      /\ due = [h \in Handlers |-> NothingDue] /\ about = [h \in Handlers |-> NotAbout]
      /\ collected = {} /\ slot = 1
  BY DEF PostsIdle
<1>3. NothingDue \in [LikingCasts -> Nat]
      /\ NotAbout \in [user : Posters \cup {"nobody"}, post : PostIds \cup {1}]
  BY DEF NothingDue, NotAbout
<1>4. PostsTyped
  BY <1>1, <1>2, <1>3 DEF PostsTyped, PostLabels
<1>5. PostsUnderWay
  BY <1>1, <1>2 DEF PostsUnderWay, PostFacts
<1>6. PastLikes
  BY <1>2, PostSets DEF PastLikes
<1>7. Cardinality({}) = 0
  BY FS_EmptySet
<1>8. LikesShown
  <2>1. \A p \in PostIds : {u \in Posters : likedAt[<<u, p>>] > 0} = {}
    BY <1>2
  <2> QED
    BY <1>2, <1>7, <2>1 DEF LikesShown
<1>9. CountedOnce
  BY <1>2, PostSets DEF CountedOnce
<1>10. EarnedAsCounted
  <2> SUFFICES ASSUME NEW c \in LikingCasts
               PROVE  earned[c] + SumOver(DueTo(c), Handlers) = CreditsPerLike * Cardinality(CountedBy(c))
    BY DEF EarnedAsCounted
  <2>1. CountedBy(c) = {}
    BY <1>2 DEF CountedBy
  <2>2. \A h \in Handlers : DueTo(c)[h] = 0
    BY <1>2 DEF DueTo, NothingDue
  <2>3. SumOver(DueTo(c), Handlers) = 0
    BY <2>2, PostSets, SumZero
  <2>4. earned[c] = 0 /\ CreditsPerLike * 0 = 0
    BY <1>2, PostSets DEF NothingDue
  <2> QED
    BY <1>7, <2>1, <2>3, <2>4
<1> QED
  BY <1>4, <1>5, <1>6, <1>8, <1>9, <1>10 DEF PostsIInv

-----------------------------------------------------------------------------
(* What the steps have in common *)

AboutPosts == [user : Posters \cup {"nobody"}, post : PostIds \cup {1}]

\* A handler goes to a statement.
LEMMA PostsMove ==
  ASSUME PostsTyped, NEW h \in Handlers, NEW l \in PostLabels,
         Begin(h, l) \/ Deliver(h, l) \/ Continue(h, l) \/ Refused(h, l)
  PROVE  /\ at' \in [Handlers -> PostLabels] /\ MovesTo(h, l) /\ faults' \in Nat
         /\ Begin(h, l) \/ Deliver(h, l) => at[h] = "idle" /\ faults' = faults
         /\ Continue(h, l) => faults' = faults
         /\ Refused(h, l) => faults' # 0
<1>1. /\ at' = [at EXCEPT ![h] = l]
      /\ faults' = faults \/ faults' = faults + 1
      /\ Refused(h, l) => faults' = faults + 1
      /\ Continue(h, l) => faults' = faults
      /\ Begin(h, l) \/ Deliver(h, l) => at[h] = "idle" /\ faults' = faults
  BY DEF Begin, Deliver, Continue, Refused, Goto
<1>2. at \in [Handlers -> PostLabels] /\ faults \in Nat
  BY DEF PostsTyped
<1> QED
  BY <1>1, <1>2 DEF MovesTo

LEMMA RegardsPosts ==
  ASSUME PostsTyped, NEW h \in Handlers, NEW u \in Posters \cup {"nobody"},
         NEW p \in PostIds \cup {1}, Regard(h, u, p)
  PROVE  /\ about' \in [Handlers -> AboutPosts]
         /\ about'[h].user = u /\ about'[h].post = p
         /\ \A g \in Handlers \ {h} : about'[g] = about[g]
<1>1. about' = [about EXCEPT ![h] = [user |-> u, post |-> p]] /\ about \in [Handlers -> AboutPosts]
  BY DEF Regard, PostsTyped, AboutPosts
<1>2. [user |-> u, post |-> p] \in AboutPosts
  BY DEF AboutPosts
<1> QED
  BY <1>1, <1>2

\* The handler that moves knows what it needs, and the others know what they knew.
LEMMA PostsStillUnderWay ==
  ASSUME PostsUnderWay, NEW h \in Handlers, NEW l, MovesTo(h, l),
         \A g \in Handlers \ {h} : about'[g] = about[g] /\ due'[g] = due[g],
         PostFacts(l, about'[h]), l # "pay" => due'[h] = NothingDue
  PROVE  PostsUnderWay'
BY DEF PostsUnderWay, PostFacts, MovesTo, NothingDue

LEMMA SameLikes ==
  ASSUME UNCHANGED <<likedAt, likes>>
  PROVE  LikesShown => LikesShown'
BY DEF LikesShown

LEMMA SameCounts ==
  ASSUME UNCHANGED <<author, postedAt, likedAt, collected, counted>>
  PROVE  CountedOnce => CountedOnce'
BY DEF CountedOnce, Young

LEMMA SamePay ==
  ASSUME UNCHANGED <<counted, earned, due>>
  PROVE  EarnedAsCounted => EarnedAsCounted'
BY DEF EarnedAsCounted, CountedBy, DueTo

\* The handler takes up a job or ends, and no post, like or reward changes.
LEMMA OnlyHandlersMove ==
  ASSUME PostsIInv, NEW h \in Handlers, NEW l \in PostLabels, at' \in [Handlers -> PostLabels],
         faults' \in Nat, faults' = 0 => faults = 0, MovesTo(h, l),
         about' \in [Handlers -> AboutPosts],
         \A g \in Handlers \ {h} : about'[g] = about[g],
         PostFacts(l, about'[h]), l # "pay" => due[h] = NothingDue,
         TimelineSame, RewardSame, slot' = slot
  PROVE  PostsIInv'
<1>1. /\ author' = author /\ postedAt' = postedAt /\ likedAt' = likedAt /\ likes' = likes
      /\ collected' = collected /\ counted' = counted /\ earned' = earned /\ due' = due
  BY DEF TimelineSame, RewardSame
<1>2. PostsTyped'
  BY <1>1 DEF PostsIInv, PostsTyped, AboutPosts
<1>3. PostsUnderWay'
  BY <1>1, PostsStillUnderWay DEF PostsIInv
<1>4. PastLikes'
  BY <1>1 DEF PostsIInv, PastLikes
<1> QED
  BY <1>1, <1>2, <1>3, <1>4, SameLikes, SameCounts, SamePay DEF PostsIInv

-----------------------------------------------------------------------------
(* Posts and likes *)

LEMMA CreatePostOK ==
  ASSUME PostsIInv, NEW h \in Handlers, CreatePost(h)
  PROVE  PostsIInv'
<1>1. PICK u \in Posters, p \in PostIds :
         /\ author[p] = "none"
         /\ author' = [author EXCEPT ![p] = u] /\ postedAt' = [postedAt EXCEPT ![p] = slot]
  BY DEF CreatePost
<1>2. /\ likedAt' = likedAt /\ likes' = likes /\ about' = about /\ slot' = slot
      /\ collected' = collected /\ counted' = counted /\ earned' = earned /\ due' = due
  BY DEF CreatePost, RewardSame
<1>3. PostsTyped /\ PostsUnderWay /\ PastLikes /\ LikesShown
  BY DEF PostsIInv
<1>4. /\ at' \in [Handlers -> PostLabels] /\ MovesTo(h, "idle") /\ faults' \in Nat
      /\ at[h] = "idle" /\ faults' = faults
  BY <1>3, PostsMove DEF CreatePost, PostLabels
<1>5. PostsTyped'
  BY <1>1, <1>2, <1>3, <1>4 DEF PostsTyped
<1>6. PostsUnderWay'
  BY <1>2, <1>3, <1>4, PostsStillUnderWay DEF PostsUnderWay, PostFacts
<1>7. PastLikes'
  BY <1>1, <1>2, <1>3, PostSets DEF PastLikes, PostsTyped
<1>8. LikesShown'
  BY <1>2, <1>3, SameLikes
<1>9. ASSUME CountedOnce PROVE CountedOnce'
  <2>1. \A c \in LikingCasts : counted[<<c, p>>] = 0 /\ likedAt[<<c, p>>] <= 0 + 0
    BY <1>1, <1>3, PostSets DEF PastLikes
  <2>2. \A c \in LikingCasts : ~(likedAt[<<c, p>>] > 0)
    BY <2>1, <1>3, PostSets DEF PostsTyped
  <2>3. \A q \in PostIds \ {p} : author'[q] = author[q] /\ postedAt'[q] = postedAt[q]
    BY <1>1, <1>3 DEF PostsTyped
  <2> QED
    BY <1>2, <1>9, <2>1, <2>2, <2>3 DEF CountedOnce, Young
<1> QED
  BY <1>2, <1>4, <1>5, <1>6, <1>7, <1>8, <1>9, SamePay DEF PostsIInv

LEMMA LikePostOK ==
  ASSUME PostsIInv, NEW h \in Handlers, LikePost(h)
  PROVE  PostsIInv'
<1>1. PICK u \in Posters, p \in Shown : Regard(h, u, p)
  BY DEF LikePost
<1>2. p \in PostIds
  BY DEF Shown
<1>3. PostsTyped /\ Begin(h, "like") /\ TimelineSame /\ RewardSame /\ slot' = slot /\ "like" \in PostLabels
  BY DEF PostsIInv, LikePost, PostLabels
<1>4. /\ at' \in [Handlers -> PostLabels] /\ MovesTo(h, "like") /\ faults' \in Nat
      /\ at[h] = "idle" /\ faults' = faults
  BY <1>3, PostsMove
<1>5. /\ about' \in [Handlers -> AboutPosts] /\ about'[h].user = u /\ about'[h].post = p
      /\ \A g \in Handlers \ {h} : about'[g] = about[g]
  BY <1>1, <1>2, <1>3, RegardsPosts
<1>6. PostFacts("like", about'[h])
  BY <1>2, <1>5 DEF PostFacts
<1>7. due[h] = NothingDue
  BY <1>4 DEF PostsIInv, PostsUnderWay
<1> QED
  BY <1>3, <1>4, <1>5, <1>6, <1>7, OnlyHandlersMove

LEMMA UnlikePostOK ==
  ASSUME PostsIInv, NEW h \in Handlers, UnlikePost(h)
  PROVE  PostsIInv'
<1>1. PICK u \in LikingGuests, p \in Shown : Regard(h, u, p)
  BY DEF UnlikePost
<1>2. p \in PostIds /\ u \in Posters
  BY PostSets DEF Shown
<1>3. PostsTyped /\ Begin(h, "unlike") /\ TimelineSame /\ RewardSame /\ slot' = slot
      /\ "unlike" \in PostLabels
  BY DEF PostsIInv, UnlikePost, PostLabels
<1>4. /\ at' \in [Handlers -> PostLabels] /\ MovesTo(h, "unlike") /\ faults' \in Nat
      /\ at[h] = "idle" /\ faults' = faults
  BY <1>3, PostsMove
<1>5. /\ about' \in [Handlers -> AboutPosts] /\ about'[h].user = u /\ about'[h].post = p
      /\ \A g \in Handlers \ {h} : about'[g] = about[g]
  BY <1>1, <1>2, <1>3, RegardsPosts
<1>6. PostFacts("unlike", about'[h])
  BY <1>2, <1>5 DEF PostFacts
<1>7. due[h] = NothingDue
  BY <1>4 DEF PostsIInv, PostsUnderWay
<1> QED
  BY <1>3, <1>4, <1>5, <1>6, <1>7, OnlyHandlersMove

LEMMA DestroyPostOK ==
  ASSUME PostsIInv, NEW h \in Handlers, DestroyPost(h)
  PROVE  PostsIInv'
<1>1. PICK p \in Shown : Regard(h, author[p], p)
  BY DEF DestroyPost
<1>2. p \in PostIds /\ author[p] \in Posters
  BY DEF Shown
<1>3. PostsTyped /\ Begin(h, "destroy") /\ TimelineSame /\ RewardSame /\ slot' = slot
      /\ "destroy" \in PostLabels
  BY DEF PostsIInv, DestroyPost, PostLabels
<1>4. /\ at' \in [Handlers -> PostLabels] /\ MovesTo(h, "destroy") /\ faults' \in Nat
      /\ at[h] = "idle" /\ faults' = faults
  BY <1>3, PostsMove
<1>5. /\ about' \in [Handlers -> AboutPosts] /\ about'[h].post = p
      /\ \A g \in Handlers \ {h} : about'[g] = about[g]
  BY <1>1, <1>2, <1>3, RegardsPosts
<1>6. PostFacts("destroy", about'[h])
  BY <1>2, <1>5 DEF PostFacts
<1>7. due[h] = NothingDue
  BY <1>4 DEF PostsIInv, PostsUnderWay
<1> QED
  BY <1>3, <1>4, <1>5, <1>6, <1>7, OnlyHandlersMove

\* A handler that ends knows nothing.
LEMMA PostDoneMoves ==
  ASSUME PostsTyped, NEW h \in Handlers, PostDone(h)
  PROVE  /\ at' \in [Handlers -> PostLabels] /\ MovesTo(h, "idle") /\ faults' \in Nat
         /\ faults' = faults /\ about' \in [Handlers -> AboutPosts]
         /\ \A g \in Handlers \ {h} : about'[g] = about[g]
         /\ PostFacts("idle", about'[h])
<1>1. Continue(h, "idle") /\ Regard(h, "nobody", 1) /\ "idle" \in PostLabels
  BY DEF PostDone, End, PostLabels
<1>2. at' \in [Handlers -> PostLabels] /\ MovesTo(h, "idle") /\ faults' \in Nat /\ faults' = faults
  BY <1>1, PostsMove
<1>3. /\ about' \in [Handlers -> AboutPosts]
      /\ \A g \in Handlers \ {h} : about'[g] = about[g]
  BY <1>1, RegardsPosts
<1> QED
  BY <1>2, <1>3 DEF PostFacts

LEMMA CreateLikeOK ==
  ASSUME PostsIInv, NEW h \in Handlers, CreateLike(h)
  PROVE  PostsIInv'
<1>1. PICK u, p : u = about[h].user /\ p = about[h].post
  OBVIOUS
<1>2. at[h] = "like" /\ PostDone(h) /\ RewardSame /\ slot' = slot /\ author' = author
      /\ postedAt' = postedAt
  BY DEF CreateLike
<1>3. PostsTyped /\ PostsUnderWay /\ PastLikes /\ LikesShown
  BY DEF PostsIInv
<1>4. u \in Posters /\ p \in PostIds /\ due[h] = NothingDue
  BY <1>1, <1>2, <1>3 DEF PostsUnderWay, PostFacts
<1>5. /\ at' \in [Handlers -> PostLabels] /\ MovesTo(h, "idle") /\ faults' \in Nat
      /\ faults' = faults /\ about' \in [Handlers -> AboutPosts]
      /\ \A g \in Handlers \ {h} : about'[g] = about[g]
      /\ PostFacts("idle", about'[h])
  BY <1>2, <1>3, PostDoneMoves
<1>6. collected' = collected /\ counted' = counted /\ earned' = earned /\ due' = due
  BY <1>2 DEF RewardSame
<1>7. CASE UNCHANGED <<likedAt, likes>>
  <2>1. TimelineSame
    BY <1>2, <1>7 DEF TimelineSame
  <2>2. "idle" \in PostLabels
    BY DEF PostLabels
  <2> QED
    BY <1>2, <1>4, <1>5, <2>1, <2>2, OnlyHandlersMove
<1>8. CASE /\ p \in Shown /\ likedAt[<<u, p>>] = 0
           /\ likedAt' = [likedAt EXCEPT ![<<u, p>>] = slot]
           /\ likes' = [likes EXCEPT ![p] = @ + 1]
  <2>1. likedAt \in [Posters \X PostIds -> Nat] /\ likes \in [PostIds -> Int] /\ slot \in Nat \ {0}
    BY <1>3 DEF PostsTyped
  <2>t. likedAt' \in [Posters \X PostIds -> Nat] /\ likes' \in [PostIds -> Int]
    <3>1. PICK D, x : D = Posters \X PostIds /\ x = <<u, p>>
      OBVIOUS
    <3>2. likedAt \in [D -> Nat] /\ likedAt' = [likedAt EXCEPT ![x] = slot]
      BY <1>8, <2>1, <3>1
    <3>3. likedAt' \in [D -> Nat]
      BY <2>1, <3>2
    <3>4. likes' \in [PostIds -> Int]
      BY <1>4, <1>8, <2>1
    <3> QED
      BY <3>1, <3>3, <3>4
  <2>2. PostsTyped'
    BY <1>2, <1>3, <1>5, <1>6, <2>t DEF PostsTyped, AboutPosts
  <2>3. PostsUnderWay'
    BY <1>3, <1>4, <1>5, <1>6, PostsStillUnderWay
  <2>4. author[p] # "none"
    BY <1>8, PostSets DEF Shown
  <2>5. \A v \in Posters, q \in PostIds :
           likedAt'[<<v, q>>] = IF v = u /\ q = p THEN slot ELSE likedAt[<<v, q>>]
    BY <1>4, <1>8, <2>1
  <2>6. PastLikes'
    BY <1>2, <1>3, <1>6, <2>1, <2>4, <2>5 DEF PastLikes
  <2>7. LikesShown'
    <3> SUFFICES ASSUME NEW q \in PostIds
                 PROVE  likes'[q] = Cardinality({v \in Posters : likedAt'[<<v, q>>] > 0})
      BY DEF LikesShown
    <3>1. PICK S : S = {v \in Posters : likedAt[<<v, q>>] > 0}
      OBVIOUS
    <3>2. likes[q] = Cardinality(S)
      BY <1>3, <3>1 DEF LikesShown
    <3>3. CASE q = p
      <4>1. {v \in Posters : likedAt'[<<v, q>>] > 0} = S \cup {u}
        BY <1>4, <2>1, <2>5, <3>1, <3>3
      <4>2. u \notin S
        BY <1>8, <3>1, <3>3
      <4>3. IsFiniteSet(S)
        BY <3>1, PostSets, FS_Subset
      <4>4. Cardinality(S \cup {u}) = Cardinality(S) + 1
        BY <4>2, <4>3, FS_AddElement
      <4>5. likes'[p] = likes[p] + 1
        BY <1>4, <1>8, <2>1
      <4> QED
        BY <3>2, <3>3, <4>1, <4>4, <4>5
    <3>4. CASE q # p
      <4>1. {v \in Posters : likedAt'[<<v, q>>] > 0} = S
        BY <2>5, <3>1, <3>4
      <4>2. likes'[q] = likes[q]
        BY <1>8, <2>1, <3>4
      <4> QED
        BY <3>2, <4>1, <4>2
    <3> QED
      BY <3>3, <3>4
  <2>8. ASSUME CountedOnce PROVE CountedOnce'
    <3>1. slot <= Midnight(slot)
      BY <2>1, MidnightNotBefore
    <3>2. Midnight(slot) \notin collected
      BY <1>3, <2>1, <3>1, PostSets DEF PastLikes
    <3>3. u \in LikingCasts => counted[<<u, p>>] = 0
      BY <1>4, <1>8, <2>8 DEF CountedOnce, Shown
    <3> SUFFICES ASSUME NEW c \in LikingCasts, NEW q \in PostIds, author'[q] \in Posters
                 PROVE  counted'[<<c, q>>] = IF likedAt'[<<c, q>>] > 0 /\ Young(c, q)'
                           /\ Midnight(likedAt'[<<c, q>>]) \in collected' THEN 1 ELSE 0
      BY DEF CountedOnce
    <3>4. c \in Posters
      BY PostSets
    <3>5. CASE c = u /\ q = p
      BY <1>6, <2>5, <3>2, <3>3, <3>4, <3>5
    <3>6. CASE ~(c = u /\ q = p)
      <4>1. likedAt'[<<c, q>>] = likedAt[<<c, q>>]
        BY <2>5, <3>4, <3>6
      <4>2. Young(c, q)' <=> Young(c, q)
        BY <1>2, <4>1 DEF Young
      <4> QED
        BY <1>2, <1>6, <2>8, <4>1, <4>2 DEF CountedOnce
    <3> QED
      BY <3>5, <3>6
  <2> QED
    BY <1>5, <1>6, <2>2, <2>3, <2>6, <2>7, <2>8, SamePay DEF PostsIInv
<1> QED
  BY <1>1, <1>7, <1>8 DEF CreateLike

LEMMA DeleteLikeOK ==
  ASSUME PostsIInv, NEW h \in Handlers, DeleteLike(h)
  PROVE  PostsIInv'
<1>1. PICK u, p : u = about[h].user /\ p = about[h].post
  OBVIOUS
<1>2. at[h] = "unlike" /\ PostDone(h) /\ RewardSame /\ slot' = slot /\ author' = author
      /\ postedAt' = postedAt
  BY DEF DeleteLike
<1>3. PostsTyped /\ PostsUnderWay /\ PastLikes /\ LikesShown
  BY DEF PostsIInv
<1>4. u \in LikingGuests /\ u \in Posters /\ p \in PostIds /\ due[h] = NothingDue
  BY <1>1, <1>2, <1>3, PostSets DEF PostsUnderWay, PostFacts
<1>5. /\ at' \in [Handlers -> PostLabels] /\ MovesTo(h, "idle") /\ faults' \in Nat
      /\ faults' = faults /\ about' \in [Handlers -> AboutPosts]
      /\ \A g \in Handlers \ {h} : about'[g] = about[g]
      /\ PostFacts("idle", about'[h])
  BY <1>2, <1>3, PostDoneMoves
<1>6. collected' = collected /\ counted' = counted /\ earned' = earned /\ due' = due
  BY <1>2 DEF RewardSame
<1>7. CASE UNCHANGED <<likedAt, likes>>
  <2>1. TimelineSame
    BY <1>2, <1>7 DEF TimelineSame
  <2>2. "idle" \in PostLabels
    BY DEF PostLabels
  <2> QED
    BY <1>2, <1>4, <1>5, <2>1, <2>2, OnlyHandlersMove
<1>8. CASE /\ likedAt[<<u, p>>] > 0
           /\ likedAt' = [likedAt EXCEPT ![<<u, p>>] = 0]
           /\ likes' = [likes EXCEPT ![p] = @ - 1]
  <2>1. likedAt \in [Posters \X PostIds -> Nat] /\ likes \in [PostIds -> Int] /\ slot \in Nat \ {0}
    BY <1>3 DEF PostsTyped
  <2>t. likedAt' \in [Posters \X PostIds -> Nat] /\ likes' \in [PostIds -> Int]
    <3>1. PICK D, x : D = Posters \X PostIds /\ x = <<u, p>>
      OBVIOUS
    <3>2. likedAt \in [D -> Nat] /\ likedAt' = [likedAt EXCEPT ![x] = 0]
      BY <1>8, <2>1, <3>1
    <3>3. likedAt' \in [D -> Nat]
      BY <2>1, <3>2
    <3>4. likes' \in [PostIds -> Int]
      BY <1>4, <1>8, <2>1
    <3> QED
      BY <3>1, <3>3, <3>4
  <2>2. PostsTyped'
    BY <1>2, <1>3, <1>5, <1>6, <2>t DEF PostsTyped, AboutPosts
  <2>3. PostsUnderWay'
    BY <1>3, <1>4, <1>5, <1>6, PostsStillUnderWay
  <2>5. \A v \in Posters, q \in PostIds :
           likedAt'[<<v, q>>] = IF v = u /\ q = p THEN 0 ELSE likedAt[<<v, q>>]
    BY <1>4, <1>8, <2>1
  <2>6. PastLikes'
    BY <1>2, <1>3, <1>6, <2>1, <2>5 DEF PastLikes
  <2>7. LikesShown'
    <3> SUFFICES ASSUME NEW q \in PostIds
                 PROVE  likes'[q] = Cardinality({v \in Posters : likedAt'[<<v, q>>] > 0})
      BY DEF LikesShown
    <3>1. PICK S : S = {v \in Posters : likedAt[<<v, q>>] > 0}
      OBVIOUS
    <3>2. likes[q] = Cardinality(S)
      BY <1>3, <3>1 DEF LikesShown
    <3>3. CASE q = p
      <4>1. {v \in Posters : likedAt'[<<v, q>>] > 0} = S \ {u}
        BY <1>4, <2>1, <2>5, <3>1, <3>3
      <4>2. u \in S
        BY <1>4, <1>8, <3>1, <3>3
      <4>3. IsFiniteSet(S)
        BY <3>1, PostSets, FS_Subset
      <4>4. Cardinality(S \ {u}) = Cardinality(S) - 1
        BY <4>2, <4>3, FS_RemoveElement
      <4>5. likes'[p] = likes[p] - 1
        BY <1>4, <1>8, <2>1
      <4> QED
        BY <3>2, <3>3, <4>1, <4>4, <4>5
    <3>4. CASE q # p
      <4>1. {v \in Posters : likedAt'[<<v, q>>] > 0} = S
        BY <2>5, <3>1, <3>4
      <4>2. likes'[q] = likes[q]
        BY <1>8, <2>1, <3>4
      <4> QED
        BY <3>2, <4>1, <4>2
    <3> QED
      BY <3>3, <3>4
  <2>8. ASSUME CountedOnce PROVE CountedOnce'
    <3>1. \A c \in LikingCasts, q \in PostIds : likedAt'[<<c, q>>] = likedAt[<<c, q>>]
      BY <1>4, <2>5, PostSets
    <3> QED
      BY <1>2, <1>6, <2>8, <3>1 DEF CountedOnce, Young
  <2> QED
    BY <1>5, <1>6, <2>2, <2>3, <2>6, <2>7, <2>8, SamePay DEF PostsIInv
<1> QED
  BY <1>1, <1>7, <1>8 DEF DeleteLike

LEMMA DeletePostOK ==
  ASSUME PostsIInv, NEW h \in Handlers, DeletePost(h)
  PROVE  PostsIInv'
<1>1. PICK p : p = about[h].post
  OBVIOUS
<1>2. /\ at[h] = "destroy" /\ PostDone(h) /\ RewardSame /\ slot' = slot /\ postedAt' = postedAt
      /\ author' = [author EXCEPT ![p] = "gone"]
      /\ likedAt' = [x \in Posters \X PostIds |-> IF x[2] = p THEN 0 ELSE likedAt[x]]
      /\ likes' = [likes EXCEPT ![p] = 0]
  BY <1>1 DEF DeletePost
<1>3. PostsTyped /\ PostsUnderWay /\ PastLikes /\ LikesShown
  BY DEF PostsIInv
<1>4. p \in PostIds /\ due[h] = NothingDue
  BY <1>1, <1>2, <1>3 DEF PostsUnderWay, PostFacts
<1>5. /\ at' \in [Handlers -> PostLabels] /\ MovesTo(h, "idle") /\ faults' \in Nat
      /\ faults' = faults /\ about' \in [Handlers -> AboutPosts]
      /\ \A g \in Handlers \ {h} : about'[g] = about[g]
      /\ PostFacts("idle", about'[h])
  BY <1>2, <1>3, PostDoneMoves
<1>6. collected' = collected /\ counted' = counted /\ earned' = earned /\ due' = due
  BY <1>2 DEF RewardSame
<1>7. likedAt \in [Posters \X PostIds -> Nat] /\ likes \in [PostIds -> Int]
      /\ author \in [PostIds -> Posters \cup {"none", "gone"}]
  BY <1>3 DEF PostsTyped
<1>8. \A v \in Posters, q \in PostIds :
         likedAt'[<<v, q>>] = IF q = p THEN 0 ELSE likedAt[<<v, q>>]
  BY <1>2
<1>9. likedAt' \in [Posters \X PostIds -> Nat]
  BY <1>2, <1>7
<1>10. PostsTyped'
  BY <1>2, <1>3, <1>4, <1>5, <1>6, <1>9 DEF PostsTyped, AboutPosts
<1>11. PostsUnderWay'
  BY <1>3, <1>4, <1>5, <1>6, PostsStillUnderWay
<1>12. \A q \in PostIds : author'[q] = IF q = p THEN "gone" ELSE author[q]
  BY <1>2, <1>7
<1>13. PastLikes'
  <2>1. slot \in Nat
    BY <1>3 DEF PostsTyped
  <2> QED
    BY <1>2, <1>3, <1>6, <1>7, <1>8, <1>12, <2>1 DEF PastLikes
<1>14. LikesShown'
  <2> SUFFICES ASSUME NEW q \in PostIds
               PROVE  likes'[q] = Cardinality({v \in Posters : likedAt'[<<v, q>>] > 0})
    BY DEF LikesShown
  <2>1. CASE q = p
    <3>1. {v \in Posters : likedAt'[<<v, q>>] > 0} = {}
      BY <1>8, <2>1
    <3> QED
      BY <1>2, <1>7, <2>1, <3>1, FS_EmptySet
  <2>2. CASE q # p
    <3>1. {v \in Posters : likedAt'[<<v, q>>] > 0} = {v \in Posters : likedAt[<<v, q>>] > 0}
      BY <1>8, <2>2
    <3> QED
      BY <1>2, <1>3, <1>7, <2>2, <3>1 DEF LikesShown
  <2> QED
    BY <2>1, <2>2
<1>15. ASSUME CountedOnce PROVE CountedOnce'
  <2> SUFFICES ASSUME NEW c \in LikingCasts, NEW q \in PostIds, author'[q] \in Posters
               PROVE  counted'[<<c, q>>] = IF likedAt'[<<c, q>>] > 0 /\ Young(c, q)'
                         /\ Midnight(likedAt'[<<c, q>>]) \in collected' THEN 1 ELSE 0
    BY DEF CountedOnce
  <2>1. c \in Posters /\ q # p
    BY <1>12, PostSets
  <2>2. likedAt'[<<c, q>>] = likedAt[<<c, q>>] /\ author[q] \in Posters
    BY <1>8, <1>12, <2>1
  <2>3. Young(c, q)' <=> Young(c, q)
    BY <1>2, <2>2 DEF Young
  <2> QED
    BY <1>6, <1>15, <2>2, <2>3 DEF CountedOnce
<1> QED
  BY <1>5, <1>6, <1>10, <1>11, <1>13, <1>14, <1>15, SamePay DEF PostsIInv

-----------------------------------------------------------------------------
(* The rewards *)

LEMMA SlotPassesOK ==
  ASSUME PostsIInv, SlotPasses
  PROVE  PostsIInv'
<1>1. /\ slot' = slot + 1 /\ TimelineSame /\ RewardSame /\ about' = about
      /\ at' = at /\ faults' = faults
  BY DEF SlotPasses, handlerVars
<1>2. /\ author' = author /\ postedAt' = postedAt /\ likedAt' = likedAt /\ likes' = likes
      /\ collected' = collected /\ counted' = counted /\ earned' = earned /\ due' = due
  BY <1>1 DEF TimelineSame, RewardSame
<1>3. PostsTyped /\ PostsUnderWay /\ PastLikes /\ LikesShown
  BY DEF PostsIInv
<1>4. PostsTyped'
  BY <1>1, <1>2, <1>3 DEF PostsTyped
<1>5. PostsUnderWay'
  BY <1>1, <1>2, <1>3 DEF PostsUnderWay, PostFacts, NothingDue
<1>6. PastLikes'
  <2>1. slot \in Nat /\ likedAt \in [Posters \X PostIds -> Nat]
    BY <1>3 DEF PostsTyped
  <2>2. \A k \in Nat : DayLength * k \in Int
    BY PostSets
  <2> QED
    BY <1>1, <1>2, <1>3, <2>1, <2>2 DEF PastLikes
<1> QED
  BY <1>1, <1>2, <1>3, <1>4, <1>5, <1>6, SameLikes, SameCounts, SamePay DEF PostsIInv

\* The midnight a run is for.
LEMMA LastMidnightIs ==
  ASSUME slot \in Nat, slot # LastMidnight, LastMidnight > 0
  PROVE  \E k \in Nat : /\ LastMidnight = DayLength * k /\ LastMidnight < slot
                        /\ DayLength * k - DayLength >= 0
<1>1. PICK t, d, k : t = slot /\ d = DayLength /\ k = t \div d
  OBVIOUS
<1>2. t \in Nat /\ d \in Nat \ {0}
  BY <1>1, PostSets
<1>3. k \in Nat /\ t % d \in 0..d - 1 /\ t = d * k + (t % d)
  BY <1>1, <1>2, Quotient
<1>4. LastMidnight = d * k
  BY <1>1 DEF LastMidnight
<1>5. d * k \in Nat
  BY <1>2, <1>3
<1>6. d * k < t
  BY <1>1, <1>2, <1>3, <1>4, <1>5
<1>7. k >= 1
  BY <1>2, <1>3, <1>4
<1>8. d * 1 <= d * k
  BY <1>2, <1>3, <1>7, ProductGrows
<1>9. d * 1 = d
  BY <1>2
<1>10. d * k - d >= 0
  BY <1>2, <1>5, <1>8, <1>9
<1>11. LastMidnight = DayLength * k /\ LastMidnight < slot /\ DayLength * k - DayLength >= 0
  BY <1>1, <1>4, <1>6, <1>10
<1> QED
  BY <1>3, <1>11

\* A run counts the likes of the day that ended at its midnight.
LEMMA LikesOfTheDay ==
  ASSUME PostsTyped, slot # LastMidnight, LastMidnight > 0, NEW c \in LikingCasts, NEW p \in PostIds
  PROVE  p \in Liked(c, LastMidnight - DayLength + 1, LastMidnight)
            <=> /\ author[p] \in Posters /\ likedAt[<<c, p>>] > 0 /\ Young(c, p)
                /\ Midnight(likedAt[<<c, p>>]) = LastMidnight
<1>1. slot \in Nat /\ likedAt[<<c, p>>] \in Nat
  BY PostSets DEF PostsTyped
<1>2. PICK k \in Nat : LastMidnight = DayLength * k /\ DayLength * k - DayLength >= 0
  BY <1>1, LastMidnightIs
<1>3. PICK t, m, d : t = likedAt[<<c, p>>] /\ m = DayLength * k /\ d = DayLength
  OBVIOUS
<1>4. t \in Nat /\ d \in Nat /\ d > 1 /\ m \in Int /\ m - d >= 0
  BY <1>1, <1>2, <1>3, PostSets
<1>5. t > 0 => (Midnight(t) = m <=> m - d < t /\ t <= m)
  BY <1>3, <1>4, MidnightIs
<1>6. (t >= m - d + 1 /\ t <= m) <=> (t > 0 /\ Midnight(t) = m)
  BY <1>4, <1>5
<1>7. p \in Liked(c, m - d + 1, m)
         <=> author[p] \in Posters /\ (t >= m - d + 1 /\ t <= m) /\ Young(c, p)
  BY <1>3 DEF Liked, Shown
<1> QED
  BY <1>2, <1>3, <1>6, <1>7

\* A run adds the likes it counts to those that were counted, and what they are worth
\* to what is due.
LEMMA CollectOK ==
  ASSUME PostsIInv, NEW h \in Handlers, CollectPostRewards(h)
  PROVE  PostsIInv'
<1>1. PICK counts, worth :
        /\ counts = [c \in LikingCasts |-> Liked(c, LastMidnight - DayLength + 1, LastMidnight)]
        /\ worth = [c \in LikingCasts |-> CreditsPerLike * Cardinality(counts[c])]
  OBVIOUS
<1>2. /\ slot # LastMidnight /\ LastMidnight > 0 /\ LastMidnight \notin collected
      /\ Deliver(h, "pay")
      /\ collected' = collected \cup {LastMidnight}
      /\ counted' = [x \in LikingCasts \X PostIds |->
                        counted[x] + IF x[2] \in counts[x[1]] THEN 1 ELSE 0]
      /\ due' = [due EXCEPT ![h] = worth]
      /\ TimelineSame /\ slot' = slot /\ earned' = earned /\ about' = about
  BY <1>1 DEF CollectPostRewards, Collects
<1>3. PostsTyped /\ PostsUnderWay /\ PastLikes /\ LikesShown
  BY DEF PostsIInv
<1>4. /\ author' = author /\ postedAt' = postedAt /\ likedAt' = likedAt /\ likes' = likes
  BY <1>2 DEF TimelineSame
<1>5. /\ at' \in [Handlers -> PostLabels] /\ MovesTo(h, "pay") /\ faults' \in Nat
      /\ at[h] = "idle" /\ faults' = faults
  BY <1>2, <1>3, PostsMove DEF PostLabels
<1>6. due[h] = NothingDue
  BY <1>3, <1>5 DEF PostsUnderWay
<1>7. \A c \in LikingCasts : /\ counts[c] \subseteq PostIds /\ IsFiniteSet(counts[c])
                             /\ Cardinality(counts[c]) \in Nat /\ worth[c] \in Nat
                             /\ worth[c] = CreditsPerLike * Cardinality(counts[c])
  <2> SUFFICES ASSUME NEW c \in LikingCasts
               PROVE  /\ counts[c] \subseteq PostIds /\ IsFiniteSet(counts[c])
                      /\ Cardinality(counts[c]) \in Nat /\ worth[c] \in Nat
                      /\ worth[c] = CreditsPerLike * Cardinality(counts[c])
    OBVIOUS
  <2>1. counts[c] \subseteq PostIds
    BY <1>1 DEF Liked, Shown
  <2>2. IsFiniteSet(counts[c]) /\ Cardinality(counts[c]) \in Nat
    BY <2>1, PostSets, FS_Subset, FS_CardinalityType
  <2>3. worth[c] = CreditsPerLike * Cardinality(counts[c])
    BY <1>1
  <2>4. CreditsPerLike * Cardinality(counts[c]) \in Nat
    BY <2>2, PostSets
  <2> QED
    BY <2>1, <2>2, <2>3, <2>4
<1>8. worth \in [LikingCasts -> Nat]
  BY <1>1, <1>7
<1>9. PostsTyped'
  <2>1. counted \in [LikingCasts \X PostIds -> Nat] /\ due \in [Handlers -> [LikingCasts -> Nat]]
    BY <1>3 DEF PostsTyped
  <2>2. counted' \in [LikingCasts \X PostIds -> Nat]
    BY <1>2, <2>1
  <2>3. due' \in [Handlers -> [LikingCasts -> Nat]]
    BY <1>2, <1>8, <2>1
  <2> QED
    BY <1>2, <1>3, <1>4, <1>5, <2>2, <2>3 DEF PostsTyped
<1>10. \A g \in Handlers \ {h} : about'[g] = about[g] /\ due'[g] = due[g]
  BY <1>2, <1>3 DEF PostsTyped
<1>11. PostsUnderWay'
  <2>1. PostFacts("pay", about'[h])
    BY DEF PostFacts
  <2> QED
    BY <1>3, <1>5, <1>10, <2>1, PostsStillUnderWay
<1>12. \A c \in LikingCasts, p \in PostIds :
          counted'[<<c, p>>] = counted[<<c, p>>] + IF p \in counts[c] THEN 1 ELSE 0
  BY <1>2
<1>13. \A c \in LikingCasts, p \in PostIds :
          p \in counts[c] <=> /\ author[p] \in Posters /\ likedAt[<<c, p>>] > 0 /\ Young(c, p)
                              /\ Midnight(likedAt[<<c, p>>]) = LastMidnight
  BY <1>1, <1>2, <1>3, LikesOfTheDay
<1>14. PastLikes'
  <2>1. slot \in Nat
    BY <1>3 DEF PostsTyped
  <2>2. PICK k \in Nat : LastMidnight = DayLength * k /\ LastMidnight < slot
    BY <1>2, <2>1, LastMidnightIs
  <2>3. \A c \in LikingCasts, p \in PostIds : author[p] = "none" => counted'[<<c, p>>] = 0
    BY <1>3, <1>12, <1>13, PostSets DEF PastLikes
  <2> QED
    BY <1>2, <1>3, <1>4, <2>2, <2>3 DEF PastLikes
<1>15. LikesShown'
  BY <1>3, <1>4, SameLikes
<1>16. ASSUME CountedOnce
       PROVE  CountedOnce'
  BY <1>2, <1>4, <1>12, <1>13, <1>16 DEF CountedOnce, Young
<1>17. ASSUME CountedOnce, EarnedAsCounted
       PROVE  EarnedAsCounted'
  <2> SUFFICES ASSUME NEW c \in LikingCasts
               PROVE  earned'[c] + SumOver(DueTo(c)', Handlers)
                        = CreditsPerLike * Cardinality(CountedBy(c)')
    BY DEF EarnedAsCounted
  <2>1. PICK B, C : B = CountedBy(c) /\ C = counts[c]
    OBVIOUS
  <2>2. CountedBy(c)' = B \cup C
    BY <1>3, <1>7, <1>12, <2>1 DEF CountedBy, PostsTyped
  <2>3. B \cap C = {}
    BY <1>2, <1>7, <1>13, <1>17, <2>1 DEF CountedBy, CountedOnce
  <2>4. IsFiniteSet(B) /\ IsFiniteSet(C) /\ Cardinality(B) \in Nat /\ Cardinality(C) \in Nat
    BY <1>7, <2>1, PostSets, FS_Subset, FS_CardinalityType DEF CountedBy
  <2>5. Cardinality(B \cup C) = Cardinality(B) + Cardinality(C)
    <3>1. Cardinality(B \cup C) = Cardinality(B) + Cardinality(C) - Cardinality(B \cap C)
      BY <2>4, FS_Union
    <3>2. Cardinality(B \cap C) = 0
      BY <2>3, FS_EmptySet
    <3> QED
      BY <2>4, <3>1, <3>2
  <2>6. PICK f, g : f = DueTo(c) /\ g = DueTo(c)'
    OBVIOUS
  <2>7. \A y \in Handlers : f[y] = due[y][c] /\ g[y] = due'[y][c]
    BY <2>6 DEF DueTo
  <2>8. \A y \in Handlers : f[y] \in Int /\ g[y] \in Int
    BY <1>3, <1>9, <2>7 DEF PostsTyped
  <2>9. \A y \in Handlers \ {h} : g[y] = f[y]
    BY <1>10, <2>7
  <2>10. f[h] = 0 /\ g[h] = worth[c]
    BY <1>2, <1>3, <1>6, <2>7 DEF NothingDue, PostsTyped
  <2>11. SumOver(g, Handlers) = SumOver(f, Handlers) - f[h] + g[h]
    BY <2>8, <2>9, PostSets, SumUpdate
  <2>12. SumOver(f, Handlers) \in Int
    BY <2>8, PostSets, SumInt
  <2>13. earned[c] + SumOver(f, Handlers) = CreditsPerLike * Cardinality(B)
    BY <1>17, <2>1, <2>6 DEF EarnedAsCounted
  <2>14. worth[c] = CreditsPerLike * Cardinality(C) /\ worth[c] \in Nat
    BY <1>7, <2>1
  <2>15. PICK x, a, b : x = CreditsPerLike /\ a = Cardinality(B) /\ b = Cardinality(C)
    OBVIOUS
  <2>16. x * (a + b) = x * a + x * b /\ x * a \in Int /\ x * b \in Int
    BY <2>4, <2>15, PostSets
  <2>17. earned[c] \in Int
    BY <1>3 DEF PostsTyped
  <2> QED
    BY <1>2, <2>2, <2>5, <2>6, <2>10, <2>11, <2>12, <2>13, <2>14, <2>15, <2>16, <2>17
<1> QED
  BY <1>5, <1>9, <1>11, <1>14, <1>15, <1>16, <1>17 DEF PostsIInv

\* What is due is paid, cast by cast.
LEMMA PayLikesOK ==
  ASSUME PostsIInv, NEW h \in Handlers, PayLikes(h)
  PROVE  PostsIInv'
<1>1. at[h] = "pay" /\ TimelineSame /\ slot' = slot /\ collected' = collected /\ counted' = counted
  BY DEF PayLikes
<1>2. PostsTyped /\ PostsUnderWay /\ PastLikes /\ LikesShown
  BY DEF PostsIInv
<1>3. CASE due[h] = NothingDue /\ PostDone(h) /\ UNCHANGED <<earned, due>>
  <2>1. RewardSame
    BY <1>1, <1>3 DEF RewardSame
  <2>2. /\ at' \in [Handlers -> PostLabels] /\ MovesTo(h, "idle") /\ faults' \in Nat
        /\ faults' = faults /\ about' \in [Handlers -> AboutPosts]
        /\ \A g \in Handlers \ {h} : about'[g] = about[g]
        /\ PostFacts("idle", about'[h])
    BY <1>2, <1>3, PostDoneMoves
  <2>3. "idle" \in PostLabels
    BY DEF PostLabels
  <2> QED
    BY <1>1, <1>3, <2>1, <2>2, <2>3, OnlyHandlersMove
<1>4. ASSUME NEW c \in LikingCasts, due[h][c] > 0,
             earned' = [earned EXCEPT ![c] = @ + due[h][c]],
             due' = [due EXCEPT ![h][c] = 0],
             UNCHANGED <<handlerVars, about>>
      PROVE  PostsIInv'
  <2>1. /\ author' = author /\ postedAt' = postedAt /\ likedAt' = likedAt /\ likes' = likes
        /\ at' = at /\ faults' = faults /\ about' = about
    BY <1>1, <1>4 DEF TimelineSame, handlerVars
  <2>2. due \in [Handlers -> [LikingCasts -> Nat]] /\ earned \in [LikingCasts -> Nat]
    BY <1>2 DEF PostsTyped
  <2>3. due' \in [Handlers -> [LikingCasts -> Nat]] /\ earned' \in [LikingCasts -> Nat]
    BY <1>4, <2>2
  <2>4. PostsTyped'
    BY <1>1, <1>2, <2>1, <2>3 DEF PostsTyped
  <2>5. \A g \in Handlers \ {h} : due'[g] = due[g]
    BY <1>4, <2>2
  <2>6. PostsUnderWay'
    BY <1>1, <1>2, <2>1, <2>5 DEF PostsUnderWay, PostFacts, NothingDue
  <2>7. PastLikes'
    BY <1>1, <1>2, <2>1 DEF PastLikes
  <2>8. ASSUME EarnedAsCounted PROVE EarnedAsCounted'
    <3> SUFFICES ASSUME NEW e \in LikingCasts
                 PROVE  earned'[e] + SumOver(DueTo(e)', Handlers)
                          = CreditsPerLike * Cardinality(CountedBy(e)')
      BY DEF EarnedAsCounted
    <3>1. CountedBy(e)' = CountedBy(e)
      BY <1>1 DEF CountedBy
    <3>2. PICK f, g : f = DueTo(e) /\ g = DueTo(e)'
      OBVIOUS
    <3>3. \A y \in Handlers : f[y] = due[y][e] /\ g[y] = due'[y][e]
      BY <3>2 DEF DueTo
    <3>4. \A y \in Handlers : f[y] \in Int /\ g[y] \in Int
      BY <2>2, <2>3, <3>3
    <3>5. \A y \in Handlers \ {h} : g[y] = f[y]
      BY <2>5, <3>3
    <3>6. SumOver(g, Handlers) = SumOver(f, Handlers) - f[h] + g[h]
      BY <3>4, <3>5, PostSets, SumUpdate
    <3>7. SumOver(f, Handlers) \in Int
      BY <3>4, PostSets, SumInt
    <3>8. earned[e] + SumOver(f, Handlers) = CreditsPerLike * Cardinality(CountedBy(e))
      BY <2>8, <3>2 DEF EarnedAsCounted
    <3>9. earned'[e] = earned[e] + f[h] - g[h]
      <4>1. CASE e = c
        <5>1. earned'[e] = earned[e] + due[h][e]
          BY <1>4, <2>2, <4>1
        <5>2. due'[h][e] = 0
          BY <1>4, <2>2, <4>1
        <5> QED
          BY <2>2, <3>3, <5>1, <5>2
      <4>2. CASE e # c
        <5>1. earned'[e] = earned[e] /\ due'[h][e] = due[h][e]
          BY <1>4, <2>2, <4>2
        <5> QED
          BY <2>2, <3>3, <5>1
      <4> QED
        BY <4>1, <4>2
    <3>10. earned[e] \in Int
      BY <2>2
    <3>11. f[h] \in Int /\ g[h] \in Int
      BY <3>4
    <3>12. earned'[e] + SumOver(g, Handlers) = earned[e] + SumOver(f, Handlers)
      BY <3>6, <3>7, <3>9, <3>10, <3>11
    <3> QED
      BY <3>1, <3>2, <3>8, <3>12
  <2> QED
    BY <1>1, <1>2, <2>1, <2>4, <2>6, <2>7, <2>8, SameLikes, SameCounts DEF PostsIInv
<1> QED
  BY <1>3, <1>4 DEF PayLikes

\* A handler that dies forgets what it had to pay, and is counted among the faults.
LEMMA PostsDieOK ==
  ASSUME PostsIInv, NEW h \in Handlers, PostsDie(h)
  PROVE  PostsIInv'
<1>1. /\ Refused(h, "idle") /\ collected' \subseteq collected
      /\ due' = [due EXCEPT ![h] = NothingDue] /\ Regard(h, "nobody", 1)
      /\ TimelineSame /\ slot' = slot /\ counted' = counted /\ earned' = earned
  BY DEF PostsDie, Die
<1>2. PostsTyped /\ PostsUnderWay /\ PastLikes /\ LikesShown
  BY DEF PostsIInv
<1>3. /\ author' = author /\ postedAt' = postedAt /\ likedAt' = likedAt /\ likes' = likes
  BY <1>1 DEF TimelineSame
<1>4. at' \in [Handlers -> PostLabels] /\ MovesTo(h, "idle") /\ faults' \in Nat /\ faults' # 0
  BY <1>1, <1>2, PostsMove DEF PostLabels
<1>5. /\ about' \in [Handlers -> AboutPosts]
      /\ \A g \in Handlers \ {h} : about'[g] = about[g]
  BY <1>1, <1>2, RegardsPosts
<1>6. due \in [Handlers -> [LikingCasts -> Nat]] /\ NothingDue \in [LikingCasts -> Nat]
  BY <1>2 DEF PostsTyped, NothingDue
<1>7. /\ due' \in [Handlers -> [LikingCasts -> Nat]] /\ due'[h] = NothingDue
      /\ \A g \in Handlers \ {h} : due'[g] = due[g]
  BY <1>1, <1>6
<1>8. PostsTyped'
  BY <1>1, <1>2, <1>3, <1>4, <1>5, <1>7 DEF PostsTyped, AboutPosts
<1>9. PostsUnderWay'
  <2>1. PostFacts("idle", about'[h])
    BY DEF PostFacts
  <2>2. due'[h] = NothingDue'
    BY <1>7 DEF NothingDue
  <2> QED
    BY <1>2, <1>4, <1>5, <1>7, <2>1, <2>2, PostsStillUnderWay
<1>10. PastLikes'
  BY <1>1, <1>2, <1>3 DEF PastLikes
<1> QED
  BY <1>2, <1>3, <1>4, <1>8, <1>9, <1>10, SameLikes DEF PostsIInv

LEMMA PostsNextOK ==
  ASSUME PostsIInv, [PostsNext]_<<handlerVars, postVars>>
  PROVE  PostsIInv'
<1>1. ASSUME NEW h \in Handlers,
             \/ CreatePost(h) \/ LikePost(h) \/ CreateLike(h) \/ UnlikePost(h) \/ DeleteLike(h)
             \/ DestroyPost(h) \/ DeletePost(h) \/ CollectPostRewards(h) \/ PayLikes(h)
             \/ PostsDie(h)
      PROVE  PostsIInv'
  BY <1>1, CreatePostOK, LikePostOK, CreateLikeOK, UnlikePostOK, DeleteLikeOK, DestroyPostOK,
     DeletePostOK, CollectOK, PayLikesOK, PostsDieOK
<1>2. CASE UNCHANGED <<handlerVars, postVars>>
  <2>1. /\ at' = at /\ faults' = faults /\ slot' = slot /\ about' = about
        /\ author' = author /\ postedAt' = postedAt /\ likedAt' = likedAt /\ likes' = likes
        /\ collected' = collected /\ counted' = counted /\ earned' = earned /\ due' = due
    BY <1>2 DEF handlerVars, postVars
  <2>2. PostsTyped /\ PostsUnderWay /\ PastLikes /\ LikesShown
    BY DEF PostsIInv
  <2>3. PostsTyped'
    BY <2>1, <2>2 DEF PostsTyped
  <2>4. PostsUnderWay'
    BY <2>1, <2>2 DEF PostsUnderWay, PostFacts, NothingDue
  <2>5. PastLikes'
    BY <2>1, <2>2 DEF PastLikes
  <2> QED
    BY <2>1, <2>2, <2>3, <2>4, <2>5, SameLikes, SameCounts, SamePay DEF PostsIInv
<1> QED
  BY <1>1, <1>2, SlotPassesOK DEF PostsNext

LEMMA PostsIInvPaid ==
  ASSUME PostsIInv
  PROVE  LikePaidOnce
<1>1. LikesShown
  BY DEF PostsIInv
<1>2. CountedOnce => \A c \in LikingCasts : \A p \in Shown :
         counted[<<c, p>>] = IF likedAt[<<c, p>>] > 0 /\ Young(c, p)
                                /\ Midnight(likedAt[<<c, p>>]) \in collected THEN 1 ELSE 0
  BY DEF CountedOnce, Shown
<1>3. \A c \in LikingCasts :
         FoldFunction(LAMBDA m, n : m + n, 0, [h \in Handlers |-> due[h][c]])
            = SumOver(DueTo(c), Handlers)
  <2> SUFFICES ASSUME NEW c \in LikingCasts
               PROVE  FoldFunction(LAMBDA m, n : m + n, 0, [h \in Handlers |-> due[h][c]])
                         = SumOver(DueTo(c), Handlers)
    OBVIOUS
  <2>1. DOMAIN [h \in Handlers |-> due[h][c]] = Handlers
    OBVIOUS
  <2> QED
    BY <2>1, Zenon DEF FoldFunction, SumOver, DueTo
<1>4. EarnedAsCounted => \A c \in LikingCasts :
         earned[c] + FoldFunction(LAMBDA m, n : m + n, 0, [h \in Handlers |-> due[h][c]])
            = CreditsPerLike * Cardinality(CountedBy(c))
  BY <1>3, Zenon DEF EarnedAsCounted
<1>5. faults = 0 => CountedOnce /\ EarnedAsCounted
  BY DEF PostsIInv
<1> QED
  BY <1>1, <1>2, <1>4, <1>5, Zenon DEF LikePaidOnce, LikesShown
-----------------------------------------------------------------------------
(* The rankings *)

RankLabels ==
    {"idle", "readSettings", "journal", "update", "hidden", "rows", "mine", "names", "answered"}
PageLabels == {"hidden", "rows", "mine", "names", "answered"}
RankSavings == [user : Ranked \cup {"nobody"}, old : BOOLEAN, new : BOOLEAN]
RankChange == [user : Ranked, visible : BOOLEAN, at : Days]

\* A page that is being built has the fields of one that is not.
ViewFields ==
    {"category", "type", "period", "viewer", "templates", "from", "to", "day", "hidden", "rows",
     "mine", "named", "out", "shy"}
IsView(v) == DOMAIN v = ViewFields

RankTyped ==
    /\ at \in [Handlers -> RankLabels] /\ Bounded /\ Sequential
    /\ headStart \in HeadStarts /\ today \in Days
    /\ IsFiniteSet(ledgerDays)
    /\ \A e \in ledgerDays : {e.charged, e.credited} \subseteq Int /\ e.at \in Days /\ e.at <= today
    /\ hides \in [Ranked -> BOOLEAN] /\ wishes \in [Ranked -> [Days -> BOOLEAN]]
    /\ changes \in Seq(RankChange) /\ \A i \in DOMAIN changes : changes[i].at <= today
    /\ saving \in [Handlers -> RankSavings]
    /\ DOMAIN view = Handlers /\ \A h \in Handlers : IsView(view[h])

\* What a wish says of today it says of the days to come; a hidden member is not shown.
WishesStand ==
    \A u \in Ranked :
        /\ \A d \in Days : d >= today => wishes[u][d] = wishes[u][today]
        /\ wishes[u][today] => hides[u]

\* Those whom the changes cs had hidden by a deadline; the last change of u hid them.
HiddenIn(cs, deadline) ==
    {u \in Ranked : \E i \in DOMAIN cs :
        /\ cs[i].user = u /\ cs[i].at <= deadline /\ ~cs[i].visible
        /\ \A j \in DOMAIN cs : j > i => cs[j].user # u \/ cs[j].at > deadline}
LastHid(cs, u) ==
    \E i \in DOMAIN cs :
        /\ cs[i].user = u /\ ~cs[i].visible
        /\ \A j \in DOMAIN cs : j > i => cs[j].user # u

\* h is about to set what the history says already of u.
Updating(h, u) == at[h] = "update" /\ saving[h].user = u

SavingHolds(h) ==
    /\ at[h] \in {"readSettings", "journal", "update"} => saving[h].user \in Ranked
    /\ at[h] = "journal" /\ ~overlapped /\ faults = 0 =>
          saving[h].new # hides[saving[h].user]
    /\ at[h] = "update" /\ ~overlapped /\ faults = 0 =>
          (LastHid(changes, saving[h].user) <=> saving[h].new)

\* One save after the other: the history and the wishes agree with the setting.
HistoryHolds ==
    ~overlapped /\ faults = 0 =>
        \A u \in Ranked :
            /\ (\A h \in Handlers : ~Updating(h, u)) =>
                  (LastHid(changes, u) <=> hides[u]) /\ (hides[u] => wishes[u][today])
            /\ \A d \in Days : wishes[u][d] => u \in HiddenIn(changes, d)

\* What u has earned by the rows es, and all members by those of a period.
EarnedOf(u, category, es, heads) ==
    LET cs == {e \in es : e.category \in Categories(category)}
        asPatron == category = "patron" /\ u \in RankedGuests
    IN  (IF u \in RankedCasts \/ asPatron
         THEN Credited({e \in cs : e.to = u})
         ELSE Charged({e \in cs : e.from = u}))
        + (IF category = "meeting" THEN heads[u].meeting
           ELSE IF category = "sticker" THEN heads[u].sticker
           ELSE IF asPatron THEN 0
           ELSE heads[u].meeting + heads[u].sticker)
EarnedBetween(category, from, to) ==
    [u \in Ranked |-> EarnedOf(u, category, Within(from, to), headStart)]

\* The month before, as it stood when it ended.
ClosingHolds ==
    today >= MonthDays =>
        closing = EarnedBetween("credits", MonthStart(today) - MonthDays, MonthStart(today))

\* Nobody but this page's handler has been at work since it was asked for, today.
CalmPage(v) == ~overlapped /\ faults = 0 /\ v.day = today

\* Those of a type who have a score in s, are shown and have not left; the place among them.
ScoringIn(s, type, out, open) == {u \in MembersOf(type) \ out : u \in open /\ s[u] > 0}
PlaceIn(s, u, us) ==
    1 + Cardinality({w \in us : s[w] > s[u] \/ (s[w] = s[u] /\ Birthday[w] < Birthday[u])})
RowsAre(rows, s, us) ==
    /\ DOMAIN rows = {u \in us : PlaceIn(s, u, us) <= Top}
    /\ \A u \in DOMAIN rows : rows[u].position = PlaceIn(s, u, us) /\ rows[u].score = s[u]
MineIs(mine, u, s, us) == mine = IF u \in us THEN PlaceIn(s, u, us) ELSE 0

Unhidden(hs) == {u \in Ranked : ~hs[u]}
EarnedCategories == {"credits", "meeting", "sticker", "patron"}

AskedFor(v) ==
    /\ v.type \in {"cast", "customer"} /\ v.viewer \in Ranked
    /\ v.day \in Days /\ v.day <= today
    /\ v.day = today /\ v.category = "credits" /\ v.period = "prev_month" =>
          v.from = MonthStart(today) - MonthDays /\ v.to = MonthStart(today)

KeepsWishes(v, l) ==
    /\ l \in {"hidden", "rows"} => \A u \in v.out \cap Ranked : hides[u] \/ u \in withdrawn
    /\ l \in {"hidden", "rows", "mine", "names"} => \A u \in v.shy \cap Ranked : hides[u]
    /\ l \in {"mine", "names", "answered"} =>
          /\ DOMAIN v.rows \subseteq MembersOf(v.type) \cap Ranked
          /\ DOMAIN v.rows \cap (v.out \cup v.hidden) = {}
    /\ l = "answered" =>
          /\ v.named \subseteq DOMAIN v.rows /\ v.named \cap v.shy \subseteq {v.viewer}
          /\ v.viewer \in RankedGuests => v.named \cap RankedGuests \subseteq {v.viewer}

ReadCalmly(v, l) ==
    /\ v.viewer \notin withdrawn
    /\ \A u \in Ranked \ v.out : ~hides[u] /\ u \notin withdrawn
    /\ v.category \in EarnedCategories =>
          LET s == EarnedBetween(v.category, v.from, v.to)
              listed == ScoringIn(s, v.type, withdrawn, Unhidden(hides) \ v.hidden)
              own == ScoringIn(s, v.type, withdrawn, Unhidden(hides) \cup {v.viewer})
          IN  /\ l # "hidden" /\ v.type = "cast" =>
                    v.hidden = HiddenIn(changes, CreditsRankingDeadline(v.period))
              /\ l \in {"mine", "names", "answered"} => RowsAre(v.rows, s, listed)
              /\ l \in {"names", "answered"} => MineIs(v.mine, v.viewer, s, own)

PageHolds(v, l) ==
    l \in PageLabels =>
        AskedFor(v) /\ KeepsWishes(v, l) /\ (CalmPage(v) => ReadCalmly(v, l))

RankIInv ==
    /\ RankTyped /\ WishesStand /\ HistoryHolds /\ ClosingHolds
    /\ \A h \in Handlers : SavingHolds(h) /\ PageHolds(view[h], at[h])


-----------------------------------------------------------------------------
(* What members have earned *)

\* A sum of charges, or of credits, is an integer.
LEMMA EarnedIsInt ==
  ASSUME NEW es, IsFiniteSet(es), \A e \in es : {e.charged, e.credited} \subseteq Int
  PROVE  Charged(es) \in Int /\ Credited(es) \in Int
<1> DEFINE c == [e \in es |-> e.charged]
           d == [e \in es |-> e.credited]
<1>1. SumFunction(c) = SumOver(c, es)
  <2>1. DOMAIN c = es
    OBVIOUS
  <2> HIDE DEF c
  <2> QED
    BY <2>1, Zenon DEF SumFunction, SumFunctionOnSet, SumOver
<1>2. SumFunction(d) = SumOver(d, es)
  <2>1. DOMAIN d = es
    OBVIOUS
  <2> HIDE DEF d
  <2> QED
    BY <2>1, Zenon DEF SumFunction, SumFunctionOnSet, SumOver
<1>3. SumOver(c, es) \in Int
  <2>1. \A e \in es : c[e] \in Int
    OBVIOUS
  <2> HIDE DEF c
  <2> QED
    BY <2>1, SumInt
<1>4. SumOver(d, es) \in Int
  <2>1. \A e \in es : d[e] \in Int
    OBVIOUS
  <2> HIDE DEF d
  <2> QED
    BY <2>1, SumInt
<1> QED
  BY <1>1, <1>2, <1>3, <1>4 DEF Charged, Credited

LEMMA ScoreIsInt ==
  ASSUME RankTyped, NEW category, NEW from, NEW to, NEW u \in Ranked
  PROVE  EarnedBetween(category, from, to)[u] \in Int
<1> DEFINE es == Within(from, to)
           cs == {e \in es : e.category \in Categories(category)}
           to_u == {e \in cs : e.to = u}
           from_u == {e \in cs : e.from = u}
<1>1. IsFiniteSet(ledgerDays) /\ \A e \in ledgerDays : {e.charged, e.credited} \subseteq Int
  BY DEF RankTyped
<1>2. to_u \subseteq ledgerDays /\ from_u \subseteq ledgerDays
  BY DEF Within
<1>3. IsFiniteSet(to_u) /\ IsFiniteSet(from_u)
  BY <1>1, <1>2, FS_Subset
<1>4. /\ \A e \in to_u : {e.charged, e.credited} \subseteq Int
      /\ \A e \in from_u : {e.charged, e.credited} \subseteq Int
  BY <1>1, <1>2
<1> HIDE DEF to_u, from_u
<1>5. Credited(to_u) \in Int /\ Charged(from_u) \in Int
  BY <1>3, <1>4, EarnedIsInt
<1>6. headStart[u].meeting \in Int /\ headStart[u].sticker \in Int
  BY RankingAssumption DEF RankTyped
<1>7. EarnedOf(u, category, es, headStart) \in Int
  <2> HIDE DEF es
  <2> QED
    BY <1>5, <1>6 DEF EarnedOf, to_u, from_u
<1> QED
  BY <1>7 DEF EarnedBetween

\* A page's score and place by the rows of its period.
LEMMA EarnedScoreIs ==
  ASSUME NEW u \in Ranked, NEW category, NEW range
  PROVE  EarnedScore(u, category, range) = EarnedBetween(category, range.from, range.to)[u]
BY DEF EarnedScore, EarnedBetween, EarnedOf

LEMMA ScoreOnIs ==
  ASSUME NEW v, v.category \in EarnedCategories, NEW u \in Ranked
  PROVE  ScoreOn(v, u) = EarnedBetween(v.category, v.from, v.to)[u]
BY EarnedScoreIs DEF ScoreOn, EarnedCategories, Period

LEMMA ScoringIs ==
  ASSUME NEW v, v.category \in EarnedCategories, v.type \in {"cast", "customer"}, NEW open
  PROVE  Scoring(v, open)
            = ScoringIn(EarnedBetween(v.category, v.from, v.to), v.type, withdrawn, open)
<1>1. MembersOf(v.type) \subseteq Ranked
  BY DEF MembersOf, Ranked
<1> QED
  BY <1>1, ScoreOnIs DEF Scoring, ScoringIn

LEMMA PositionIs ==
  ASSUME NEW v, v.category \in EarnedCategories, NEW us, us \subseteq Ranked, NEW u \in Ranked
  PROVE  Position(v, u, us) = PlaceIn(EarnedBetween(v.category, v.from, v.to), u, us)
<1> DEFINE s == EarnedBetween(v.category, v.from, v.to)
<1>1. \A w \in Ranked : ScoreOn(v, w) = s[w]
  BY ScoreOnIs
<1> HIDE DEF s
<1>2. {w \in us : Before(v, w, u)}
       = {w \in us : s[w] > s[u] \/ (s[w] = s[u] /\ Birthday[w] < Birthday[u])}
  BY <1>1 DEF Before
<1> QED
  BY <1>2 DEF Position, PlaceIn, s

\* A place is a number from 1 on; among more it is not a better one; and nobody is
\* worse placed than last.
LEMMA RankPlaces ==
  ASSUME NEW s, NEW us, us \subseteq Ranked, \A w \in Ranked : s[w] \in Int, NEW u \in us
  PROVE  /\ PlaceIn(s, u, us) \in Nat /\ PlaceIn(s, u, us) > 0
         /\ \A ws : us \subseteq ws /\ ws \subseteq Ranked => PlaceIn(s, u, us) <= PlaceIn(s, u, ws)
         /\ PlaceIn(s, u, us) <= Cardinality(us)
<1> DEFINE better(ws) == {w \in ws : s[w] > s[u] \/ (s[w] = s[u] /\ Birthday[w] < Birthday[u])}
<1>1. \A ws : ws \subseteq Ranked =>
         IsFiniteSet(ws) /\ IsFiniteSet(better(ws)) /\ Cardinality(better(ws)) \in Nat
  BY RankingAssumption, FS_Subset, FS_CardinalityType
<1>2. \A ws : us \subseteq ws /\ ws \subseteq Ranked => Cardinality(better(us)) <= Cardinality(better(ws))
  BY <1>1, FS_Subset
<1>3. u \notin better(us) /\ u \in us
  BY RankingAssumption
<1>4. Cardinality(better(us)) < Cardinality(us)
  <2>1. better(us) \subseteq us \ {u}
    BY <1>3
  <2>2. Cardinality(us \ {u}) = Cardinality(us) - 1 /\ IsFiniteSet(us \ {u})
    BY <1>1, FS_RemoveElement
  <2>3. Cardinality(better(us)) <= Cardinality(us \ {u})
    BY <2>1, <2>2, FS_Subset
  <2>4. Cardinality(us) \in Nat
    BY <1>1, FS_CardinalityType
  <2> QED
    BY <1>1, <2>2, <2>3, <2>4
<1>5. Cardinality(us) \in Nat
  BY <1>1, FS_CardinalityType
<1>6. \A ws : PlaceIn(s, u, ws) = 1 + Cardinality(better(ws))
  BY DEF PlaceIn
<1> HIDE DEF better
<1> QED
  BY <1>1, <1>2, <1>4, <1>5, <1>6

-----------------------------------------------------------------------------
(* MonthBegins *)

LEMMA MonthBegins ==
  ASSUME NEW d \in Nat
  PROVE  /\ MonthStart(d) \in Nat /\ MonthStart(d) <= d /\ d < MonthStart(d) + MonthDays
         /\ MonthStart(d + 1) = d + 1 => MonthStart(d) = d + 1 - MonthDays
         /\ MonthStart(d + 1) # d + 1 => MonthStart(d + 1) = MonthStart(d)
<1> DEFINE M == MonthDays
           q == d \div M
           r == (d + 1) \div M
<1>1. M \in Nat \ {0}
  BY RankingAssumption
<1>2. q \in Nat /\ M * q \in Nat /\ M * q <= d /\ d < M * q + M
  BY <1>1, Quotient
<1>3. r \in Nat /\ M * r \in Nat /\ M * r <= d + 1 /\ d + 1 < M * r + M
  BY <1>1, Quotient
<1>4. MonthStart(d) = M * q /\ MonthStart(d + 1) = M * r
  BY DEF MonthStart
<1> HIDE DEF q, r, M
<1>5. M * (q + 1) = M * q + M /\ M * (r + 1) = M * r + M
  BY <1>1, <1>2, <1>3
<1>6. \A a, b \in Nat : a <= b => M * a <= M * b
  BY <1>1, ProductGrows
<1>7. ASSUME M * r = d + 1 PROVE M * q = d + 1 - M
  <2>1. q < r
    BY <1>1, <1>2, <1>3, <1>6, <1>7
  <2>2. M * (q + 1) <= M * r
    BY <2>1, <1>2, <1>3, <1>6
  <2> QED
    BY <2>2, <1>1, <1>2, <1>5, <1>7
<1>8. ASSUME M * r # d + 1 PROVE r = q
  <2>1. ~ r + 1 <= q
    <3>1. SUFFICES ASSUME r + 1 <= q PROVE FALSE
      OBVIOUS
    <3>2. M * (r + 1) <= M * q
      BY <3>1, <1>2, <1>3, <1>6
    <3> QED
      BY <3>2, <1>1, <1>2, <1>3, <1>5
  <2>2. ~ q + 1 <= r
    <3>1. SUFFICES ASSUME q + 1 <= r PROVE FALSE
      OBVIOUS
    <3>2. M * (q + 1) <= M * r
      BY <3>1, <1>2, <1>3, <1>6
    <3> QED
      BY <3>2, <1>1, <1>2, <1>3, <1>5, <1>8
  <2> QED
    BY <2>1, <2>2, <1>2, <1>3
<1> QED
  BY <1>1, <1>2, <1>4, <1>7, <1>8 DEF M

\* What was earned in days that have passed stays so: a row is of today.
LEMMA EarnedBefore ==
  ASSUME headStart' = headStart,
         NEW es, ledgerDays' = ledgerDays \cup es, \A e \in es : e.at = today,
         NEW category, NEW from, NEW to \in Int, to <= today, today \in Int
  PROVE  EarnedBetween(category, from, to)' = EarnedBetween(category, from, to)
<1>1. Within(from, to)' = Within(from, to)
  BY DEF Within
<1> QED
  BY <1>1 DEF EarnedBetween

\* The score of a month is closed when the next one begins.
LEMMA DayCloses ==
  ASSUME RankTyped, ClosingHolds, DayPasses
  PROVE  ClosingHolds'
<1> DEFINE m == MonthStart(today)
           E(from, to) == EarnedBetween("credits", from, to)
<1>1. today \in Nat /\ today' = today + 1 /\ today + 1 \in Nat
  BY RankingAssumption DEF RankTyped, Days, DayPasses
<1>2. /\ m \in Nat /\ m <= today /\ today < m + MonthDays
      /\ MonthStart(today + 1) = today + 1 => m = today + 1 - MonthDays
      /\ MonthStart(today + 1) # today + 1 => MonthStart(today + 1) = m
  BY <1>1, MonthBegins
<1>3. \A from, to : E(from, to)' = E(from, to)
  BY DEF EarnedBetween, Within, DayPasses
<1>4. CASE MonthStart(today + 1) = today + 1
  <2>1. closing' = [u \in Ranked |-> EarnedScore(u, "credits", PeriodRange("this_month"))]
    BY <1>1, <1>4 DEF DayPasses
  <2>2. PeriodRange("this_month") = [from |-> m, to |-> MaxDay + 1]
    BY DEF PeriodRange, Period, Forever
  <2>3. Within(m, MaxDay + 1) = Within(m, today + 1)
    <3>1. \A e \in ledgerDays : e.at \in Days /\ e.at <= today
      BY DEF RankTyped
    <3> QED
      BY <3>1, <1>1, RankingAssumption DEF Within, Days
  <2>4. E(m, MaxDay + 1) = E(m, today + 1)
    BY <2>3 DEF EarnedBetween
  <2>5. \A u \in Ranked : closing'[u] = E(m, MaxDay + 1)[u]
    BY <2>1, <2>2, EarnedScoreIs
  <2>6. closing' = E(m, MaxDay + 1)
    BY <2>1, <2>5 DEF EarnedBetween
  <2>7. E(m, today + 1) = E(MonthStart(today') - MonthDays, MonthStart(today'))
    <3>1. MonthStart(today') = today + 1 /\ MonthStart(today') - MonthDays = m
      <4>1. MonthDays \in Nat
        BY RankingAssumption
      <4> QED
        BY <1>1, <1>2, <1>4, <4>1
    <3> HIDE DEF m, E
    <3> QED
      BY <3>1
  <2> QED
    BY <1>3, <2>4, <2>6, <2>7 DEF ClosingHolds
<1>5. CASE MonthStart(today + 1) # today + 1
  <2>1. closing' = closing /\ MonthStart(today') = m
    BY <1>1, <1>2, <1>5 DEF DayPasses
  <2>2. today' >= MonthDays => today >= MonthDays
    <3>1. MonthDays \in Nat \ {0}
      BY RankingAssumption
    <3>2. today + 1 = MonthDays => MonthStart(today + 1) = today + 1
      <4>1. SUFFICES ASSUME today + 1 = MonthDays PROVE MonthStart(today + 1) = today + 1
        OBVIOUS
      <4>2. MonthStart(MonthDays) = MonthDays * (MonthDays \div MonthDays)
        BY DEF MonthStart
      <4>3. MonthDays \div MonthDays = 1
        BY <3>1
      <4> QED
        BY <3>1, <4>1, <4>2, <4>3
    <3> QED
      BY <1>1, <1>5, <3>1, <3>2
  <2> QED
    BY <1>3, <2>1, <2>2 DEF ClosingHolds
<1> QED
  BY <1>4, <1>5

\* No other step changes what was earned by the end of last month.
LEMMA ClosingStays ==
  ASSUME RankTyped, ClosingHolds, headStart' = headStart, today' = today, closing' = closing,
         NEW es, ledgerDays' = ledgerDays \cup es, \A e \in es : e.at = today
  PROVE  ClosingHolds'
<1>1. today \in Nat
  BY RankingAssumption DEF RankTyped, Days
<1>2. MonthStart(today) \in Nat /\ MonthStart(today) <= today
  BY <1>1, MonthBegins
<1>3. PICK a, b : a = MonthStart(today) - MonthDays /\ b = MonthStart(today)
  OBVIOUS
<1>4. b \in Int /\ b <= today /\ today \in Int
  BY <1>1, <1>2, <1>3
<1>5. headStart' = headStart /\ today' = today /\ closing' = closing
  OBVIOUS
<1>6. EarnedBetween("credits", a, b)' = EarnedBetween("credits", a, b)
  BY <1>4, <1>5, EarnedBefore
<1>7. MonthStart(today)' = b /\ (MonthStart(today) - MonthDays)' = a
  BY <1>3, <1>5
<1> QED
  BY <1>3, <1>5, <1>6, <1>7 DEF ClosingHolds

-----------------------------------------------------------------------------
(* Pages *)

\* What a page has read is what it would read now as long as the rows are the same.
LEMMA ReadCalmlySame ==
  ASSUME NEW v, NEW l,
         headStart' = headStart, today' = today, ledgerDays' = ledgerDays,
         withdrawn' = withdrawn, hides' = hides, changes' = changes
  PROVE  ReadCalmly(v, l)' <=> ReadCalmly(v, l)
<1>1. \A category, from, to :
         EarnedBetween(category, from, to)' = EarnedBetween(category, from, to)
  BY DEF EarnedBetween, Within
<1>2. \A period : CreditsRankingDeadline(period)' = CreditsRankingDeadline(period)
  BY DEF CreditsRankingDeadline, MonthStart
<1> QED
  BY <1>1, <1>2 DEF ReadCalmly

\* A page stays right as long as nothing that it has read changes.
LEMMA RankPageStays ==
  ASSUME NEW v, NEW l, PageHolds(v, l), UNCHANGED Reading,
         ~overlapped' => ~overlapped, faults' = 0 => faults = 0
  PROVE  PageHolds(v, l)'
<1>1. /\ headStart' = headStart /\ today' = today /\ ledgerDays' = ledgerDays
      /\ withdrawn' = withdrawn /\ hides' = hides /\ changes' = changes
  BY DEF Reading, RankKept, Visibility
<1>2. AskedFor(v)' /\ KeepsWishes(v, l)' <=> AskedFor(v) /\ KeepsWishes(v, l)
  BY <1>1 DEF AskedFor, KeepsWishes, MonthStart
<1>3. CalmPage(v)' => CalmPage(v)
  BY <1>1 DEF CalmPage
<1>4. ReadCalmly(v, l)' <=> ReadCalmly(v, l)
  BY <1>1, ReadCalmlySame
<1> QED
  BY <1>2, <1>3, <1>4 DEF PageHolds

\* h has v as its page, the others have theirs.
HasPage(h, v) ==
    DOMAIN view' = Handlers /\ view'[h] = v /\ \A g \in Handlers \ {h} : view'[g] = view[g]

\* What a step of a page's handler leaves right.
LEMMA PageMoves ==
  ASSUME RankIInv, NEW h \in Handlers, NEW l \in RankLabels \ {"readSettings", "journal", "update"},
         HandlerStep(h, l), at[h] \notin {"readSettings", "journal", "update"},
         NEW v, HasPage(h, v), IsView(v), UNCHANGED Reading,
         PageHolds(v, l)'
  PROVE  RankIInv'
<1>1. at \in [Handlers -> RankLabels] /\ Bounded /\ Sequential /\ RankTyped
  BY DEF RankIInv, RankTyped
<1>2. /\ at' \in [Handlers -> RankLabels] /\ Bounded' /\ Sequential' /\ MovesTo(h, l)
      /\ faults <= faults' /\ (~overlapped' => ~overlapped)
  BY <1>1, HandlerSteps
<1>3. faults' = 0 => faults = 0
  BY <1>1, <1>2 DEF Bounded
<1>4. /\ headStart' = headStart /\ today' = today /\ ledgerDays' = ledgerDays
      /\ withdrawn' = withdrawn /\ hides' = hides /\ changes' = changes /\ wishes' = wishes
      /\ closing' = closing /\ saving' = saving
  BY DEF Reading, RankKept, Visibility
<1>5. DOMAIN view' = Handlers /\ view'[h] = v /\ \A g \in Handlers \ {h} : view'[g] = view[g]
  BY DEF HasPage
<1>6. RankTyped'
  BY <1>1, <1>2, <1>4, <1>5 DEF RankTyped, IsView
<1>7. WishesStand'
  BY <1>4 DEF RankIInv, WishesStand
<1>8. \A g \in Handlers : at'[g] = "update" <=> at[g] = "update"
  BY <1>2 DEF MovesTo
<1>9. HistoryHolds'
  BY <1>2, <1>3, <1>4, <1>8 DEF RankIInv, HistoryHolds, Updating
<1>10. ClosingHolds'
  <2>1. PICK es : es = {}
    OBVIOUS
  <2>3. ledgerDays' = ledgerDays \cup es /\ \A e \in es : e.at = today
    BY <1>4, <2>1
  <2>2. ClosingHolds /\ headStart' = headStart /\ today' = today /\ closing' = closing
    BY <1>4 DEF RankIInv
  <2> QED
    BY <1>1, <2>2, <2>3, ClosingStays
<1>11. ASSUME NEW g \in Handlers PROVE SavingHolds(g)'
  <2>1. SavingHolds(g)
    BY DEF RankIInv
  <2>2. CASE g = h
    BY <1>2, <2>2 DEF SavingHolds, MovesTo
  <2>3. CASE g # h
    BY <1>2, <1>3, <1>4, <2>1, <2>3 DEF SavingHolds, MovesTo
  <2> QED
    BY <2>2, <2>3
<1>12. ASSUME NEW g \in Handlers PROVE PageHolds(view[g], at[g])'
  <2>1. CASE g = h
    BY <1>2, <1>5, <2>1 DEF MovesTo
  <2>2. CASE g # h
    <3>1. PICK w, k : w = view[g] /\ k = at[g]
      OBVIOUS
    <3>2. PageHolds(w, k)
      BY <3>1 DEF RankIInv
    <3>3. PageHolds(w, k)'
      BY <1>2, <1>3, <3>2, RankPageStays
    <3>4. view'[g] = w /\ at'[g] = k
      BY <1>2, <1>5, <2>2, <3>1 DEF MovesTo
    <3> QED
      BY <3>3, <3>4
  <2> QED
    BY <2>1, <2>2
<1> QED
  BY <1>6, <1>7, <1>9, <1>10, <1>11, <1>12 DEF RankIInv

\* What is asked for at the start.
LEMMA RankAsk ==
  ASSUME RankIInv, NEW h \in Handlers, AskRanking(h)
  PROVE  RankIInv'
<1>1. at[h] = "idle" /\ HandlerStep(h, "hidden") /\ UNCHANGED Reading
  BY DEF AskRanking, Begin, Deliver, HandlerStep
<1>2. PICK q \in Questions : q.viewer \notin withdrawn /\
         LET type == q.type
             category == CorrectedCategory(q.category, type)
             period == CorrectedPeriod(q.category, q.period)
             range == IF category = "event_choco_count"
                      THEN EventChocoPeriodRange(period) ELSE PeriodRange(period)
         IN  Sets(h, [NoView EXCEPT !.category = category, !.type = type, !.period = period,
                         !.viewer = q.viewer, !.templates = SentTemplates(q), !.day = today,
                         !.from = range.from, !.to = range.to,
                         !.out = {u \in Ranked : wishes[u][today]} \cup withdrawn,
                         !.shy = {u \in Ranked : wishes[u][today]}])
  BY DEF AskRanking
<1> DEFINE category == CorrectedCategory(q.category, q.type)
           period == CorrectedPeriod(q.category, q.period)
           range == IF category = "event_choco_count"
                    THEN EventChocoPeriodRange(period) ELSE PeriodRange(period)
<1>3. PICK v : v = [NoView EXCEPT !.category = category, !.type = q.type, !.period = period,
                       !.viewer = q.viewer, !.templates = SentTemplates(q), !.day = today,
                       !.from = range.from, !.to = range.to,
                       !.out = {u \in Ranked : wishes[u][today]} \cup withdrawn,
                       !.shy = {u \in Ranked : wishes[u][today]}]
  OBVIOUS
<1>4. HasPage(h, v)
  BY <1>2, <1>3 DEF Sets, HasPage, RankIInv, RankTyped
<1>5. PICK c, p, r : c = category /\ p = period /\ r = range
  OBVIOUS
<1>6. c = "credits" /\ p = "prev_month" => r = Period(MonthStart(today) - MonthDays, MonthStart(today))
  BY <1>5 DEF PeriodRange
<1> HIDE DEF category, period, range
<1>7. /\ IsView(v) /\ v.type = q.type /\ v.viewer = q.viewer /\ v.day = today
      /\ v.category = c /\ v.period = p /\ v.from = r.from /\ v.to = r.to
      /\ v.out = {u \in Ranked : wishes[u][today]} \cup withdrawn
      /\ v.shy = {u \in Ranked : wishes[u][today]}
  BY <1>3, <1>5 DEF NoView, IsView, ViewFields
<1>8. q.type \in {"cast", "customer"} /\ q.viewer \in Ranked /\ today \in Days
      /\ today <= today /\ today \in Nat
  BY RankingAssumption DEF RankIInv, RankTyped, Days
<1>9. AskedFor(v)
  BY <1>6, <1>7, <1>8 DEF AskedFor, Period
<1>10. KeepsWishes(v, "hidden")
  BY <1>7 DEF KeepsWishes, RankIInv, WishesStand
<1>11. CalmPage(v)' => ReadCalmly(v, "hidden")
  <2> SUFFICES ASSUME ~overlapped', faults' = 0 PROVE ReadCalmly(v, "hidden")
    BY DEF CalmPage
  <2>1. at \in [Handlers -> RankLabels] /\ Bounded /\ Sequential
    BY DEF RankIInv, RankTyped
  <2>2. ~overlapped /\ faults = 0 /\ AtRest
    <3>1. Begin(h, "hidden") /\ "hidden" \in RankLabels
      BY DEF AskRanking, RankLabels
    <3> QED
      BY <2>1, <3>1, BeginMoves
  <2>3. \A u \in Ranked : hides[u] => wishes[u][today]
    <3>1. \A g \in Handlers : at[g] # "update"
      BY <2>2 DEF AtRest, Idle
    <3> QED
      BY <2>2, <3>1 DEF RankIInv, HistoryHolds, Updating
  <2>4. \A u \in Ranked \ v.out : ~hides[u] /\ u \notin withdrawn
    BY <1>7, <2>3
  <2> QED
    BY <1>2, <1>7, <2>4 DEF ReadCalmly
<1>12. /\ headStart' = headStart /\ today' = today /\ ledgerDays' = ledgerDays
       /\ withdrawn' = withdrawn /\ hides' = hides /\ changes' = changes
  BY <1>1 DEF Reading, RankKept, Visibility
<1>13. AskedFor(v)' /\ KeepsWishes(v, "hidden")'
  BY <1>9, <1>10, <1>12 DEF AskedFor, KeepsWishes, MonthStart
<1>14. ReadCalmly(v, "hidden")' <=> ReadCalmly(v, "hidden")
  BY <1>12, ReadCalmlySame
<1>15. PageHolds(v, "hidden")'
  BY <1>11, <1>13, <1>14 DEF PageHolds
<1>16. "hidden" \in RankLabels \ {"readSettings", "journal", "update"}
  BY DEF RankLabels
<1> QED
  BY <1>1, <1>4, <1>7, <1>15, <1>16, PageMoves

LEMMA RankReadHidden ==
  ASSUME RankIInv, NEW h \in Handlers, ReadHidden(h) \/ HistoryFails(h)
  PROVE  RankIInv'
<1>1. /\ at[h] = "hidden" /\ HandlerStep(h, "rows") /\ UNCHANGED Reading
      /\ "rows" \in RankLabels \ {"readSettings", "journal", "update"}
  BY DEF ReadHidden, HistoryFails, HandlerStep, RankLabels
<1>2. PICK v : v = view[h]
  OBVIOUS
<1>5. DOMAIN view = Handlers /\ IsView(v) /\ PageHolds(v, "hidden")
  BY <1>1, <1>2 DEF RankIInv, RankTyped
<1>6. PICK w : /\ HasPage(h, w)
               /\ IsView(w) /\ w.type = v.type /\ w.viewer = v.viewer
               /\ w.day = v.day /\ w.category = v.category /\ w.period = v.period
               /\ w.from = v.from /\ w.to = v.to /\ w.out = v.out /\ w.shy = v.shy
               /\ \/ w.hidden = IF v.type = "cast" THEN HiddenAtDeadline(Deadline(v)) ELSE {}
                  \/ faults' # 0
  <2>1. CASE ReadHidden(h)
    <3>1. PICK w : w = [v EXCEPT !.hidden = IF v.type = "cast" THEN HiddenAtDeadline(Deadline(v)) ELSE {}]
      OBVIOUS
    <3>2. view' = [view EXCEPT ![h] = w]
      BY <1>2, <2>1, <3>1 DEF ReadHidden, Sets
    <3>3. HasPage(h, w)
      BY <1>5, <3>2 DEF HasPage
    <3> QED
      BY <1>5, <3>1, <3>3 DEF IsView, ViewFields
  <2>2. CASE HistoryFails(h)
    <3>1. faults' # 0 /\ view' = view
      BY <2>2, HandlerBoundAssumption DEF HistoryFails, Refused, RankIInv, RankTyped, Bounded
    <3>2. HasPage(h, v)
      BY <1>2, <1>5, <3>1 DEF HasPage
    <3> QED
      BY <1>5, <3>1, <3>2
  <2> QED
    BY <2>1, <2>2
<1>7. AskedFor(w) /\ KeepsWishes(w, "rows")
  BY <1>5, <1>6 DEF PageHolds, PageLabels, AskedFor, KeepsWishes
<1>8. ASSUME CalmPage(w)' PROVE ReadCalmly(w, "rows")
  <2>1. CalmPage(v) /\ faults' = 0
    <3>1. at \in [Handlers -> RankLabels] /\ Bounded /\ Sequential
      BY DEF RankIInv, RankTyped
    <3>2. faults <= faults' /\ (~overlapped' => ~overlapped) /\ "rows" \in RankLabels
      BY <1>1, <3>1, HandlerSteps
    <3>3. today' = today
      BY <1>1 DEF Reading, RankKept
    <3> QED
      BY <1>6, <1>8, <3>1, <3>2, <3>3 DEF CalmPage, Bounded
  <2>2. ReadCalmly(v, "hidden")
    BY <1>5, <2>1 DEF PageHolds, PageLabels
  <2>3. v.category \in EarnedCategories /\ v.type = "cast" =>
           w.hidden = HiddenIn(changes, CreditsRankingDeadline(v.period))
    BY <1>6, <2>1 DEF Deadline, EarnedCategories, HiddenAtDeadline, HiddenIn
  <2> QED
    BY <1>6, <2>2, <2>3 DEF ReadCalmly
<1>9. PageHolds(w, "rows")'
  <2>1. /\ headStart' = headStart /\ today' = today /\ ledgerDays' = ledgerDays
        /\ withdrawn' = withdrawn /\ hides' = hides /\ changes' = changes
    BY <1>1 DEF Reading, RankKept, Visibility
  <2>2. AskedFor(w)' /\ KeepsWishes(w, "rows")'
    BY <1>7, <2>1 DEF AskedFor, KeepsWishes, MonthStart
  <2>3. ReadCalmly(w, "rows")' <=> ReadCalmly(w, "rows")
    BY <2>1, ReadCalmlySame
  <2> QED
    BY <1>8, <2>2, <2>3 DEF PageHolds
<1> QED
  BY <1>1, <1>6, <1>9, PageMoves

\* A statement of a page reads what is there.
LEMMA PageContinues ==
  ASSUME RankIInv, NEW h \in Handlers, at[h] \in PageLabels, NEW l \in PageLabels,
         Continue(h, l), UNCHANGED Reading, NEW w, HasPage(h, w), IsView(w),
         AskedFor(w), KeepsWishes(w, l), CalmPage(w) => ReadCalmly(w, l)
  PROVE  RankIInv'
<1>1. /\ headStart' = headStart /\ today' = today /\ ledgerDays' = ledgerDays
      /\ withdrawn' = withdrawn /\ hides' = hides /\ changes' = changes
  BY DEF Reading, RankKept, Visibility
<1>2. AskedFor(w)' /\ KeepsWishes(w, l)'
  BY <1>1 DEF AskedFor, KeepsWishes, MonthStart
<1>3. ReadCalmly(w, l)' <=> ReadCalmly(w, l)
  BY <1>1, ReadCalmlySame
<1>4. CalmPage(w)' => CalmPage(w)
  BY <1>1 DEF CalmPage, Continue
<1>5. PageHolds(w, l)'
  BY <1>2, <1>3, <1>4 DEF PageHolds
<1>6. /\ l \in RankLabels \ {"readSettings", "journal", "update"} /\ HandlerStep(h, l)
      /\ at[h] \notin {"readSettings", "journal", "update"}
  BY DEF PageLabels, RankLabels, HandlerStep
<1> QED
  BY <1>5, <1>6, PageMoves

LEMMA RankReadRows ==
  ASSUME RankIInv, NEW h \in Handlers, ReadRankingRows(h)
  PROVE  RankIInv'
<1>2. PICK v : v = view[h]
  OBVIOUS
<1>3. PICK us : us = Scoring(v, Public(v))
  OBVIOUS
<1> DEFINE choco == v.category = "event_choco_count"
<1>4. PICK l : l = IF choco THEN "names" ELSE "mine"
  OBVIOUS
<1>5. PICK w : w = [v EXCEPT
                !.rows = [u \in {x \in us : Position(v, x, us) <= Top} |->
                             [position |-> Position(v, u, us), score |-> ScoreOn(v, u)]],
                !.mine = IF choco /\ v.viewer \in us THEN Position(v, v.viewer, us) ELSE 0]
  OBVIOUS
<1>6. /\ at[h] = "rows" /\ Continue(h, l) /\ UNCHANGED Reading
      /\ view' = [view EXCEPT ![h] = w]
  BY <1>2, <1>3, <1>4, <1>5 DEF ReadRankingRows, Sets
<1>7. DOMAIN view = Handlers /\ IsView(v) /\ PageHolds(v, "rows")
  BY <1>2, <1>6 DEF RankIInv, RankTyped
<1>8. HasPage(h, w)
  BY <1>6, <1>7 DEF HasPage
<1>9. /\ IsView(w) /\ w.type = v.type /\ w.viewer = v.viewer /\ w.hidden = v.hidden
      /\ w.day = v.day /\ w.category = v.category /\ w.period = v.period
      /\ w.from = v.from /\ w.to = v.to /\ w.out = v.out /\ w.shy = v.shy
      /\ w.rows = [u \in {x \in us : Position(v, x, us) <= Top} |->
                      [position |-> Position(v, u, us), score |-> ScoreOn(v, u)]]
  BY <1>5, <1>7 DEF IsView, ViewFields
<1>10. \A u \in us : /\ u \in MembersOf(v.type) /\ u \in Ranked /\ u \notin withdrawn
                     /\ ~hides[u] /\ u \notin v.hidden
  BY <1>3 DEF Scoring, Public, MembersOf, Ranked
<1>11. AskedFor(v) /\ KeepsWishes(v, "rows") /\ (CalmPage(v) => ReadCalmly(v, "rows"))
  BY <1>7 DEF PageHolds, PageLabels
<1>12. AskedFor(w)
  BY <1>9, <1>11 DEF AskedFor
<1>13. DOMAIN w.rows \subseteq us
  BY <1>9
<1>14. KeepsWishes(w, l)
  <2>1. \A u \in v.out \cap Ranked : hides[u] \/ u \in withdrawn
    BY <1>11 DEF KeepsWishes
  <2>2. DOMAIN w.rows \cap (w.out \cup w.hidden) = {}
    BY <1>9, <1>10, <1>13, <2>1
  <2>3. DOMAIN w.rows \subseteq MembersOf(w.type) \cap Ranked
    BY <1>9, <1>10, <1>13
  <2>4. \A u \in w.shy \cap Ranked : hides[u]
    BY <1>9, <1>11 DEF KeepsWishes
  <2>5. l \in {"names", "mine"}
    BY <1>4
  <2> QED
    BY <2>2, <2>3, <2>4, <2>5 DEF KeepsWishes
<1>15. ASSUME CalmPage(w) PROVE ReadCalmly(w, l)
  <2>1. ReadCalmly(v, "rows")
    BY <1>9, <1>11, <1>15 DEF CalmPage
  <2>2. CASE v.category \notin EarnedCategories
    BY <1>9, <2>1, <2>2 DEF ReadCalmly
  <2>3. CASE v.category \in EarnedCategories
    <3> DEFINE s == EarnedBetween(v.category, v.from, v.to)
               listed == ScoringIn(s, v.type, withdrawn, Unhidden(hides) \ v.hidden)
    <3>1. l = "mine"
      BY <1>4, <2>3 DEF EarnedCategories
    <3>2. Public(v) = Unhidden(hides) \ v.hidden
      BY DEF Public, Unhidden
    <3>3. us = listed
      BY <1>3, <1>11, <2>3, <3>2, ScoringIs DEF AskedFor
    <3>4. us \subseteq Ranked
      BY <1>10
    <3>5. \A u \in us : Position(v, u, us) = PlaceIn(s, u, us) /\ ScoreOn(v, u) = s[u]
      BY <2>3, <3>4, PositionIs, ScoreOnIs
    <3> HIDE DEF s
    <3>6. RowsAre(w.rows, s, us)
      BY <1>9, <3>5 DEF RowsAre
    <3> QED
      BY <1>9, <2>1, <3>1, <3>3, <3>6 DEF ReadCalmly, s
  <2> QED
    BY <2>2, <2>3
<1>16. at[h] \in PageLabels /\ l \in PageLabels
  BY <1>4, <1>6 DEF PageLabels
<1> QED
  BY <1>6, <1>8, <1>9, <1>12, <1>14, <1>15, <1>16, PageContinues

LEMMA RankReadMine ==
  ASSUME RankIInv, NEW h \in Handlers, ReadMyRanking(h)
  PROVE  RankIInv'
<1>2. PICK v : v = view[h]
  OBVIOUS
<1>3. PICK us : us = Scoring(v, Own(v))
  OBVIOUS
<1>4. PICK w : w = [v EXCEPT !.mine = IF v.viewer \in us THEN Position(v, v.viewer, us) ELSE 0]
  OBVIOUS
<1>6. /\ at[h] = "mine" /\ Continue(h, "names") /\ UNCHANGED Reading
      /\ view' = [view EXCEPT ![h] = w]
  BY <1>2, <1>3, <1>4 DEF ReadMyRanking, Sets
<1>7. DOMAIN view = Handlers /\ IsView(v) /\ PageHolds(v, "mine")
  BY <1>2, <1>6 DEF RankIInv, RankTyped
<1>8. HasPage(h, w)
  BY <1>6, <1>7 DEF HasPage
<1>9. /\ IsView(w) /\ w.type = v.type /\ w.viewer = v.viewer /\ w.hidden = v.hidden
      /\ w.day = v.day /\ w.category = v.category /\ w.period = v.period
      /\ w.from = v.from /\ w.to = v.to /\ w.out = v.out /\ w.shy = v.shy /\ w.rows = v.rows
      /\ w.mine = IF v.viewer \in us THEN Position(v, v.viewer, us) ELSE 0
  BY <1>4, <1>7 DEF IsView, ViewFields
<1>11. AskedFor(v) /\ KeepsWishes(v, "mine") /\ (CalmPage(v) => ReadCalmly(v, "mine"))
  BY <1>7 DEF PageHolds, PageLabels
<1>12. AskedFor(w) /\ KeepsWishes(w, "names")
  BY <1>9, <1>11 DEF AskedFor, KeepsWishes
<1>15. ASSUME CalmPage(w) PROVE ReadCalmly(w, "names")
  <2>1. ReadCalmly(v, "mine")
    BY <1>9, <1>11, <1>15 DEF CalmPage
  <2>2. CASE v.category \notin EarnedCategories
    BY <1>9, <2>1, <2>2 DEF ReadCalmly
  <2>3. CASE v.category \in EarnedCategories
    <3> DEFINE s == EarnedBetween(v.category, v.from, v.to)
               own == ScoringIn(s, v.type, withdrawn, Unhidden(hides) \cup {v.viewer})
    <3>2. Own(v) = Unhidden(hides) \cup {v.viewer}
      BY DEF Own, Unhidden
    <3>3. us = own
      BY <1>3, <1>11, <2>3, <3>2, ScoringIs DEF AskedFor
    <3>4. us \subseteq Ranked /\ v.viewer \in Ranked
      BY <1>3, <1>11 DEF Scoring, MembersOf, Ranked, AskedFor
    <3>5. Position(v, v.viewer, us) = PlaceIn(s, v.viewer, us)
      BY <2>3, <3>4, PositionIs
    <3> HIDE DEF s
    <3>6. MineIs(w.mine, w.viewer, s, us)
      BY <1>9, <3>5 DEF MineIs
    <3> QED
      BY <1>9, <2>1, <3>3, <3>6 DEF ReadCalmly, s
  <2> QED
    BY <2>2, <2>3
<1>16. at[h] \in PageLabels /\ "names" \in PageLabels
  BY <1>6 DEF PageLabels
<1> QED
  BY <1>6, <1>8, <1>9, <1>12, <1>15, <1>16, PageContinues

LEMMA RankReadNames ==
  ASSUME RankIInv, NEW h \in Handlers, ReadNames(h)
  PROVE  RankIInv'
<1>2. PICK v : v = view[h]
  OBVIOUS
<1>4. PICK w : w = [v EXCEPT !.named = {u \in DOMAIN v.rows : Permitted(v, u)}]
  OBVIOUS
<1>6. /\ at[h] = "names" /\ Continue(h, "answered") /\ UNCHANGED Reading
      /\ view' = [view EXCEPT ![h] = w]
  BY <1>2, <1>4 DEF ReadNames, Sets
<1>7. DOMAIN view = Handlers /\ IsView(v) /\ PageHolds(v, "names")
  BY <1>2, <1>6 DEF RankIInv, RankTyped
<1>8. HasPage(h, w)
  BY <1>6, <1>7 DEF HasPage
<1>9. /\ IsView(w) /\ w.type = v.type /\ w.viewer = v.viewer /\ w.hidden = v.hidden
      /\ w.day = v.day /\ w.category = v.category /\ w.period = v.period
      /\ w.from = v.from /\ w.to = v.to /\ w.out = v.out /\ w.shy = v.shy /\ w.rows = v.rows
      /\ w.mine = v.mine /\ w.named = {u \in DOMAIN v.rows : Permitted(v, u)}
  BY <1>4, <1>7 DEF IsView, ViewFields
<1>11. AskedFor(v) /\ KeepsWishes(v, "names") /\ (CalmPage(v) => ReadCalmly(v, "names"))
  BY <1>7 DEF PageHolds, PageLabels
<1>12. AskedFor(w)
  BY <1>9, <1>11 DEF AskedFor
<1>13. KeepsWishes(w, "answered")
  <2>1. /\ \A u \in v.shy \cap Ranked : hides[u]
        /\ DOMAIN v.rows \subseteq MembersOf(v.type) \cap Ranked
        /\ DOMAIN v.rows \cap (v.out \cup v.hidden) = {}
    BY <1>11 DEF KeepsWishes
  <2>2. \A u \in w.named : u \in DOMAIN v.rows /\ (u = v.viewer \/ ~hides[u])
    BY <1>9 DEF Permitted
  <2>3. v.viewer \in RankedGuests => w.named \cap RankedGuests \subseteq {v.viewer}
    BY <1>9, RankingAssumption DEF Permitted
  <2> QED
    BY <1>9, <2>1, <2>2, <2>3 DEF KeepsWishes
<1>15. ASSUME CalmPage(w) PROVE ReadCalmly(w, "answered")
  <2>1. ReadCalmly(v, "names")
    BY <1>9, <1>11, <1>15 DEF CalmPage
  <2> QED
    BY <1>9, <2>1 DEF ReadCalmly
<1>16. at[h] \in PageLabels /\ "answered" \in PageLabels
  BY <1>6 DEF PageLabels
<1> QED
  BY <1>6, <1>8, <1>9, <1>12, <1>13, <1>15, <1>16, PageContinues

LEMMA RankLeavePage ==
  ASSUME RankIInv, NEW h \in Handlers, LeavePage(h)
  PROVE  RankIInv'
<1>1. /\ at[h] = "answered" /\ HandlerStep(h, "idle") /\ UNCHANGED Reading
      /\ view' = [view EXCEPT ![h] = NoView]
  BY DEF LeavePage, End, HandlerStep, Sets
<1>2. HasPage(h, NoView)
  BY <1>1 DEF HasPage, RankIInv, RankTyped
<1>3. IsView(NoView)
  BY DEF NoView, IsView, ViewFields
<1>4. PageHolds(NoView, "idle")'
  BY DEF PageHolds, PageLabels
<1>5. "idle" \in RankLabels \ {"readSettings", "journal", "update"}
  BY DEF RankLabels
<1> QED
  BY <1>1, <1>2, <1>3, <1>4, <1>5, PageMoves

-----------------------------------------------------------------------------
(* The history of settings *)

\* What a new entry says of its member and of the others, now and at a deadline.
LEMMA EntryAppended ==
  ASSUME NEW cs \in Seq(RankChange), NEW c \in RankChange
  PROVE  /\ LastHid(Append(cs, c), c.user) <=> ~c.visible
         /\ \A w : w # c.user =>
               /\ LastHid(Append(cs, c), w) <=> LastHid(cs, w)
               /\ \A d \in Int : w \in HiddenIn(cs, d) => w \in HiddenIn(Append(cs, c), d)
         /\ \A w : \A d \in Int : w \in HiddenIn(cs, d) /\ ~(c.at <= d) => w \in HiddenIn(Append(cs, c), d)
         /\ \A d \in Int : ~c.visible /\ c.at <= d => c.user \in HiddenIn(Append(cs, c), d)
<1> DEFINE n == Len(cs)
<1>1. PICK ds : ds = Append(cs, c)
  OBVIOUS
<1>2. /\ n \in Nat /\ DOMAIN cs = 1..n /\ DOMAIN ds = 1..(n + 1) /\ ds[n + 1] = c
      /\ \A i \in 1..n : ds[i] = cs[i] /\ i \in 1..(n + 1)
  BY <1>1
<1>3. c.user \in Ranked /\ c.at \in Int
  BY RankingAssumption DEF RankChange, Days
<1> HIDE DEF n
<1>4. \A i \in 1..(n + 1) : i \in 1..n \/ i = n + 1
  BY <1>2
<1>5. \A i \in 1..n : n + 1 > i
  BY <1>2
<1>6. n + 1 \in 1..(n + 1) /\ \A j \in 1..(n + 1) : ~(j > n + 1)
  BY <1>2
<1>7. LastHid(ds, c.user) <=> ~c.visible
  <2>1. ASSUME ~c.visible PROVE LastHid(ds, c.user)
    BY <1>2, <1>6, <2>1 DEF LastHid
  <2>2. ASSUME LastHid(ds, c.user) PROVE ~c.visible
    <3>1. PICK i \in DOMAIN ds : /\ ds[i].user = c.user /\ ~ds[i].visible
                                 /\ \A j \in DOMAIN ds : j > i => ds[j].user # c.user
      BY <2>2 DEF LastHid
    <3>2. i = n + 1
      BY <1>2, <1>4, <1>5, <1>6, <3>1
    <3> QED
      BY <1>2, <3>1, <3>2
  <2> QED
    BY <2>1, <2>2
<1>8. ASSUME NEW w, w # c.user
      PROVE  LastHid(ds, w) <=> LastHid(cs, w)
  <2>1. ASSUME LastHid(cs, w) PROVE LastHid(ds, w)
    <3>1. PICK i \in 1..n : /\ cs[i].user = w /\ ~cs[i].visible
                            /\ \A j \in 1..n : j > i => cs[j].user # w
      BY <1>2, <2>1 DEF LastHid
    <3> QED
      BY <1>2, <1>4, <1>8, <3>1 DEF LastHid
  <2>2. ASSUME LastHid(ds, w) PROVE LastHid(cs, w)
    <3>1. PICK i \in 1..(n + 1) : /\ ds[i].user = w /\ ~ds[i].visible
                                  /\ \A j \in 1..(n + 1) : j > i => ds[j].user # w
      BY <1>2, <2>2 DEF LastHid
    <3>2. i \in 1..n
      BY <1>2, <1>4, <1>8, <3>1
    <3> QED
      BY <1>2, <3>1, <3>2 DEF LastHid
  <2> QED
    BY <2>1, <2>2
<1>9. ASSUME NEW w, NEW d \in Int, w \in HiddenIn(cs, d), w # c.user \/ ~(c.at <= d)
      PROVE  w \in HiddenIn(ds, d)
  <2>1. PICK i \in 1..n : /\ cs[i].user = w /\ cs[i].at <= d /\ ~cs[i].visible
                          /\ \A j \in 1..n : j > i => cs[j].user # w \/ cs[j].at > d
    BY <1>2, <1>9 DEF HiddenIn
  <2>2. w \in Ranked
    BY <1>9 DEF HiddenIn
  <2>3. \A j \in 1..(n + 1) : j > i => ds[j].user # w \/ ds[j].at > d
    <3>1. ds[n + 1].user # w \/ ds[n + 1].at > d
      BY <1>2, <1>3, <1>9
    <3> QED
      BY <1>2, <1>4, <2>1, <3>1
  <2>4. i \in 1..(n + 1) /\ ds[i].user = w /\ ds[i].at <= d /\ ~ds[i].visible
    BY <1>2, <2>1
  <2> QED
    BY <1>2, <2>2, <2>3, <2>4 DEF HiddenIn
<1>10. ASSUME NEW d \in Int, ~c.visible, c.at <= d PROVE c.user \in HiddenIn(ds, d)
  BY <1>2, <1>3, <1>6, <1>10 DEF HiddenIn
<1> QED
  BY <1>1, <1>7, <1>8, <1>9, <1>10

\* Who was hidden last is hidden at any deadline that is not over.
LEMMA LastIsHidden ==
  ASSUME NEW cs \in Seq(RankChange), NEW t \in Int, \A i \in DOMAIN cs : cs[i].at <= t,
         NEW d \in Int, t <= d, NEW u \in Ranked, LastHid(cs, u)
  PROVE  u \in HiddenIn(cs, d)
<1>1. PICK i \in DOMAIN cs : /\ cs[i].user = u /\ ~cs[i].visible
                             /\ \A j \in DOMAIN cs : j > i => cs[j].user # u
  BY DEF LastHid
<1>2. cs[i].at \in Int
  <2>1. cs[i] \in RankChange
    BY <1>1
  <2> QED
    BY <2>1, RankingAssumption DEF RankChange, Days
<1>3. cs[i].at <= d
  BY <1>2
<1> QED
  BY <1>1, <1>3 DEF HiddenIn

-----------------------------------------------------------------------------
(* Earning, settings and days *)

\* While a handler is about something else, the pages of others need not be calm.
LEMMA SettingMoves ==
  ASSUME RankIInv, NEW h \in Handlers, NEW l \in RankLabels \ PageLabels, HandlerStep(h, l),
         headStart' = headStart, today' = today, closing' = closing,
         NEW es, ledgerDays' = ledgerDays \cup es, IsFiniteSet(es),
         \A e \in es : {e.charged, e.credited} \subseteq Int /\ e.at = today,
         hides' \in [Ranked -> BOOLEAN], wishes' \in [Ranked -> [Days -> BOOLEAN]],
         changes' \in Seq(RankChange), \A i \in DOMAIN changes' : changes'[i].at <= today,
         NEW x \in RankSavings, saving' = [saving EXCEPT ![h] = x],
         DOMAIN view' = Handlers, \A g \in Handlers : IsView(view'[g]),
         \A g \in Handlers \ {h} : at[g] \in PageLabels =>
             AskedFor(view[g])' /\ KeepsWishes(view[g], at[g])',
         WishesStand', HistoryHolds', SavingHolds(h)'
  PROVE  RankIInv'
<1>1. at \in [Handlers -> RankLabels] /\ Bounded /\ Sequential /\ RankTyped
  BY DEF RankIInv, RankTyped
<1>2. /\ at' \in [Handlers -> RankLabels] /\ Bounded' /\ Sequential' /\ MovesTo(h, l)
      /\ faults <= faults'
      /\ (~overlapped' => \A g \in Handlers \ {h} : at[g] = "idle" /\ at'[g] = "idle")
  BY <1>1, HandlerSteps
<1>3. today \in Days /\ IsFiniteSet(ledgerDays')
  BY <1>1, FS_Union DEF RankTyped
<1>4. today <= today
  BY RankingAssumption, <1>3 DEF Days
<1>5. \A e \in ledgerDays' : {e.charged, e.credited} \subseteq Int /\ e.at \in Days /\ e.at <= today
  BY <1>1, <1>3, <1>4 DEF RankTyped
<1>6. saving' \in [Handlers -> RankSavings] /\ \A g \in Handlers \ {h} : saving'[g] = saving[g]
  BY <1>1 DEF RankTyped
<1>7. RankTyped'
  <2>1. headStart' \in HeadStarts /\ today' \in Days
    BY <1>1, <1>3 DEF RankTyped
  <2> QED
    BY <1>2, <1>3, <1>5, <1>6, <2>1 DEF RankTyped, IsView
<1>8. ClosingHolds'
  <2>1. ClosingHolds /\ \A e \in es : e.at = today
    BY DEF RankIInv
  <2> QED
    BY <1>1, <2>1, ClosingStays
<1>9. ASSUME NEW g \in Handlers PROVE SavingHolds(g)'
  <2>1. CASE g = h
    BY <2>1
  <2>2. CASE g # h
    <3>1. SavingHolds(g) /\ at'[g] = at[g] /\ saving'[g] = saving[g]
      BY <1>2, <1>6, <2>2 DEF RankIInv, MovesTo
    <3>2. ~overlapped' => at'[g] = "idle"
      BY <1>2, <2>2
    <3> QED
      BY <3>1, <3>2 DEF SavingHolds
  <2> QED
    BY <2>1, <2>2
<1>10. ASSUME NEW g \in Handlers PROVE PageHolds(view[g], at[g])'
  <2>1. CASE g = h
    BY <1>2, <2>1 DEF PageHolds, MovesTo
  <2>2. CASE g # h
    <3>1. at'[g] = at[g] /\ (at[g] \in PageLabels => overlapped')
      BY <1>2, <2>2 DEF MovesTo, PageLabels
    <3>2. at[g] \in PageLabels => AskedFor(view[g])' /\ KeepsWishes(view[g], at[g])'
      BY <2>2
    <3> QED
      BY <3>1, <3>2 DEF PageHolds, CalmPage
  <2> QED
    BY <2>1, <2>2
<1> QED
  BY <1>7, <1>8, <1>9, <1>10 DEF RankIInv

\* A page's wishes are kept as long as nobody's setting changes; the day is the same.
LEMMA PagesKept ==
  ASSUME RankIInv, hides' = hides, withdrawn \subseteq withdrawn', view' = view, today' = today,
         NEW g \in Handlers, at[g] \in PageLabels, at'[g] = at[g]
  PROVE  AskedFor(view[g])' /\ KeepsWishes(view[g], at[g])'
<1>1. AskedFor(view[g]) /\ KeepsWishes(view[g], at[g])
  BY DEF RankIInv, PageHolds
<1>2. AskedFor(view[g])'
  BY <1>1 DEF AskedFor, MonthStart
<1>3. KeepsWishes(view[g], at[g])'
  BY <1>1 DEF KeepsWishes
<1> QED
  BY <1>2, <1>3

LEMMA HistoryStays ==
  ASSUME RankIInv, NEW h \in Handlers, NEW l \in RankLabels, HandlerStep(h, l), at[h] # "update",
         hides' = hides, wishes' = wishes, changes' = changes, today' = today
  PROVE  HistoryHolds' /\ WishesStand'
<1>1. at \in [Handlers -> RankLabels] /\ Bounded /\ Sequential
  BY DEF RankIInv, RankTyped
<1>2. /\ MovesTo(h, l) /\ Bounded' /\ faults <= faults'
      /\ (~overlapped' => ~overlapped /\ \A g \in Handlers \ {h} : at[g] = "idle")
  BY <1>1, HandlerSteps
<1>3. faults' = 0 => faults = 0
  BY <1>1, <1>2 DEF Bounded
<1>4. HistoryHolds'
  BY <1>2, <1>3 DEF RankIInv, HistoryHolds, Updating
<1>5. WishesStand'
  BY DEF RankIInv, WishesStand
<1> QED
  BY <1>4, <1>5

\* What no step but those on a setting changes.
SettingsKept == hides' = hides /\ wishes' = wishes /\ changes' = changes

LEMMA RankQuiet ==
  ASSUME RankIInv, NEW h \in Handlers, NEW l \in RankLabels \ PageLabels, HandlerStep(h, l),
         at[h] # "update",
         headStart' = headStart, today' = today, closing' = closing, SettingsKept,
         NEW es, ledgerDays' = ledgerDays \cup es, IsFiniteSet(es),
         \A e \in es : {e.charged, e.credited} \subseteq Int /\ e.at = today,
         withdrawn \subseteq withdrawn', view' = view,
         NEW x \in RankSavings, saving' = [saving EXCEPT ![h] = x], SavingHolds(h)'
  PROVE  RankIInv'
<1>1. /\ hides' \in [Ranked -> BOOLEAN] /\ wishes' \in [Ranked -> [Days -> BOOLEAN]]
      /\ changes' \in Seq(RankChange) /\ \A i \in DOMAIN changes' : changes'[i].at <= today
      /\ DOMAIN view' = Handlers /\ \A g \in Handlers : IsView(view'[g])
  BY DEF RankIInv, RankTyped, SettingsKept
<1>2. HistoryHolds' /\ WishesStand'
  BY HistoryStays DEF SettingsKept
<1>3. at \in [Handlers -> RankLabels] /\ Bounded /\ Sequential
  BY DEF RankIInv, RankTyped
<1>4. MovesTo(h, l)
  BY <1>3, HandlerSteps
<1>5. ASSUME NEW g \in Handlers \ {h}, at[g] \in PageLabels
      PROVE  AskedFor(view[g])' /\ KeepsWishes(view[g], at[g])'
  <2>1. at'[g] = at[g]
    BY <1>4, <1>5 DEF MovesTo
  <2> QED
    BY <1>5, <2>1, PagesKept DEF SettingsKept
<1> QED
  BY <1>1, <1>2, <1>5, SettingMoves

LEMMA RankEarn ==
  ASSUME RankIInv, NEW h \in Handlers, EarnSomething(h)
  PROVE  RankIInv'
<1>1. PICK e \in ScoreRows : ledgerDays' = ledgerDays \cup
              {[from |-> e.from, to |-> e.to, category |-> e.category, charged |-> e.charged,
                credited |-> e.credited, template |-> e.template, recipient |-> e.recipient,
                at |-> today]}
  BY DEF EarnSomething
<1>2. PICK es : es = {[from |-> e.from, to |-> e.to, category |-> e.category, charged |-> e.charged,
                credited |-> e.credited, template |-> e.template, recipient |-> e.recipient,
                at |-> today]}
  OBVIOUS
<1>3. ledgerDays' = ledgerDays \cup es
  BY <1>1, <1>2
<1>4. IsFiniteSet(es)
  BY <1>2, FS_Singleton
<1>5. \A d \in es : {d.charged, d.credited} \subseteq Int /\ d.at = today
  BY <1>2, RankingAssumption
<1>6. PICK x : x = saving[h]
  OBVIOUS
<1>7. x \in RankSavings /\ saving' = [saving EXCEPT ![h] = x]
  BY <1>6 DEF RankIInv, RankTyped, EarnSomething
<1>8. /\ at[h] = "idle" /\ HandlerStep(h, "idle") /\ "idle" \in RankLabels \ PageLabels
      /\ headStart' = headStart /\ today' = today /\ closing' = closing /\ SettingsKept
      /\ withdrawn \subseteq withdrawn' /\ view' = view
  BY DEF EarnSomething, Begin, Deliver, HandlerStep, RankLabels, PageLabels, SettingsKept, Visibility
<1>9. SavingHolds(h)'
  <2>1. at'[h] = "idle"
    BY DEF EarnSomething, Begin, Deliver, Goto, RankIInv, RankTyped
  <2> QED
    BY <2>1 DEF SavingHolds
<1> QED
  BY <1>3, <1>4, <1>5, <1>7, <1>8, <1>9, RankQuiet

LEMMA RankWithdraw ==
  ASSUME RankIInv, NEW h \in Handlers, WithdrawMember(h)
  PROVE  RankIInv'
<1>1. PICK es : es = {}
  OBVIOUS
<1>2. ledgerDays' = ledgerDays \cup es /\ IsFiniteSet(es)
  BY <1>1, FS_EmptySet DEF WithdrawMember
<1>3. \A d \in es : {d.charged, d.credited} \subseteq Int /\ d.at = today
  BY <1>1
<1>6. PICK x : x = saving[h]
  OBVIOUS
<1>7. x \in RankSavings /\ saving' = [saving EXCEPT ![h] = x]
  BY <1>6 DEF RankIInv, RankTyped, WithdrawMember
<1>8. /\ at[h] = "idle" /\ HandlerStep(h, "idle") /\ "idle" \in RankLabels \ PageLabels
      /\ headStart' = headStart /\ today' = today /\ closing' = closing /\ SettingsKept
      /\ withdrawn \subseteq withdrawn' /\ view' = view
  BY DEF WithdrawMember, Begin, Deliver, HandlerStep, RankLabels, PageLabels, SettingsKept, Visibility
<1>9. SavingHolds(h)'
  <2>1. at'[h] = "idle"
    BY DEF WithdrawMember, Begin, Deliver, Goto, RankIInv, RankTyped
  <2> QED
    BY <2>1 DEF SavingHolds
<1> QED
  BY <1>2, <1>3, <1>7, <1>8, <1>9, RankQuiet

\* The same for a step of a handler on its way to save a setting.
LEMMA RankSaves ==
  ASSUME RankIInv, NEW h \in Handlers, NEW l \in RankLabels \ PageLabels, HandlerStep(h, l),
         at[h] # "update", UNCHANGED RankKept, UNCHANGED Visibility, view' = view,
         NEW x \in RankSavings, saving' = [saving EXCEPT ![h] = x], SavingHolds(h)'
  PROVE  RankIInv'
<1>1. PICK es : es = {}
  OBVIOUS
<1>2. ledgerDays' = ledgerDays \cup es /\ IsFiniteSet(es)
  BY <1>1, FS_EmptySet DEF RankKept
<1>3. \A d \in es : {d.charged, d.credited} \subseteq Int /\ d.at = today
  BY <1>1
<1>4. /\ headStart' = headStart /\ today' = today /\ closing' = closing /\ SettingsKept
      /\ withdrawn \subseteq withdrawn'
  BY DEF RankKept, Visibility, SettingsKept
<1> QED
  BY <1>2, <1>3, <1>4, RankQuiet

LEMMA RankAskSettings ==
  ASSUME RankIInv, NEW h \in Handlers, AskSettings(h)
  PROVE  RankIInv'
<1>1. PICK u \in Ranked, new \in BOOLEAN :
         saving' = [saving EXCEPT ![h] = [user |-> u, old |-> FALSE, new |-> new]]
  BY DEF AskSettings
<1>2. PICK x : x = [user |-> u, old |-> FALSE, new |-> new]
  OBVIOUS
<1>3. x \in RankSavings /\ x.user \in Ranked /\ saving' = [saving EXCEPT ![h] = x]
  BY <1>1, <1>2 DEF RankSavings
<1>4. /\ at[h] = "idle" /\ HandlerStep(h, "readSettings")
      /\ "readSettings" \in RankLabels \ PageLabels
      /\ UNCHANGED RankKept /\ UNCHANGED Visibility /\ view' = view
  BY DEF AskSettings, Begin, Deliver, HandlerStep, RankLabels, PageLabels
<1>5. at'[h] = "readSettings" /\ saving'[h] = x
  BY <1>3 DEF AskSettings, Begin, Deliver, Goto, RankIInv, RankTyped
<1>6. SavingHolds(h)'
  BY <1>3, <1>5 DEF SavingHolds
<1> QED
  BY <1>3, <1>4, <1>6, RankSaves

LEMMA RankFindSettings ==
  ASSUME RankIInv, NEW h \in Handlers, FindSettings(h)
  PROVE  RankIInv'
<1>1. PICK s : s = saving[h]
  OBVIOUS
<1>2. PICK x : x = [s EXCEPT !.old = hides[s.user]]
  OBVIOUS
<1>3. PICK l : l = IF x.old # s.new THEN "journal" ELSE "update"
  OBVIOUS
<1>4. /\ at \in [Handlers -> RankLabels] /\ Bounded /\ Sequential
      /\ s \in RankSavings /\ saving \in [Handlers -> RankSavings] /\ hides \in [Ranked -> BOOLEAN]
  BY <1>1 DEF RankIInv, RankTyped
<1>5. at[h] = "readSettings" /\ saving' = [saving EXCEPT ![h] = x]
  BY <1>1, <1>2 DEF FindSettings
<1>6. saving'[h] = x
  BY <1>4, <1>5
<1>7. s.user \in Ranked
  BY <1>1, <1>5 DEF RankIInv, SavingHolds
<1>8. x \in RankSavings /\ x.user = s.user /\ x.new = s.new /\ x.old = hides[s.user]
  BY <1>2, <1>4, <1>7 DEF RankSavings
<1>9. Continue(h, l)
  BY <1>1, <1>3, <1>6 DEF FindSettings
<1>10. /\ HandlerStep(h, l) /\ l \in RankLabels \ PageLabels
       /\ UNCHANGED RankKept /\ UNCHANGED Visibility /\ view' = view
  BY <1>3, <1>5, <1>9 DEF FindSettings, HandlerStep, RankLabels, PageLabels
<1>11. at'[h] = l /\ overlapped' = overlapped /\ faults' = faults
  BY <1>4, <1>9 DEF Continue, Goto
<1>12. SavingHolds(h)'
  <2>1. hides' = hides /\ changes' = changes
    BY <1>10 DEF Visibility
  <2>2. l = "journal" => x.new # hides[x.user]
    BY <1>3, <1>8
  <2>3. ~overlapped /\ faults = 0 => (LastHid(changes, s.user) <=> hides[s.user])
    <3>1. ~overlapped => \A g \in Handlers : ~Updating(g, s.user)
      BY <1>4, <1>5 DEF Sequential, OnlyOne, Updating
    <3> QED
      BY <1>7, <3>1 DEF RankIInv, HistoryHolds
  <2>4. l = "update" => x.new = hides[x.user]
    BY <1>3, <1>8
  <2>5. l \in {"journal", "update"}
    BY <1>3
  <2> QED
    BY <1>6, <1>7, <1>8, <1>11, <2>1, <2>2, <2>3, <2>4, <2>5 DEF SavingHolds
<1> QED
  BY <1>5, <1>8, <1>10, <1>12, RankSaves

\* From today on, u wishes what new says; before, as it was.
LEMMA Wished ==
  ASSUME RankTyped, NEW u \in Ranked, NEW new \in BOOLEAN
  PROVE  /\ Wishing(u, new) \in [Ranked -> [Days -> BOOLEAN]]
         /\ \A w \in Ranked : w # u => Wishing(u, new)[w] = wishes[w]
         /\ \A d \in Days : Wishing(u, new)[u][d] = IF d < today THEN wishes[u][d] ELSE new
BY DEF RankTyped, Wishing

LEMMA RankJournal ==
  ASSUME RankIInv, NEW h \in Handlers, Journal(h)
  PROVE  RankIInv'
<1>1. PICK u, new : u = saving[h].user /\ new = saving[h].new
  OBVIOUS
<1>2. PICK c : c = [user |-> u, visible |-> ~new, at |-> today]
  OBVIOUS
<1>3. /\ at \in [Handlers -> RankLabels] /\ Bounded /\ Sequential /\ RankTyped
      /\ changes \in Seq(RankChange) /\ saving \in [Handlers -> RankSavings]
      /\ wishes \in [Ranked -> [Days -> BOOLEAN]] /\ today \in Days /\ hides \in [Ranked -> BOOLEAN]
      /\ \A i \in DOMAIN changes : changes[i].at <= today
  BY DEF RankIInv, RankTyped
<1>4. at[h] = "journal" /\ u \in Ranked /\ new \in BOOLEAN
  BY <1>1, <1>3 DEF Journal, RankIInv, SavingHolds, RankSavings
<1>5. c \in RankChange /\ c.user = u /\ c.visible = ~new /\ c.at = today
  BY <1>2, <1>3, <1>4 DEF RankChange
<1>6. changes' = Append(changes, c)
  BY <1>1, <1>2 DEF Journal
<1>7. wishes' = IF new THEN wishes ELSE Wishing(u, FALSE)
  BY <1>1 DEF Journal
<1>8. /\ Continue(h, "update") /\ HandlerStep(h, "update") /\ "update" \in RankLabels \ PageLabels
      /\ hides' = hides /\ saving' = saving /\ view' = view
      /\ headStart' = headStart /\ today' = today /\ closing' = closing
      /\ ledgerDays' = ledgerDays /\ withdrawn' = withdrawn
  BY <1>4 DEF Journal, HandlerStep, RankLabels, PageLabels, RankKept
<1>9. MovesTo(h, "update") /\ (~overlapped' => ~overlapped) /\ faults' = faults
  BY <1>3, <1>8, HandlerSteps DEF Continue
<1>10. today \in Int /\ Days \subseteq Int
  BY <1>3, RankingAssumption DEF Days
<1>11. changes' \in Seq(RankChange) /\ \A i \in DOMAIN changes' : changes'[i].at <= today
  <2>1. /\ changes' \in Seq(RankChange) /\ DOMAIN changes' = 1..(Len(changes) + 1)
        /\ DOMAIN changes = 1..Len(changes) /\ Len(changes) \in Nat
        /\ changes'[Len(changes) + 1] = c
        /\ \A i \in 1..Len(changes) : changes'[i] = changes[i]
    BY <1>3, <1>5, <1>6
  <2>2. \A i \in 1..(Len(changes) + 1) : i \in 1..Len(changes) \/ i = Len(changes) + 1
    BY <2>1
  <2>3. today <= today
    BY <1>10
  <2> QED
    BY <1>3, <1>5, <2>1, <2>2, <2>3
<1>12. wishes' \in [Ranked -> [Days -> BOOLEAN]]
  BY <1>3, <1>4, <1>7, Wished
<1>13. \A w \in Ranked : w # u => wishes'[w] = wishes[w]
  BY <1>3, <1>4, <1>7, Wished
<1>14. /\ new => wishes'[u] = wishes[u]
       /\ \A d \in Days : d < today => wishes'[u][d] = wishes[u][d]
       /\ \A d \in Days : ~new /\ ~(d < today) => ~wishes'[u][d]
  BY <1>3, <1>4, <1>7, Wished
<1>15. WishesStand'
  <2>1. WishesStand
    BY DEF RankIInv
  <2>2. ASSUME NEW w \in Ranked
        PROVE  /\ \A d \in Days : d >= today => wishes'[w][d] = wishes'[w][today]
               /\ wishes'[w][today] => hides[w]
    <3>1. CASE w # u
      BY <1>13, <2>1, <3>1 DEF WishesStand
    <3>2. CASE w = u
      <4>1. /\ \A d \in Days : d >= today => wishes[u][d] = wishes[u][today]
            /\ wishes[u][today] => hides[u]
        BY <1>4, <2>1 DEF WishesStand
      <4>2. CASE new
        BY <1>14, <3>2, <4>1, <4>2
      <4>3. CASE ~new
        <5>1. \A d \in Days : d >= today => ~(d < today)
          BY <1>10
        <5>2. today \in Days /\ today >= today
          BY <1>3, <1>10
        <5>3. \A d \in Days : d >= today => wishes'[u][d] = FALSE
          BY <1>3, <1>4, <1>12, <1>14, <4>3, <5>1
        <5> QED
          BY <3>2, <5>2, <5>3
      <4> QED
        BY <4>2, <4>3
    <3> QED
      BY <3>1, <3>2
  <2> QED
    BY <1>8, <2>2 DEF WishesStand
<1>16. /\ LastHid(changes', u) <=> new
       /\ \A w : w # u =>
             /\ LastHid(changes', w) <=> LastHid(changes, w)
             /\ \A d \in Int : w \in HiddenIn(changes, d) => w \in HiddenIn(changes', d)
       /\ \A d \in Int : u \in HiddenIn(changes, d) /\ ~(today <= d) => u \in HiddenIn(changes', d)
       /\ \A d \in Int : new /\ today <= d => u \in HiddenIn(changes', d)
  BY <1>3, <1>4, <1>5, <1>6, EntryAppended
<1>17. HistoryHolds'
  <2> SUFFICES ASSUME ~overlapped', faults' = 0, NEW w \in Ranked
               PROVE  /\ (\A g \in Handlers : ~Updating(g, w)') =>
                            (LastHid(changes', w) <=> hides'[w]) /\ (hides'[w] => wishes'[w][today'])
                      /\ \A d \in Days : wishes'[w][d] => w \in HiddenIn(changes', d)
    BY DEF HistoryHolds
  <2>1. HistoryHolds /\ ~overlapped /\ faults = 0
    BY <1>9 DEF RankIInv
  <2>2. /\ \A g \in Handlers : ~Updating(g, w)
        /\ (LastHid(changes, w) <=> hides[w]) /\ (hides[w] => wishes[w][today])
        /\ \A d \in Days : wishes[w][d] => w \in HiddenIn(changes, d)
    <3>1. \A g \in Handlers : ~Updating(g, w)
      BY <1>3, <1>4, <2>1 DEF Sequential, OnlyOne, Updating
    <3> QED
      BY <2>1, <3>1 DEF HistoryHolds
  <2>3. CASE w # u
    BY <1>8, <1>10, <1>13, <1>16, <2>2, <2>3
  <2>4. CASE w = u
    <3>1. Updating(h, w)'
      BY <1>1, <1>8, <1>9, <2>4 DEF Updating, MovesTo
    <3>2. ASSUME NEW d \in Days, wishes'[w][d] PROVE w \in HiddenIn(changes', d)
      <4>1. d \in Int /\ today \in Int
        BY <1>10
      <4>2. CASE d < today
        <5>1. wishes[u][d]
          BY <1>14, <2>4, <3>2, <4>2
        <5> QED
          BY <1>16, <2>2, <2>4, <4>1, <4>2, <5>1
      <4>3. CASE ~(d < today)
        <5>1. new /\ today <= d
          BY <1>14, <2>4, <3>2, <4>1, <4>3
        <5> QED
          BY <1>16, <2>4, <4>1, <5>1
      <4> QED
        BY <4>2, <4>3
    <3> QED
      BY <3>1, <3>2
  <2> QED
    BY <2>3, <2>4
<1>18. SavingHolds(h)'
  BY <1>1, <1>4, <1>8, <1>9, <1>16 DEF SavingHolds, MovesTo
<1>19. PICK es : es = {}
  OBVIOUS
<1>20. /\ ledgerDays' = ledgerDays \cup es /\ IsFiniteSet(es)
       /\ \A d \in es : {d.charged, d.credited} \subseteq Int /\ d.at = today
  BY <1>8, <1>19, FS_EmptySet
<1>21. PICK x : x = saving[h]
  OBVIOUS
<1>22. x \in RankSavings /\ saving' = [saving EXCEPT ![h] = x]
  BY <1>3, <1>8, <1>21
<1>23. /\ hides' \in [Ranked -> BOOLEAN]
       /\ DOMAIN view' = Handlers /\ \A g \in Handlers : IsView(view'[g])
  BY <1>3, <1>8 DEF RankTyped
<1>24. ASSUME NEW g \in Handlers \ {h}, at[g] \in PageLabels
       PROVE  AskedFor(view[g])' /\ KeepsWishes(view[g], at[g])'
  <2>1. at'[g] = at[g] /\ withdrawn \subseteq withdrawn'
    BY <1>8, <1>9 DEF MovesTo
  <2> QED
    BY <1>8, <1>24, <2>1, PagesKept
<1> QED
  BY <1>8, <1>11, <1>12, <1>15, <1>17, <1>18, <1>20, <1>22, <1>23, <1>24, SettingMoves

\* What the pages of others know after u was told.
LEMMA ToldKeeps ==
  ASSUME RankIInv, NEW u \in Ranked, NEW new \in BOOLEAN, Told(u, new),
         hides' = [hides EXCEPT ![u] = new], today' = today, withdrawn' = withdrawn,
         NEW g \in Handlers
  PROVE  /\ IsView(view'[g])
         /\ at[g] \in PageLabels /\ at'[g] = at[g] =>
               AskedFor(view[g])' /\ KeepsWishes(view[g], at[g])'
<1>1. PICK v, w, l : v = view[g] /\ w = view'[g] /\ l = at[g]
  OBVIOUS
<1>2. w = IF l \in {"hidden", "rows", "mine", "names"}
          THEN [v EXCEPT
                  !.out = IF ~new THEN v.out \ {u}
                          ELSE IF l \in {"hidden", "rows"} THEN v.out \cup {u} ELSE v.out,
                  !.shy = IF new THEN v.shy \cup {u} ELSE v.shy \ {u}]
          ELSE v
  BY <1>1 DEF Told
<1>3. IsView(v)
  BY <1>1 DEF RankIInv, RankTyped
<1>4. /\ IsView(w) /\ w.type = v.type /\ w.viewer = v.viewer /\ w.hidden = v.hidden
      /\ w.day = v.day /\ w.category = v.category /\ w.period = v.period
      /\ w.from = v.from /\ w.to = v.to /\ w.rows = v.rows /\ w.named = v.named
      /\ w.out = IF l \in {"hidden", "rows", "mine", "names"}
                 THEN IF ~new THEN v.out \ {u}
                      ELSE IF l \in {"hidden", "rows"} THEN v.out \cup {u} ELSE v.out
                 ELSE v.out
      /\ w.shy = IF l \in {"hidden", "rows", "mine", "names"}
                 THEN IF new THEN v.shy \cup {u} ELSE v.shy \ {u}
                 ELSE v.shy
  BY <1>2, <1>3 DEF IsView, ViewFields
<1>5. /\ hides'[u] = new
      /\ \A x \in Ranked : x # u => hides'[x] = hides[x]
  BY DEF RankIInv, RankTyped
<1>6. ASSUME l \in PageLabels, at'[g] = l
      PROVE  AskedFor(view[g])' /\ KeepsWishes(view[g], at[g])'
  <2>1. AskedFor(v) /\ KeepsWishes(v, l)
    BY <1>1, <1>6 DEF RankIInv, PageHolds
  <2>2. AskedFor(w)'
    BY <1>4, <2>1 DEF AskedFor, MonthStart
  <2>3. l \in {"hidden", "rows"} => \A x \in w.out \cap Ranked : hides'[x] \/ x \in withdrawn'
    BY <1>4, <1>5, <2>1 DEF KeepsWishes
  <2>4. l \in {"hidden", "rows", "mine", "names"} => \A x \in w.shy \cap Ranked : hides'[x]
    BY <1>4, <1>5, <2>1 DEF KeepsWishes
  <2>5. l \in {"mine", "names", "answered"} =>
          /\ DOMAIN w.rows \subseteq MembersOf(w.type) \cap Ranked
          /\ DOMAIN w.rows \cap (w.out \cup w.hidden) = {}
    <3>1. l \in {"mine", "names", "answered"} => w.out \subseteq v.out
      BY <1>4
    <3> QED
      BY <1>4, <2>1, <3>1 DEF KeepsWishes
  <2>6. l = "answered" =>
          /\ w.named \subseteq DOMAIN w.rows /\ w.named \cap w.shy \subseteq {w.viewer}
          /\ w.viewer \in RankedGuests => w.named \cap RankedGuests \subseteq {w.viewer}
    BY <1>4, <2>1 DEF KeepsWishes
  <2>7. KeepsWishes(w, l)'
    BY <2>3, <2>4, <2>5, <2>6 DEF KeepsWishes
  <2> QED
    BY <1>1, <1>6, <2>2, <2>7
<1> QED
  BY <1>1, <1>4, <1>6

LEMMA RankUpdate ==
  ASSUME RankIInv, NEW h \in Handlers, UpdateSettings(h)
  PROVE  RankIInv'
<1>1. PICK u, new : u = saving[h].user /\ new = saving[h].new
  OBVIOUS
<1>2. /\ at \in [Handlers -> RankLabels] /\ Bounded /\ Sequential /\ RankTyped
      /\ changes \in Seq(RankChange) /\ saving \in [Handlers -> RankSavings]
      /\ wishes \in [Ranked -> [Days -> BOOLEAN]] /\ today \in Days /\ hides \in [Ranked -> BOOLEAN]
      /\ \A i \in DOMAIN changes : changes[i].at <= today
  BY DEF RankIInv, RankTyped
<1>3. at[h] = "update" /\ u \in Ranked /\ new \in BOOLEAN
  BY <1>1, <1>2 DEF UpdateSettings, RankIInv, SavingHolds, RankSavings
<1>4. hides' = [hides EXCEPT ![u] = new] /\ wishes' = Wishing(u, new) /\ Told(u, new)
  BY <1>1 DEF UpdateSettings
<1>5. /\ Continue(h, "idle") /\ HandlerStep(h, "idle") /\ "idle" \in RankLabels \ PageLabels
      /\ headStart' = headStart /\ today' = today /\ closing' = closing
      /\ ledgerDays' = ledgerDays /\ withdrawn' = withdrawn /\ changes' = changes
  BY <1>3 DEF UpdateSettings, End, HandlerStep, RankLabels, PageLabels, RankKept
<1>6. /\ MovesTo(h, "idle") /\ (~overlapped' => ~overlapped) /\ faults' = faults
      /\ (~overlapped' => \A g \in Handlers \ {h} : at[g] = "idle")
  BY <1>2, <1>5, HandlerSteps DEF Continue
<1>7. today \in Int /\ Days \subseteq Int
  BY <1>2, RankingAssumption DEF Days
<1>8. /\ wishes' \in [Ranked -> [Days -> BOOLEAN]]
      /\ \A w \in Ranked : w # u => wishes'[w] = wishes[w]
      /\ \A d \in Days : d < today => wishes'[u][d] = wishes[u][d]
      /\ \A d \in Days : ~(d < today) => wishes'[u][d] = new
  BY <1>2, <1>3, <1>4, Wished
<1>9. /\ hides' \in [Ranked -> BOOLEAN] /\ hides'[u] = new
      /\ \A w \in Ranked : w # u => hides'[w] = hides[w]
  BY <1>2, <1>3, <1>4
<1>10. ~(today < today) /\ \A d \in Days : d >= today => ~(d < today)
  BY <1>7
<1>11. WishesStand'
  <2>1. ASSUME NEW w \in Ranked
        PROVE  /\ \A d \in Days : d >= today => wishes'[w][d] = wishes'[w][today]
               /\ wishes'[w][today] => hides'[w]
    <3>1. CASE w # u
      BY <1>8, <1>9, <3>1 DEF RankIInv, WishesStand
    <3>2. CASE w = u
      BY <1>2, <1>8, <1>9, <1>10, <3>2
    <3> QED
      BY <3>1, <3>2
  <2> QED
    BY <1>5, <2>1 DEF WishesStand
<1>12. HistoryHolds'
  <2> SUFFICES ASSUME ~overlapped', faults' = 0, NEW w \in Ranked
               PROVE  /\ (LastHid(changes, w) <=> hides'[w]) /\ (hides'[w] => wishes'[w][today])
                      /\ \A d \in Days : wishes'[w][d] => w \in HiddenIn(changes, d)
    BY <1>5 DEF HistoryHolds
  <2>1. HistoryHolds /\ ~overlapped /\ faults = 0
    BY <1>6 DEF RankIInv
  <2>2. \A d \in Days : wishes[w][d] => w \in HiddenIn(changes, d)
    BY <2>1 DEF HistoryHolds
  <2>3. CASE w # u
    <3>1. \A g \in Handlers : ~Updating(g, w)
      BY <1>1, <1>3, <1>6, <2>3 DEF Updating
    <3>2. (LastHid(changes, w) <=> hides[w]) /\ (hides[w] => wishes[w][today])
      BY <2>1, <3>1 DEF HistoryHolds
    <3> QED
      BY <1>8, <1>9, <2>2, <2>3, <3>2
  <2>4. CASE w = u
    <3>1. LastHid(changes, u) <=> new
      BY <1>1, <1>3, <2>1 DEF RankIInv, SavingHolds
    <3>2. wishes'[u][today] = new
      BY <1>2, <1>8, <1>10
    <3>3. ASSUME NEW d \in Days, wishes'[u][d] PROVE u \in HiddenIn(changes, d)
      <4>1. d \in Int
        BY <1>7
      <4>2. CASE d < today
        BY <1>8, <2>2, <2>4, <3>3, <4>2
      <4>3. CASE ~(d < today)
        <5>1. LastHid(changes, u) /\ today <= d
          BY <1>7, <1>8, <3>1, <3>3, <4>1, <4>3
        <5> QED
          BY <1>2, <1>3, <1>7, <4>1, <5>1, LastIsHidden
      <4> QED
        BY <4>2, <4>3
    <3> QED
      BY <1>9, <2>4, <3>1, <3>2, <3>3
  <2> QED
    BY <2>3, <2>4
<1>13. NoSaving \in RankSavings /\ saving' = [saving EXCEPT ![h] = NoSaving]
  BY DEF NoSaving, RankSavings, UpdateSettings
<1>14. SavingHolds(h)'
  BY <1>6 DEF SavingHolds, MovesTo
<1>15. PICK es : es = {}
  OBVIOUS
<1>16. /\ ledgerDays' = ledgerDays \cup es /\ IsFiniteSet(es)
       /\ \A d \in es : {d.charged, d.credited} \subseteq Int /\ d.at = today
  BY <1>5, <1>15, FS_EmptySet
<1>17. DOMAIN view' = Handlers
  BY <1>4 DEF Told
<1>18. \A g \in Handlers : IsView(view'[g])
  BY <1>3, <1>4, <1>5, ToldKeeps
<1>19. ASSUME NEW g \in Handlers \ {h}, at[g] \in PageLabels
       PROVE  AskedFor(view[g])' /\ KeepsWishes(view[g], at[g])'
  <2>1. at'[g] = at[g]
    BY <1>6 DEF MovesTo
  <2> QED
    BY <1>3, <1>4, <1>5, <1>19, <2>1, ToldKeeps
<1>20. changes' \in Seq(RankChange) /\ \A i \in DOMAIN changes' : changes'[i].at <= today
  BY <1>2, <1>5
<1> QED
  BY <1>5, <1>8, <1>9, <1>11, <1>12, <1>13, <1>14, <1>16, <1>17, <1>18, <1>19, <1>20, SettingMoves

LEMMA RankDies ==
  ASSUME RankIInv, NEW h \in Handlers, RankingDie(h)
  PROVE  RankIInv'
<1>1. /\ at \in [Handlers -> RankLabels] /\ Bounded /\ Sequential /\ RankTyped
  BY DEF RankIInv, RankTyped
<1>2. at[h] # "idle" /\ Refused(h, "idle") /\ "idle" \in RankLabels \ PageLabels
  BY DEF RankingDie, Die, RankLabels, PageLabels
<1>3. HandlerStep(h, "idle") /\ MovesTo(h, "idle") /\ faults' # 0
  BY <1>1, <1>2, RefusedMoves DEF HandlerStep, Bounded
<1>4. /\ headStart' = headStart /\ today' = today /\ closing' = closing
      /\ ledgerDays' = ledgerDays /\ withdrawn' = withdrawn /\ changes' = changes
      /\ hides' = hides /\ wishes' = wishes /\ view' = view
  BY DEF RankingDie, RankKept, Visibility
<1>5. NoSaving \in RankSavings /\ saving' = [saving EXCEPT ![h] = NoSaving]
  BY DEF NoSaving, RankSavings, RankingDie
<1>6. HistoryHolds' /\ WishesStand' /\ SavingHolds(h)'
  BY <1>3, <1>4 DEF HistoryHolds, SavingHolds, MovesTo, RankIInv, WishesStand
<1>7. PICK es : es = {}
  OBVIOUS
<1>8. /\ ledgerDays' = ledgerDays \cup es /\ IsFiniteSet(es)
      /\ \A d \in es : {d.charged, d.credited} \subseteq Int /\ d.at = today
  BY <1>4, <1>7, FS_EmptySet
<1>9. /\ hides' \in [Ranked -> BOOLEAN] /\ wishes' \in [Ranked -> [Days -> BOOLEAN]]
      /\ changes' \in Seq(RankChange) /\ \A i \in DOMAIN changes' : changes'[i].at <= today
      /\ DOMAIN view' = Handlers /\ \A g \in Handlers : IsView(view'[g])
  BY <1>1, <1>4 DEF RankTyped
<1>10. ASSUME NEW g \in Handlers \ {h}, at[g] \in PageLabels
       PROVE  AskedFor(view[g])' /\ KeepsWishes(view[g], at[g])'
  <2>1. at'[g] = at[g] /\ withdrawn \subseteq withdrawn'
    BY <1>3, <1>4 DEF MovesTo
  <2> QED
    BY <1>4, <1>10, <2>1, PagesKept
<1> QED
  BY <1>2, <1>3, <1>4, <1>5, <1>6, <1>8, <1>9, <1>10, SettingMoves

LEMMA RankDay ==
  ASSUME RankIInv, DayPasses
  PROVE  RankIInv'
<1>1. /\ at \in [Handlers -> RankLabels] /\ Bounded /\ Sequential /\ RankTyped /\ today \in Days
  BY DEF RankIInv, RankTyped
<1>2. /\ UNCHANGED handlerVars /\ at' = at /\ overlapped' = overlapped /\ faults' = faults
      /\ headStart' = headStart /\ ledgerDays' = ledgerDays /\ withdrawn' = withdrawn
      /\ hides' = hides /\ wishes' = wishes /\ changes' = changes /\ saving' = saving
      /\ view' = view /\ today' = today + 1 /\ today < MaxDay
  BY DEF DayPasses, handlerVars, Visibility
<1>3. /\ today' \in Days /\ today' \in Int /\ today \in Int /\ today < today'
      /\ Days \subseteq Int
  BY <1>1, <1>2, RankingAssumption DEF Days
<1>4. Bounded' /\ Sequential'
  BY <1>1, <1>2, StillSequential
<1>5. RankTyped'
  <2>1. \A e \in ledgerDays : e.at <= today'
    <3>1. ASSUME NEW e \in ledgerDays PROVE e.at <= today'
      <4>1. e.at \in Days /\ e.at <= today
        BY <1>1 DEF RankTyped
      <4>2. e.at \in Int
        BY <1>3, <4>1
      <4> QED
        BY <1>3, <4>1, <4>2
    <3> QED
      BY <3>1
  <2>2. \A i \in DOMAIN changes : changes[i].at <= today'
    <3>1. ASSUME NEW i \in DOMAIN changes PROVE changes[i].at <= today'
      <4>1. changes[i] \in RankChange /\ changes[i].at <= today
        BY <1>1 DEF RankTyped
      <4>2. changes[i].at \in Int
        BY <1>3, <4>1 DEF RankChange
      <4> QED
        BY <1>3, <4>1, <4>2
    <3> QED
      BY <3>1
  <2> QED
    BY <1>1, <1>2, <1>3, <1>4, <2>1, <2>2 DEF RankTyped, IsView
<1>6. \A u \in Ranked : wishes[u][today'] = wishes[u][today]
  BY <1>3 DEF RankIInv, WishesStand
<1>7. WishesStand'
  <2>1. ASSUME NEW u \in Ranked
        PROVE  /\ \A d \in Days : d >= today' => wishes[u][d] = wishes[u][today']
               /\ wishes[u][today'] => hides[u]
    <3>1. /\ \A d \in Days : d >= today => wishes[u][d] = wishes[u][today]
          /\ wishes[u][today] => hides[u]
      BY DEF RankIInv, WishesStand
    <3>2. \A d \in Days : d >= today' => d >= today
      BY <1>3
    <3> QED
      BY <1>6, <3>1, <3>2
  <2> QED
    BY <1>2, <2>1 DEF WishesStand
<1>8. HistoryHolds'
  <2>1. \A g \in Handlers, u \in Ranked : Updating(g, u)' <=> Updating(g, u)
    BY <1>2 DEF Updating
  <2>2. HistoryHolds
    BY DEF RankIInv
  <2> QED
    BY <1>2, <1>6, <2>1, <2>2 DEF HistoryHolds
<1>9. ClosingHolds'
  BY <1>1, DayCloses DEF RankIInv
<1>10. ASSUME NEW g \in Handlers PROVE SavingHolds(g)'
  <2>1. SavingHolds(g)
    BY DEF RankIInv
  <2> QED
    BY <1>2, <2>1 DEF SavingHolds
<1>11. ASSUME NEW g \in Handlers PROVE PageHolds(view[g], at[g])'
  <2>1. PICK v, l : v = view[g] /\ l = at[g]
    OBVIOUS
  <2>2. PageHolds(v, l)
    BY <2>1 DEF RankIInv
  <2>3. ASSUME l \in PageLabels PROVE AskedFor(v)' /\ KeepsWishes(v, l)' /\ ~CalmPage(v)'
    <3>1. AskedFor(v) /\ KeepsWishes(v, l)
      BY <2>2, <2>3 DEF PageHolds
    <3>2. v.day \in Days /\ v.day <= today /\ v.type \in {"cast", "customer"} /\ v.viewer \in Ranked
      BY <3>1 DEF AskedFor
    <3>3. v.day <= today' /\ v.day # today'
      <4>1. v.day \in Int
        BY <1>3, <3>2
      <4> QED
        BY <1>3, <3>2, <4>1
    <3> QED
      BY <1>2, <3>1, <3>2, <3>3 DEF AskedFor, KeepsWishes, CalmPage
  <2>4. PageHolds(v, l)'
    BY <2>3 DEF PageHolds
  <2> QED
    BY <1>2, <2>1, <2>4
<1> QED
  BY <1>5, <1>7, <1>8, <1>9, <1>10, <1>11 DEF RankIInv

LEMMA RankInitOK ==
  ASSUME RankingsInit
  PROVE  RankIInv
<1>1. at = Idle /\ begun = 0 /\ faults = 0 /\ Bounded /\ Sequential
  BY InitBounded DEF RankingsInit
<1>2. /\ headStart \in HeadStarts /\ today = 0 /\ ledgerDays = {}
      /\ hides = [u \in Ranked |-> FALSE] /\ changes = <<>> /\ withdrawn = {}
      /\ wishes = [u \in Ranked |-> [d \in Days |-> FALSE]]
      /\ saving = [h \in Handlers |-> NoSaving] /\ view = [h \in Handlers |-> NoView]
  BY DEF RankingsInit, RankingsIdle
<1>3. 0 \in Days
  BY RankingAssumption DEF Days
<1>4. at \in [Handlers -> RankLabels] /\ \A h \in Handlers : at[h] = "idle"
  BY <1>1 DEF Idle, RankLabels
<1>5. RankTyped
  <2>1. NoSaving \in RankSavings /\ IsView(NoView)
    BY DEF NoSaving, RankSavings, IsView, NoView, ViewFields
  <2>2. changes \in Seq(RankChange) /\ DOMAIN changes = {}
    BY <1>2
  <2>3. IsFiniteSet(ledgerDays)
    BY <1>2, FS_EmptySet
  <2>4. saving \in [Handlers -> RankSavings] /\ DOMAIN view = Handlers
        /\ \A h \in Handlers : IsView(view[h])
    BY <1>2, <2>1
  <2> QED
    BY <1>1, <1>2, <1>3, <1>4, <2>2, <2>3, <2>4 DEF RankTyped
<1>6. WishesStand
  BY <1>2, <1>3 DEF WishesStand
<1>7. HistoryHolds
  <2>1. \A u : ~LastHid(changes, u)
    BY <1>2 DEF LastHid
  <2> QED
    BY <1>2, <2>1 DEF HistoryHolds
<1>8. ClosingHolds
  BY <1>2, RankingAssumption DEF ClosingHolds
<1>9. \A h \in Handlers : SavingHolds(h) /\ PageHolds(view[h], at[h])
  BY <1>4 DEF SavingHolds, PageHolds, PageLabels
<1> QED
  BY <1>5, <1>6, <1>7, <1>8, <1>9 DEF RankIInv

LEMMA RankNextOK ==
  ASSUME RankIInv, [RankingsNext]_<<handlerVars, rankVars>>
  PROVE  RankIInv'
<1>1. CASE UNCHANGED <<handlerVars, rankVars>>
  <2>1. /\ at' = at /\ begun' = begun /\ faults' = faults /\ overlapped' = overlapped
        /\ UNCHANGED handlerVars
    BY <1>1 DEF handlerVars
  <2>2. /\ headStart' = headStart /\ today' = today /\ ledgerDays' = ledgerDays
        /\ hides' = hides /\ changes' = changes /\ withdrawn' = withdrawn /\ wishes' = wishes
        /\ closing' = closing /\ saving' = saving /\ view' = view /\ UNCHANGED Reading
    BY <1>1 DEF rankVars, Reading, RankKept, Visibility
  <2>3. RankTyped'
    <3>1. Bounded' /\ Sequential'
      BY <2>1, StillSequential DEF RankIInv, RankTyped
    <3> QED
      BY <2>1, <2>2, <3>1 DEF RankIInv, RankTyped, IsView
  <2>4. WishesStand' /\ HistoryHolds'
    BY <2>1, <2>2 DEF RankIInv, WishesStand, HistoryHolds, Updating
  <2>5. ClosingHolds'
    <3>1. PICK es : es = {}
      OBVIOUS
    <3>2. ledgerDays' = ledgerDays \cup es /\ \A e \in es : e.at = today
      BY <2>2, <3>1
    <3> QED
      BY <2>2, <3>2, ClosingStays DEF RankIInv
  <2>6. ASSUME NEW h \in Handlers PROVE SavingHolds(h)' /\ PageHolds(view[h], at[h])'
    <3>1. PICK v, l : v = view[h] /\ l = at[h]
      OBVIOUS
    <3>2. SavingHolds(h) /\ PageHolds(v, l)
      BY <3>1 DEF RankIInv
    <3>3. PageHolds(v, l)'
      BY <2>1, <2>2, <3>2, RankPageStays
    <3> QED
      BY <2>1, <2>2, <3>1, <3>2, <3>3 DEF SavingHolds
  <2> QED
    BY <2>3, <2>4, <2>5, <2>6 DEF RankIInv
<1>2. CASE DayPasses
  BY <1>2, RankDay
<1>3. ASSUME NEW h \in Handlers,
             \/ EarnSomething(h) \/ WithdrawMember(h)
             \/ AskSettings(h) \/ FindSettings(h) \/ Journal(h) \/ UpdateSettings(h)
             \/ AskRanking(h) \/ ReadHidden(h) \/ HistoryFails(h) \/ ReadRankingRows(h)
             \/ ReadMyRanking(h) \/ ReadNames(h) \/ LeavePage(h) \/ RankingDie(h)
      PROVE  RankIInv'
  BY <1>3, RankEarn, RankWithdraw, RankAskSettings, RankFindSettings, RankJournal, RankUpdate,
     RankAsk, RankReadHidden, RankReadRows, RankReadMine, RankReadNames, RankLeavePage, RankDies
<1> QED
  BY <1>1, <1>2, <1>3 DEF RankingsNext

\* The invariant says of every page that is answered what it should.
LEMMA RankIInvFair ==
  RankIInv => RankedFairly
<1> SUFFICES ASSUME RankIInv, NEW h \in Handlers, at[h] = "answered", NEW v, v = view[h]
             PROVE
        LET listed == DOMAIN v.rows
            calm == ~overlapped /\ faults = 0 /\ v.day = today
            byCredits == v.category \in {"credits", "meeting", "sticker", "patron"}
        IN  /\ listed \cap v.out = {} /\ v.named \cap v.shy \subseteq {v.viewer}
            /\ v.type = "customer" /\ v.viewer \in RankedGuests => v.named \subseteq {v.viewer}
            /\ calm /\ byCredits /\ v.type = "cast" /\ v.period \in {"this_month", "prev_month"} =>
                  \A u \in listed : LET d == CreditsRankingDeadline(v.period)
                                    IN  d >= 0 /\ d <= MaxDay => ~wishes[u][d]
            /\ calm /\ byCredits /\ v.type = TypeOfMember(v.viewer) =>
                  /\ v.mine > 0 <=> ScoreOn(v, v.viewer) > 0
                  /\ v.viewer \in listed => v.mine >= v.rows[v.viewer].position
                  /\ v.viewer \in listed /\ v.hidden = {} => v.mine = v.rows[v.viewer].position
            /\ calm /\ v.category = "credits" /\ v.period = "prev_month" /\ today >= MonthDays =>
                  /\ \A u \in listed : v.rows[u].score = closing[u]
                  /\ Top >= Cardinality(MembersOf(v.type)) =>
                        {u \in MembersOf(v.type) : closing[u] > 0} \ (v.out \cup v.hidden) \subseteq listed
  BY DEF RankedFairly
<1> DEFINE listed == DOMAIN v.rows
<1>1. RankTyped /\ AskedFor(v) /\ KeepsWishes(v, "answered") /\ (CalmPage(v) => ReadCalmly(v, "answered"))
  BY DEF RankIInv, PageHolds, PageLabels
<1>2. /\ listed \subseteq MembersOf(v.type) \cap Ranked /\ listed \cap (v.out \cup v.hidden) = {}
      /\ v.named \subseteq listed /\ v.named \cap v.shy \subseteq {v.viewer}
      /\ v.viewer \in RankedGuests => v.named \cap RankedGuests \subseteq {v.viewer}
  BY <1>1 DEF KeepsWishes, AskedFor
<1>3. v.type = "customer" /\ v.viewer \in RankedGuests => v.named \subseteq {v.viewer}
  BY <1>2 DEF MembersOf
<1> DEFINE s == EarnedBetween(v.category, v.from, v.to)
           us == ScoringIn(s, v.type, withdrawn, Unhidden(hides) \ v.hidden)
           own == ScoringIn(s, v.type, withdrawn, Unhidden(hides) \cup {v.viewer})
<1>4. \A u \in Ranked : s[u] \in Int
  BY <1>1, ScoreIsInt
<1>5. us \subseteq Ranked /\ own \subseteq Ranked /\ us \subseteq own
  BY DEF ScoringIn, MembersOf, Ranked
<1>6. ASSUME CalmPage(v), v.category \in EarnedCategories
      PROVE  /\ v.type = "cast" => v.hidden = HiddenIn(changes, CreditsRankingDeadline(v.period))
             /\ RowsAre(v.rows, s, us) /\ MineIs(v.mine, v.viewer, s, own)
             /\ \A u \in Ranked \ v.out : ~hides[u] /\ u \notin withdrawn
             /\ v.viewer \notin withdrawn
  BY <1>1, <1>6 DEF ReadCalmly
<1>7. \A u \in Ranked : v.category \in EarnedCategories => ScoreOn(v, u) = s[u]
  BY ScoreOnIs
<1>8. v.viewer \in Ranked /\ v.type \in {"cast", "customer"} /\ today \in Int /\ Days = 0..MaxDay
  BY <1>1, RankingAssumption DEF AskedFor, RankTyped, Days
<1> HIDE DEF s, us, own
<1>9. ASSUME CalmPage(v), v.category \in EarnedCategories, v.type = "cast", NEW u \in listed,
             CreditsRankingDeadline(v.period) >= 0, CreditsRankingDeadline(v.period) <= MaxDay,
             CreditsRankingDeadline(v.period) \in Int
      PROVE  ~wishes[u][CreditsRankingDeadline(v.period)]
  <2>1. PICK d : d = CreditsRankingDeadline(v.period)
    OBVIOUS
  <2>2. d \in Days
    BY <1>9, <1>8, <2>1, RankingAssumption
  <2>3. u \in Ranked /\ u \notin HiddenIn(changes, d)
    BY <1>2, <1>6, <1>9, <2>1
  <2>4. wishes[u][d] => u \in HiddenIn(changes, d)
    BY <1>9, <2>2, <2>3 DEF RankIInv, HistoryHolds, CalmPage
  <2> QED
    BY <2>1, <2>3, <2>4
<1>10. CreditsRankingDeadline(v.period) \in Int
  <2>1. MonthStart(today) \in Int /\ MonthDays \in Int /\ DeadlineDay \in Int
    BY <1>1, RankingAssumption, MonthBegins DEF RankTyped, Days
  <2> QED
    BY <2>1 DEF CreditsRankingDeadline, NoDeadline
<1>11. ASSUME CalmPage(v), v.category \in EarnedCategories, v.type = TypeOfMember(v.viewer)
       PROVE  /\ v.mine > 0 <=> ScoreOn(v, v.viewer) > 0
              /\ v.viewer \in listed => v.mine >= v.rows[v.viewer].position
              /\ v.viewer \in listed /\ v.hidden = {} => v.mine = v.rows[v.viewer].position
  <2>1. v.viewer \in own <=> s[v.viewer] > 0
    BY <1>6, <1>8, <1>11 DEF own, ScoringIn, TypeOfMember, MembersOf, Ranked
  <2>2. v.mine = IF v.viewer \in own THEN PlaceIn(s, v.viewer, own) ELSE 0
    BY <1>6, <1>11 DEF MineIs
  <2>3. v.viewer \in own => PlaceIn(s, v.viewer, own) \in Nat /\ PlaceIn(s, v.viewer, own) > 0
    BY <1>4, <1>5, RankPlaces
  <2>4. ASSUME v.viewer \in listed
        PROVE  /\ v.mine >= v.rows[v.viewer].position
               /\ v.hidden = {} => v.mine = v.rows[v.viewer].position
    <3>1. v.viewer \in us /\ v.rows[v.viewer].position = PlaceIn(s, v.viewer, us)
      BY <1>6, <1>11, <2>4 DEF RowsAre
    <3>2. v.viewer \in own /\ v.mine = PlaceIn(s, v.viewer, own)
      BY <1>5, <2>2, <3>1
    <3>3. PlaceIn(s, v.viewer, us) <= PlaceIn(s, v.viewer, own) /\ PlaceIn(s, v.viewer, us) \in Nat
      BY <1>4, <1>5, <3>1, RankPlaces
    <3>4. v.hidden = {} => us = own
      BY <3>1 DEF us, own, ScoringIn
    <3> QED
      BY <2>3, <3>1, <3>2, <3>3, <3>4
  <2> QED
    BY <1>7, <1>8, <1>11, <2>1, <2>2, <2>3, <2>4
<1>12. ASSUME CalmPage(v), v.category = "credits", v.period = "prev_month", today >= MonthDays
       PROVE  /\ \A u \in listed : v.rows[u].score = closing[u]
              /\ Top >= Cardinality(MembersOf(v.type)) =>
                   {u \in MembersOf(v.type) : closing[u] > 0} \ (v.out \cup v.hidden) \subseteq listed
  <2>1. v.from = MonthStart(today) - MonthDays /\ v.to = MonthStart(today)
    BY <1>1, <1>12 DEF AskedFor, CalmPage
  <2>2. closing = s
    BY <1>12, <2>1 DEF RankIInv, ClosingHolds, s
  <2>3. RowsAre(v.rows, s, us) /\ \A u \in Ranked \ v.out : ~hides[u] /\ u \notin withdrawn
    BY <1>6, <1>12 DEF EarnedCategories
  <2>4. ASSUME Top >= Cardinality(MembersOf(v.type)), NEW u \in MembersOf(v.type), s[u] > 0,
               u \notin v.out \cup v.hidden
        PROVE  u \in listed
    <3>1. u \in Ranked /\ u \in us
      BY <2>3, <2>4 DEF us, ScoringIn, Unhidden, MembersOf, Ranked
    <3>2. PlaceIn(s, u, us) <= Cardinality(us) /\ PlaceIn(s, u, us) \in Nat
      BY <1>4, <1>5, <3>1, RankPlaces
    <3>3. us \subseteq MembersOf(v.type) /\ MembersOf(v.type) \subseteq Ranked
      BY DEF us, ScoringIn, MembersOf, Ranked
    <3>4. /\ IsFiniteSet(MembersOf(v.type)) /\ Cardinality(us) <= Cardinality(MembersOf(v.type))
          /\ Cardinality(us) \in Nat /\ Cardinality(MembersOf(v.type)) \in Nat
      BY <3>3, RankingAssumption, FS_Subset, FS_CardinalityType
    <3>5. PlaceIn(s, u, us) <= Top /\ Top \in Nat
      BY <2>4, <3>2, <3>4, RankingAssumption
    <3> QED
      BY <2>3, <3>1, <3>5 DEF RowsAre
  <2> QED
    BY <2>2, <2>3, <2>4 DEF RowsAre
<1>13. /\ (~overlapped /\ faults = 0 /\ v.day = today) <=> CalmPage(v)
       /\ {"credits", "meeting", "sticker", "patron"} = EarnedCategories
  BY DEF CalmPage, EarnedCategories
<1> QED
  BY <1>2, <1>3, <1>9, <1>10, <1>11, <1>12, <1>13
-----------------------------------------------------------------------------
(* The order wizard *)

FormLabels == {"idle", "validate", "build", "setUp"}
FormModes == {"delay", "absolute"}
FormBranches == {BranchOf[r] : r \in Ranks}
Drafts(branches) ==
    [branch : branches, rank : Ranks \cup {NoRank}, needed : HeadCounts, minimum : Nat, price : Nat,
     mode : FormModes, when : Nat]
Sendings == [for : {"confirm", "create"}, body : Drafts(FormBranches \cup {"none"}), at : Nat]
Previews ==
    [at : Nat, rank : Ranks \cup {NoRank}, needed : Nat, minimum : Nat, base : Nat, start : Nat,
     mode : FormModes]
OrderRows ==
    [row : Previews, opened : Nat, closes : Nat, shown : Previews, renewed : BOOLEAN,
     crossed : BOOLEAN]
Wizards ==
    [step : {"form", "confirm", "left"}, busy : BOOLEAN, options : PriceLists \cup {NoOptions},
     preview : Previews, crossed : BOOLEAN]

FormTyped ==
    /\ at \in [Handlers -> FormLabels] /\ faults \in Nat
    /\ tick \in Nat /\ revision \in Nat /\ owes \in BOOLEAN /\ prices \in PriceLists
    /\ wizard \in Wizards /\ draft \in Drafts(FormBranches)
    /\ sent \in [Handlers -> Sendings] /\ orders \in Seq(OrderRows)

\* One request at a time, of the step the wizard is at; none from a page that was left.
OneRequest ==
    /\ \A g, h \in Handlers : at[g] # "idle" /\ at[h] # "idle" => g = h
    /\ \A h \in Handlers : at[h] # "idle" =>
          /\ wizard.busy /\ wizard.step # "left"
          /\ sent[h].body.rank \in Ranks
          /\ sent[h].for = "create" <=> wizard.step = "confirm"
          /\ at[h] = "setUp" => wizard.step = "confirm"

\* A menu is chosen from the options that are loaded.
MenuLoaded ==
    /\ draft.rank # NoRank <=> Loaded
    /\ revision = 0 /\ Loaded => wizard.options = prices

\* What is under way is what the form says, ...
Bid == IF Proposable(draft.rank) THEN draft.price ELSE 0
LeastOf(d) == IF d.minimum = d.needed THEN 0 ELSE d.minimum
IsSent(h) ==
    LET d == sent[h].body
    IN  /\ d.rank = draft.rank /\ d.needed = draft.needed /\ d.mode = draft.mode
        /\ d.minimum = IF at[h] = "validate" THEN draft.minimum ELSE LeastOf(draft)
        /\ d.when = IF at[h] = "validate" THEN draft.when ELSE StartOf(draft, sent[h].at)
        /\ revision = 0 => d.price = Bid
SentIsDraft ==
    \A h \in Handlers :
        /\ at[h] = "build" => /\ sent[h].body.minimum < sent[h].body.needed
                              /\ sent[h].body.when >= sent[h].at + MinDelay
        /\ at[h] \in {"validate", "build"} /\ ~wizard.crossed => IsSent(h)

\* ... and so is what the guest is shown.
IsShown(p) ==
    /\ p.rank = draft.rank /\ p.needed = draft.needed /\ p.mode = draft.mode
    /\ p.minimum = LeastOf(draft) /\ p.start = StartOf(draft, p.at)
    /\ revision = 0 => p.base = IF Bid # 0 THEN Bid ELSE prices[draft.rank].base
PreviewIsDraft ==
    wizard.step = "confirm" /\ ~wizard.crossed => draft.rank \in Ranks /\ IsShown(wizard.preview)

\* An order is the one that was shown.
IsConfirmed(r) ==
    LET o == r.row
        p == r.shown
    IN  /\ ~r.crossed => /\ o.rank = p.rank /\ o.needed = p.needed /\ o.minimum = p.minimum
                         /\ ~r.renewed => o.base = p.base
                         /\ o.start - p.start = IF o.mode = "delay" THEN o.at - p.at ELSE 0
        /\ o.minimum < o.needed /\ o.start >= o.at + MinDelay
        /\ r.opened < o.at + 4 => r.closes < o.start
OrdersAsShown == \A i \in DOMAIN orders : IsConfirmed(orders[i])

\* One order is set up, and then the page is left.
OneSetUp ==
    /\ \A i, j \in DOMAIN orders : orders[i].closes # 0 /\ orders[j].closes # 0 => i = j
    /\ wizard.step # "left" => \A i \in DOMAIN orders : orders[i].closes = 0
    /\ \A h \in Handlers : at[h] = "setUp" => Len(orders) > 0
    /\ \A i \in DOMAIN orders : Left(i) => faults > 0 \/ owes

\* The inductive invariant of the wizard.
FormIInv ==
    /\ FormTyped /\ OneRequest /\ MenuLoaded /\ SentIsDraft /\ PreviewIsDraft /\ OrdersAsShown
    /\ OneSetUp

-----------------------------------------------------------------------------
\* There is a least number of casts.
LEMMA LeastHeadCount ==
  (CHOOSE n \in HeadCounts : \A m \in HeadCounts : n <= m) \in HeadCounts
<1>1. HeadCounts \subseteq Nat /\ HeadCounts # {}
  BY FormAssumption
<1>2. PICK n \in HeadCounts : \A m \in HeadCounts : ~ (<<m, n>> \in OpToRel(<, Nat))
  BY <1>1, WFMin, NatLessThanWellFounded
<1>3. ASSUME NEW m \in HeadCounts PROVE n <= m
  <2>1. m \in Nat /\ n \in Nat
    BY <1>1
  <2>2. ~(m < n)
    BY <2>1, <1>2 DEF OpToRel
  <2> QED
    BY <2>1, <2>2
<1> QED
  BY <1>3

LEMMA DraftTypes ==
  /\ DefaultDraft("none") \in Drafts(FormBranches \cup {"none"})
  /\ DefaultDraft(CHOOSE b \in {BranchOf[r] : r \in Ranks} : TRUE) \in Drafts(FormBranches)
  /\ NotSent \in Sendings
<1>1. (CHOOSE b \in {BranchOf[r] : r \in Ranks} : TRUE) \in FormBranches
  BY FormAssumption DEF FormBranches
<1>2. \A b : DefaultDraft(b).branch = b
  BY DEF DefaultDraft
<1>3. ASSUME NEW branches, NEW b \in branches
      PROVE  DefaultDraft(b) \in Drafts(branches)
  BY LeastHeadCount DEF DefaultDraft, Drafts, FormModes, MinDelay
<1> QED
  BY <1>1, <1>3 DEF NotSent, Sendings

LEMMA StartType ==
  ASSUME NEW branches, NEW d \in Drafts(branches), NEW t \in Nat
  PROVE  /\ StartOf(d, t) \in Nat /\ LeastOf(d) \in Nat
         /\ d.rank \in Ranks \cup {NoRank} /\ d.needed \in HeadCounts /\ d.needed \in Nat
         /\ d.needed > 0 /\ d.minimum \in Nat /\ d.price \in Nat /\ d.when \in Nat /\ d.mode \in FormModes
<1>1. d.when \in Nat /\ d.minimum \in Nat /\ d.needed \in HeadCounts
  BY DEF Drafts
<1>2. d.needed \in Nat /\ d.needed > 0
  <2>1. HeadCounts \subseteq Nat \ {0}
    BY FormAssumption
  <2>2. d.needed \in Nat /\ d.needed # 0
    BY <1>1, <2>1
  <2> QED
    BY <2>2
<1> QED
  BY <1>1, <1>2 DEF Drafts, StartOf, LeastOf

\* It is the invariant of what is ordered.
LEMMA FormIInvConfirmed ==
  ASSUME FormIInv
  PROVE  OrderedAsConfirmed
<1>t. FormTyped
  BY DEF FormIInv
<1>1. \A i \in DOMAIN orders : IsConfirmed(orders[i])
  BY DEF FormIInv, OrdersAsShown
<1>2. Cardinality({i \in DOMAIN orders : ~Left(i)}) <= 1
  <2> DEFINE S == {i \in DOMAIN orders : ~Left(i)}
  <2>1. \A i, j \in S : i = j
    <3> SUFFICES ASSUME NEW i \in S, NEW j \in S PROVE i = j
      OBVIOUS
    <3>1. CASE \E h \in Handlers : at[h] = "setUp"
      <4>1. wizard.step # "left"
        BY <3>1 DEF FormIInv, OneRequest
      <4>2. i = Len(orders) /\ j = Len(orders)
        BY <4>1 DEF FormIInv, OneSetUp, Left
      <4> QED
        BY <4>2
    <3>2. CASE ~\E h \in Handlers : at[h] = "setUp"
      BY <3>2 DEF FormIInv, OneSetUp, Left
    <3> QED
      BY <3>1, <3>2
  <2> HIDE DEF S
  <2>2. CASE S = {}
    BY <2>2, FS_EmptySet DEF S
  <2>3. CASE S # {}
    <3>1. PICK i : S = {i}
      BY <2>1, <2>3
    <3>2. Cardinality(S) = 1
      BY <3>1, FS_Singleton
    <3> QED
      BY <3>2 DEF S
  <2> QED
    BY <2>2, <2>3
<1>3. \A i \in DOMAIN orders : Left(i) => faults > 0 \/ owes
  BY DEF FormIInv, OneSetUp
<1>4. ASSUME wizard.step = "confirm", ~wizard.crossed, revision = 0
      PROVE  \/ wizard.preview.needed * wizard.preview.base = LocalEstimate
             \/ draft.price # 0 /\ ~Proposable(draft.rank)
  <2>1. draft.rank \in Ranks /\ IsShown(wizard.preview)
    BY <1>4 DEF FormIInv, PreviewIsDraft
  <2>2. draft.rank # NoRank
    BY <2>1, FormAssumption DEF NoRank
  <2>3. Loaded /\ wizard.options = prices
    BY <1>4, <2>2 DEF FormIInv, MenuLoaded
  <2>4. LocalEstimate = draft.needed * (IF draft.price # 0 THEN draft.price ELSE prices[draft.rank].base)
    BY <2>2, <2>3 DEF LocalEstimate
  <2>5. wizard.preview.needed = draft.needed
    BY <2>1 DEF IsShown
  <2>6. wizard.preview.base = IF Bid # 0 THEN Bid ELSE prices[draft.rank].base
    BY <1>4, <2>1 DEF IsShown
  <2>7. CASE draft.price = 0
    BY <2>4, <2>5, <2>6, <2>7 DEF Bid
  <2>8. CASE draft.price # 0 /\ Proposable(draft.rank)
    BY <2>4, <2>5, <2>6, <2>8 DEF Bid
  <2> QED
    BY <2>7, <2>8
<1> QED
  BY <1>1, <1>2, <1>3, <1>4 DEF OrderedAsConfirmed, IsConfirmed

LEMMA FormInitOK ==
  ASSUME HandlersInit, prices \in PriceLists, FormsIdle
  PROVE  FormIInv
<1>1. at = [h \in Handlers |-> "idle"] /\ faults = 0
  BY DEF HandlersInit, Idle
<1>2. NoPreview \in Previews
  BY DEF NoPreview, Previews, FormModes
<1>3. wizard \in Wizards /\ wizard.step = "form" /\ wizard.options = NoOptions
  BY <1>2 DEF FormsIdle, Wizards
<1>4. sent \in [Handlers -> Sendings] /\ draft \in Drafts(FormBranches) /\ draft.rank = NoRank
  BY DraftTypes DEF FormsIdle, DefaultDraft
<1>5. orders = <<>> /\ DOMAIN orders = {}
  BY DEF FormsIdle
<1>6. FormTyped
  <2>0. orders \in Seq(OrderRows)
    BY <1>5
  <2>1. tick \in Nat /\ revision \in Nat /\ owes \in BOOLEAN
    BY DEF FormsIdle
  <2>2. at \in [Handlers -> FormLabels] /\ faults \in Nat
    BY <1>1 DEF FormLabels
  <2> QED
    BY <2>0, <2>1, <2>2, <1>3, <1>4 DEF FormTyped
<1>7. OneRequest /\ SentIsDraft /\ PreviewIsDraft
  BY <1>1, <1>3 DEF OneRequest, SentIsDraft, PreviewIsDraft
<1>8. MenuLoaded
  BY <1>3, <1>4 DEF MenuLoaded, Loaded
<1>9. OrdersAsShown /\ OneSetUp
  BY <1>1, <1>5 DEF OrdersAsShown, OneSetUp
<1> QED
  BY <1>6, <1>7, <1>8, <1>9 DEF FormIInv

-----------------------------------------------------------------------------
(* What happens between the requests *)

\* The form says what it said.
SameForm ==
    /\ draft'.rank = draft.rank /\ draft'.needed = draft.needed /\ draft'.mode = draft.mode
    /\ draft'.minimum = draft.minimum /\ draft'.when = draft.when
    /\ revision' = 0 => revision = 0 /\ Bid' = Bid /\ prices' = prices

LEMMA SameFormSame ==
  ASSUME SameForm
  PROVE  /\ LeastOf(draft)' = LeastOf(draft)
         /\ \A t : StartOf(draft', t) = StartOf(draft, t)
BY DEF SameForm, LeastOf, StartOf

LEMMA OutsideOK ==
  ASSUME FormIInv, UNCHANGED handlerVars, sent' = sent, orders' = orders,
         tick' \in Nat, revision' \in Nat, owes' \in BOOLEAN, owes => owes', prices' \in PriceLists,
         wizard' \in Wizards, draft' \in Drafts(FormBranches), MenuLoaded', wizard'.busy = wizard.busy,
         wizard'.step = wizard.step \/ (wizard.step = "confirm" /\ wizard'.step = "form" /\ ~wizard.busy),
         (\/ \E h \in Handlers : at[h] \in {"validate", "build"}
          \/ wizard'.step = "confirm") /\ ~wizard'.crossed =>
               ~wizard.crossed /\ wizard'.preview = wizard.preview /\ SameForm
  PROVE  FormIInv'
<1>t. FormTyped
  BY DEF FormIInv
<1>1. at' = at /\ faults' = faults
  BY DEF handlerVars
<1>2. FormTyped'
  BY <1>1, <1>t DEF FormTyped
<1>3. \A h \in Handlers : at[h] # "idle" => wizard.busy /\ wizard'.step = wizard.step
  BY DEF FormIInv, OneRequest
<1>4. OneRequest'
  BY <1>1, <1>3 DEF FormIInv, OneRequest
<1>5. SentIsDraft'
  <2> SUFFICES ASSUME NEW h \in Handlers
               PROVE  /\ at[h] = "build" => /\ sent[h].body.minimum < sent[h].body.needed
                                            /\ sent[h].body.when >= sent[h].at + MinDelay
                      /\ at[h] \in {"validate", "build"} /\ ~wizard'.crossed => IsSent(h)'
    BY <1>1 DEF SentIsDraft
  <2>1. ASSUME at[h] \in {"validate", "build"}, ~wizard'.crossed
        PROVE  IsSent(h)'
    <3>1. ~wizard.crossed /\ SameForm
      BY <2>1
    <3>2. IsSent(h)
      BY <2>1, <3>1 DEF FormIInv, SentIsDraft
    <3>3. LeastOf(draft)' = LeastOf(draft) /\ \A t : StartOf(draft', t) = StartOf(draft, t)
      BY <3>1, SameFormSame
    <3> QED
      BY <1>1, <3>1, <3>2, <3>3 DEF IsSent, SameForm
  <2> QED
    BY <2>1 DEF FormIInv, SentIsDraft
<1>6. PreviewIsDraft'
  <2> SUFFICES ASSUME wizard'.step = "confirm", ~wizard'.crossed
               PROVE  draft'.rank \in Ranks /\ IsShown(wizard.preview)'
    BY DEF PreviewIsDraft
  <2>1. ~wizard.crossed /\ wizard'.preview = wizard.preview /\ SameForm /\ wizard.step = "confirm"
    OBVIOUS
  <2>2. draft.rank \in Ranks /\ IsShown(wizard.preview)
    BY <2>1 DEF FormIInv, PreviewIsDraft
  <2>3. LeastOf(draft)' = LeastOf(draft) /\ \A t : StartOf(draft', t) = StartOf(draft, t)
    BY <2>1, SameFormSame
  <2> QED
    BY <2>1, <2>2, <2>3 DEF IsShown, SameForm
<1>7. OrdersAsShown'
  BY DEF FormIInv, OrdersAsShown, IsConfirmed
<1>8. OneSetUp'
  <2>1. wizard'.step # "left" => wizard.step # "left"
    OBVIOUS
  <2>2. \A i \in DOMAIN orders : Left(i)' = Left(i)
    BY <1>1 DEF Left
  <2> QED
    BY <1>1, <2>1, <2>2 DEF FormIInv, OneSetUp
<1> QED
  BY <1>2, <1>4, <1>5, <1>6, <1>7, <1>8 DEF FormIInv

\* The clock, a debt, and another price list.
LEMMA MeanwhileOK ==
  ASSUME FormIInv, FormTick \/ Bill \/ ChangePrices
  PROVE  FormIInv'
<1>t. FormTyped
  BY DEF FormIInv
<1>1. /\ UNCHANGED handlerVars /\ sent' = sent /\ orders' = orders /\ wizard' = wizard /\ draft' = draft
      /\ owes => owes'
  BY DEF FormTick, Bill, ChangePrices, Server, Client
<1>2. tick' \in Nat /\ owes' \in BOOLEAN
  <2>1. tick' = tick \/ tick' = tick + 1
    BY DEF FormTick, Bill, ChangePrices, Server, Client
  <2>2. owes' = owes \/ owes' = TRUE
    BY DEF FormTick, Bill, ChangePrices, Server, Client
  <2>3. tick \in Nat /\ owes \in BOOLEAN
    BY <1>t DEF FormTyped
  <2>4. tick' \in Nat
    BY <2>1, <2>3
  <2>5. owes' \in BOOLEAN
    BY <2>2, <2>3
  <2> QED
    BY <2>4, <2>5
<1>3. revision' \in Nat /\ prices' \in PriceLists /\ (revision' = 0 => revision = 0 /\ prices' = prices)
  BY <1>t DEF FormTick, Bill, ChangePrices, Server, Client, FormTyped
<1>4. Bid' = Bid /\ Loaded' = Loaded
  BY <1>1 DEF Bid, Proposable, Loaded
<1>5. SameForm
  BY <1>1, <1>3, <1>4 DEF SameForm
<1>6. MenuLoaded'
  BY <1>1, <1>3, <1>4 DEF FormIInv, MenuLoaded
<1>7. wizard' \in Wizards /\ draft' \in Drafts(FormBranches)
  BY <1>1, <1>t DEF FormTyped
<1> QED
  BY <1>1, <1>2, <1>3, <1>5, <1>6, <1>7, OutsideOK

\* A price list is not the empty list.
LEMMA ListsAreNot ==
  ASSUME NEW l \in PriceLists
  PROVE  l # NoOptions
<1>1. DOMAIN l = Ranks /\ DOMAIN NoOptions = {}
  BY FormAssumption DEF NoOptions
<1> QED
  BY <1>1, FormAssumption

LEMMA LoadOptionsOK ==
  ASSUME FormIInv, LoadOptions
  PROVE  FormIInv'
<1>t. FormTyped
  BY DEF FormIInv
<1>w. wizard \in Wizards /\ draft \in Drafts(FormBranches) /\ prices \in PriceLists
  BY <1>t DEF FormTyped
<1>1. /\ UNCHANGED handlerVars /\ sent' = sent /\ orders' = orders /\ tick' = tick /\ prices' = prices
      /\ revision' = revision /\ owes' = owes /\ wizard' = [wizard EXCEPT !.options = prices]
  BY DEF LoadOptions, Server
<1>2. draft.branch \in FormBranches /\ draft.rank \in Ranks \cup {NoRank}
  BY <1>w DEF Drafts
<1>3. PICK r \in Ranks : draft' = [draft EXCEPT !.rank = r] /\ (draft.rank # NoRank => r = draft.rank)
  <2>1. CASE draft.rank = NoRank
    <3>1. draft' = [draft EXCEPT !.rank = CHOOSE r \in Ranks : BranchOf[r] = draft.branch]
      BY <2>1 DEF LoadOptions
    <3>2. (CHOOSE r \in Ranks : BranchOf[r] = draft.branch) \in Ranks
      BY <1>2 DEF FormBranches
    <3> QED
      BY <2>1, <3>1, <3>2
  <2>2. CASE draft.rank # NoRank
    <3>1. draft' = [draft EXCEPT !.rank = draft.rank] /\ draft.rank \in Ranks
      BY <1>2, <2>2 DEF LoadOptions
    <3> QED
      BY <3>1
  <2> QED
    BY <2>1, <2>2
<1>4. /\ wizard' \in Wizards /\ wizard'.step = wizard.step /\ wizard'.busy = wizard.busy
      /\ wizard'.crossed = wizard.crossed /\ wizard'.preview = wizard.preview
      /\ wizard'.options = prices
  BY <1>1, <1>w DEF Wizards
<1>5. /\ draft' \in Drafts(FormBranches) /\ draft'.rank = r /\ draft'.needed = draft.needed
      /\ draft'.mode = draft.mode /\ draft'.minimum = draft.minimum /\ draft'.when = draft.when
      /\ draft'.price = draft.price
  BY <1>3, <1>w DEF Drafts
<1>6. Loaded' /\ draft'.rank # NoRank
  BY <1>4, <1>5, <1>w, ListsAreNot, FormAssumption DEF Loaded, NoRank
<1>7. MenuLoaded'
  BY <1>1, <1>4, <1>6 DEF MenuLoaded
<1>8. ASSUME \/ \E h \in Handlers : at[h] \in {"validate", "build"}
             \/ wizard.step = "confirm",
             ~wizard.crossed
      PROVE  SameForm
  <2>1. draft.rank \in Ranks
    <3>1. CASE \E h \in Handlers : at[h] \in {"validate", "build"}
      BY <3>1, <1>8 DEF FormIInv, SentIsDraft, IsSent, OneRequest
    <3>2. CASE wizard.step = "confirm"
      BY <3>2, <1>8 DEF FormIInv, PreviewIsDraft
    <3> QED
      BY <1>8, <3>1, <3>2
  <2>2. draft.rank # NoRank /\ r = draft.rank
    BY <2>1, <1>3, FormAssumption DEF NoRank
  <2>3. revision = 0 => wizard'.options = wizard.options /\ Loaded
    BY <2>2, <1>4 DEF FormIInv, MenuLoaded
  <2>4. revision = 0 => Bid' = Bid
    BY <2>2, <2>3, <1>5, <1>6 DEF Bid, Proposable
  <2> QED
    BY <2>2, <2>4, <1>1, <1>5 DEF SameForm
<1>9. tick' \in Nat /\ revision' \in Nat /\ owes' \in BOOLEAN /\ prices' \in PriceLists
  BY <1>1, <1>t DEF FormTyped
<1> QED
  BY <1>1, <1>4, <1>5, <1>7, <1>8, <1>9, OutsideOK

\* The fields stay open while a request is under way, which then has crossed an edit.
LEMMA EditOK ==
  ASSUME FormIInv, NEW d \in Drafts(FormBranches), Edit(d), NEW w \in Wizards, wizard' = w,
         w.step = wizard.step, w.busy = wizard.busy, w.crossed = (wizard.crossed \/ wizard.busy),
         MenuLoaded'
  PROVE  FormIInv'
<1>t. FormTyped
  BY DEF FormIInv
<1>1. /\ wizard.step = "form" /\ draft' = d /\ UNCHANGED handlerVars /\ sent' = sent /\ orders' = orders
      /\ tick' = tick /\ prices' = prices /\ revision' = revision /\ owes' = owes
  BY DEF Edit, Server
<1>2. \A h \in Handlers : at[h] # "idle" => w.crossed
  BY DEF FormIInv, OneRequest
<1>3. ~((\/ \E h \in Handlers : at[h] \in {"validate", "build"}
         \/ wizard'.step = "confirm") /\ ~wizard'.crossed)
  BY <1>1, <1>2
<1>4. tick' \in Nat /\ revision' \in Nat /\ owes' \in BOOLEAN /\ prices' \in PriceLists
  BY <1>1, <1>t DEF FormTyped
<1>5. wizard' \in Wizards /\ wizard'.step = wizard.step /\ wizard'.busy = wizard.busy
  OBVIOUS
<1> QED
  BY <1>1, <1>3, <1>4, <1>5, OutsideOK

LEMMA CrossesType ==
  ASSUME NEW w \in Wizards
  PROVE  /\ Crosses(w) \in Wizards /\ Crosses(w).step = w.step /\ Crosses(w).busy = w.busy
         /\ Crosses(w).crossed = (w.crossed \/ w.busy) /\ Crosses(w).options = w.options
<1>1. w.crossed \in BOOLEAN /\ w.busy \in BOOLEAN
  BY DEF Wizards
<1>2. (w.crossed \/ w.busy) \in BOOLEAN
  BY <1>1
<1> QED
  BY <1>2 DEF Wizards, Crosses

LEMMA FillInOK ==
  ASSUME FormIInv, FillIn
  PROVE  FormIInv'
<1>t. wizard \in Wizards /\ draft \in Drafts(FormBranches)
  BY DEF FormIInv, FormTyped
<1>1. PICK d : d \in Drafts(FormBranches) /\ Edit(d) /\ d.rank = draft.rank
  <2>1. CASE \E n \in HeadCounts : Edit([draft EXCEPT !.needed = n])
    <3>1. PICK n \in HeadCounts : Edit([draft EXCEPT !.needed = n])
      BY <2>1
    <3>2. [draft EXCEPT !.needed = n] \in Drafts(FormBranches)
      BY <1>t DEF Drafts
    <3>3. [draft EXCEPT !.needed = n].rank = draft.rank
      BY <1>t DEF Drafts
    <3> QED
      BY <3>1, <3>2, <3>3
  <2>2. CASE \E n \in 0..draft.needed : Edit([draft EXCEPT !.minimum = n])
    <3>1. PICK n \in 0..draft.needed : Edit([draft EXCEPT !.minimum = n])
      BY <2>2
    <3>2. [draft EXCEPT !.minimum = n] \in Drafts(FormBranches)
      BY <1>t DEF Drafts
    <3>3. [draft EXCEPT !.minimum = n].rank = draft.rank
      BY <1>t DEF Drafts
    <3> QED
      BY <3>1, <3>2, <3>3
  <2>3. CASE \E n \in Proposals : Edit([draft EXCEPT !.price = n])
    <3>1. PICK n \in Proposals : Edit([draft EXCEPT !.price = n])
      BY <2>3
    <3>0. n \in Nat
      BY FormAssumption
    <3>2. [draft EXCEPT !.price = n] \in Drafts(FormBranches)
      BY <1>t, <3>0 DEF Drafts
    <3>3. [draft EXCEPT !.price = n].rank = draft.rank
      BY <1>t DEF Drafts
    <3> QED
      BY <3>1, <3>2, <3>3
  <2>4. CASE \/ \E n \in Delays : Edit([draft EXCEPT !.mode = "delay", !.when = n])
             \/ \E n \in Times : Edit([draft EXCEPT !.mode = "absolute", !.when = n])
    <3>1. PICK n \in Delays \cup Times, m \in FormModes : Edit([draft EXCEPT !.mode = m, !.when = n])
      BY <2>4 DEF FormModes
    <3>0. n \in Nat
      BY FormAssumption
    <3>2. [draft EXCEPT !.mode = m, !.when = n] \in Drafts(FormBranches)
      BY <1>t, <3>0 DEF Drafts
    <3>3. [draft EXCEPT !.mode = m, !.when = n].rank = draft.rank
      BY <1>t DEF Drafts
    <3> QED
      BY <3>1, <3>2, <3>3
  <2> QED
    BY <2>1, <2>2, <2>3, <2>4 DEF FillIn
<1>2. wizard' = Crosses(wizard)
  BY DEF FillIn
<1>3. PICK w \in Wizards :
         /\ wizard' = w /\ w.step = wizard.step /\ w.busy = wizard.busy
         /\ w.crossed = (wizard.crossed \/ wizard.busy) /\ w.options = wizard.options
  BY <1>2, <1>t, CrossesType
<1>4. draft' = d /\ prices' = prices /\ revision' = revision
  BY <1>1 DEF Edit, Server
<1>5. MenuLoaded'
  BY <1>1, <1>3, <1>4 DEF FormIInv, MenuLoaded, Loaded
<1> QED
  BY <1>1, <1>3, <1>5, EditOK

LEMMA ChooseRankOK ==
  ASSUME FormIInv, NEW r \in Ranks, ChooseRank(r)
  PROVE  FormIInv'
<1>t. wizard \in Wizards /\ draft \in Drafts(FormBranches)
  BY DEF FormIInv, FormTyped
<1>1. PICK d : d \in Drafts(FormBranches) /\ Edit(d) /\ d.rank = r
  <2>1. [draft EXCEPT !.rank = r, !.price = 0] \in Drafts(FormBranches)
    BY <1>t DEF Drafts
  <2>2. [draft EXCEPT !.rank = r, !.price = 0].rank = r
    BY <1>t DEF Drafts
  <2> QED
    BY <2>1, <2>2 DEF ChooseRank
<1>2. wizard' = Crosses(wizard) /\ Loaded
  BY DEF ChooseRank
<1>3. PICK w \in Wizards :
         /\ wizard' = w /\ w.step = wizard.step /\ w.busy = wizard.busy
         /\ w.crossed = (wizard.crossed \/ wizard.busy) /\ w.options = wizard.options
  BY <1>2, <1>t, CrossesType
<1>4. draft' = d /\ prices' = prices /\ revision' = revision
  BY <1>1 DEF Edit, Server
<1>5. r # NoRank
  BY FormAssumption DEF NoRank
<1>6. MenuLoaded'
  BY <1>1, <1>2, <1>3, <1>4, <1>5 DEF FormIInv, MenuLoaded, Loaded
<1> QED
  BY <1>1, <1>3, <1>6, EditOK

LEMMA ChooseBranchOK ==
  ASSUME FormIInv, NEW r \in Ranks, ChooseBranch(BranchOf[r])
  PROVE  FormIInv'
<1>t. wizard \in Wizards /\ draft \in Drafts(FormBranches)
  BY DEF FormIInv, FormTyped
<1>1. PICK d : d \in Drafts(FormBranches) /\ Edit(d) /\ d.rank = NoRank
  <2>0. BranchOf[r] \in FormBranches
    BY DEF FormBranches
  <2>1. [draft EXCEPT !.branch = BranchOf[r], !.rank = NoRank] \in Drafts(FormBranches)
    BY <1>t, <2>0 DEF Drafts
  <2>2. [draft EXCEPT !.branch = BranchOf[r], !.rank = NoRank].rank = NoRank
    BY <1>t DEF Drafts
  <2> QED
    BY <2>1, <2>2 DEF ChooseBranch
<1>2. wizard' = [Crosses(wizard) EXCEPT !.options = NoOptions]
  BY DEF ChooseBranch
<1>3. PICK w0 \in Wizards :
         /\ Crosses(wizard) = w0 /\ w0.step = wizard.step /\ w0.busy = wizard.busy
         /\ w0.crossed = (wizard.crossed \/ wizard.busy)
  BY <1>t, CrossesType
<1>4. PICK w : w = [w0 EXCEPT !.options = NoOptions]
  OBVIOUS
<1>5. /\ w \in Wizards /\ w.step = w0.step /\ w.busy = w0.busy /\ w.crossed = w0.crossed
      /\ w.options = NoOptions
  BY <1>4 DEF Wizards
<1>6. wizard' = w
  BY <1>2, <1>3, <1>4
<1>7. draft' = d
  BY <1>1 DEF Edit
<1>8. MenuLoaded'
  BY <1>1, <1>5, <1>6, <1>7 DEF MenuLoaded, Loaded
<1> QED
  BY <1>1, <1>3, <1>5, <1>6, <1>8, EditOK

LEMMA BackToFormOK ==
  ASSUME FormIInv, BackToForm
  PROVE  FormIInv'
<1>t. FormTyped
  BY DEF FormIInv
<1>1. /\ wizard.step = "confirm" /\ ~wizard.busy /\ UNCHANGED handlerVars /\ sent' = sent
      /\ orders' = orders /\ draft' = draft
      /\ tick' = tick /\ prices' = prices /\ revision' = revision /\ owes' = owes
      /\ wizard' = [wizard EXCEPT !.step = "form", !.crossed = FALSE]
  BY DEF BackToForm, Server
<1>2. /\ wizard' \in Wizards /\ wizard'.step = "form" /\ wizard'.busy = wizard.busy
      /\ wizard'.options = wizard.options
  BY <1>1, <1>t DEF FormTyped, Wizards
<1>3. \A h \in Handlers : at[h] = "idle"
  BY <1>1 DEF FormIInv, OneRequest
<1>4. MenuLoaded'
  BY <1>1, <1>2 DEF FormIInv, MenuLoaded, Loaded
<1>5. /\ tick' \in Nat /\ revision' \in Nat /\ owes' \in BOOLEAN /\ prices' \in PriceLists
      /\ draft' \in Drafts(FormBranches)
  BY <1>1, <1>t DEF FormTyped
<1> QED
  BY <1>1, <1>2, <1>3, <1>4, <1>5, OutsideOK

-----------------------------------------------------------------------------
(* Requests *)

\* What a step of handler h leaves that goes to l, with the form s, at the wizard's step w.
FormMoves(h, l, s, w) ==
    /\ l \in FormLabels /\ s \in Sendings /\ w \in Wizards
    /\ at' = [at EXCEPT ![h] = l] /\ sent' = [sent EXCEPT ![h] = s] /\ wizard' = w
    /\ \A g \in Handlers \ {h} : at[g] = "idle"
    /\ w.options = wizard.options /\ w.crossed = wizard.crossed
    /\ faults' \in Nat /\ faults <= faults'
    /\ tick' = tick /\ prices' = prices /\ revision' = revision /\ owes' = owes /\ draft' = draft

LEMMA FormMovesTo ==
  ASSUME FormIInv, NEW h \in Handlers, NEW l, NEW s, NEW w, FormMoves(h, l, s, w)
  PROVE  /\ at' \in [Handlers -> FormLabels] /\ at'[h] = l /\ sent'[h] = s
         /\ \A g \in Handlers \ {h} : at'[g] = "idle" /\ at[g] = "idle" /\ sent'[g] = sent[g]
         /\ sent' \in [Handlers -> Sendings]
BY DEF FormIInv, FormTyped, FormMoves

\* When no order is written.
LEMMA OrdersSameOK ==
  ASSUME FormIInv, NEW h \in Handlers, NEW l, NEW s, NEW w, FormMoves(h, l, s, w), orders' = orders,
         wizard.step = "left" => w.step = "left", l # "setUp",
         at[h] = "setUp" => faults' > 0 \/ owes
  PROVE  OrdersAsShown' /\ OneSetUp' /\ orders' \in Seq(OrderRows)
<1>1. OrdersAsShown' /\ orders' \in Seq(OrderRows)
  BY DEF FormIInv, FormTyped, OrdersAsShown, IsConfirmed
<1>2. \A g \in Handlers : at'[g] # "setUp"
  BY FormMovesTo
<1>3. /\ owes' = owes /\ wizard' = w /\ faults \in Nat /\ faults' \in Nat /\ faults <= faults'
      /\ \A g \in Handlers \ {h} : at[g] = "idle"
  BY DEF FormMoves, FormIInv, FormTyped
<1>4. ASSUME NEW i \in DOMAIN orders, Left(i)'
      PROVE  faults' > 0 \/ owes'
  <2>1. CASE at[h] = "setUp"
    BY <2>1, <1>3
  <2>2. CASE at[h] # "setUp"
    <3>1. Left(i)
      BY <2>2, <1>3, <1>4 DEF Left
    <3>2. faults > 0 \/ owes
      BY <3>1 DEF FormIInv, OneSetUp
    <3> QED
      BY <3>2, <1>3
  <2> QED
    BY <2>1, <2>2
<1>5. wizard'.step # "left" => \A i \in DOMAIN orders' : orders'[i].closes = 0
  BY <1>3 DEF FormIInv, OneSetUp
<1>6. \A i, j \in DOMAIN orders' : orders'[i].closes # 0 /\ orders'[j].closes # 0 => i = j
  BY DEF FormIInv, OneSetUp
<1> QED
  BY <1>1, <1>2, <1>4, <1>5, <1>6 DEF OneSetUp

LEMMA FormStepOK ==
  ASSUME FormIInv, NEW h \in Handlers, NEW l, NEW s, NEW w, FormMoves(h, l, s, w),
         l # "idle" => /\ w.busy /\ w.step # "left" /\ s.body.rank \in Ranks
                       /\ s.for = "create" <=> w.step = "confirm"
                       /\ l = "setUp" => w.step = "confirm",
         l = "build" => s.body.minimum < s.body.needed /\ s.body.when >= s.at + MinDelay,
         l \in {"validate", "build"} /\ ~wizard.crossed => IsSent(h)',
         w.step = "confirm" /\ ~wizard.crossed => draft.rank \in Ranks /\ IsShown(w.preview),
         OrdersAsShown', OneSetUp', orders' \in Seq(OrderRows)
  PROVE  FormIInv'
<1>1. /\ at' \in [Handlers -> FormLabels] /\ at'[h] = l /\ sent'[h] = s
      /\ \A g \in Handlers \ {h} : at'[g] = "idle" /\ at[g] = "idle" /\ sent'[g] = sent[g]
      /\ sent' \in [Handlers -> Sendings]
  BY FormMovesTo
<1>2. /\ wizard' = w /\ w \in Wizards /\ w.options = wizard.options /\ w.crossed = wizard.crossed
      /\ faults' \in Nat /\ tick' = tick /\ prices' = prices /\ revision' = revision /\ owes' = owes
      /\ draft' = draft
  BY DEF FormMoves
<1>3. FormTyped'
  BY <1>1, <1>2 DEF FormIInv, FormTyped
<1>4. OneRequest'
  BY <1>1, <1>2 DEF OneRequest
<1>5. MenuLoaded'
  BY <1>2 DEF FormIInv, MenuLoaded, Loaded
<1>6. SentIsDraft'
  <2> SUFFICES ASSUME NEW g \in Handlers
               PROVE  /\ at'[g] = "build" => /\ sent'[g].body.minimum < sent'[g].body.needed
                                             /\ sent'[g].body.when >= sent'[g].at + MinDelay
                      /\ at'[g] \in {"validate", "build"} /\ ~wizard'.crossed => IsSent(g)'
    BY DEF SentIsDraft
  <2>1. CASE g = h
    BY <2>1, <1>1, <1>2
  <2>2. CASE g # h
    BY <2>2, <1>1
  <2> QED
    BY <2>1, <2>2
<1>7. PreviewIsDraft'
  <2>1. Bid' = Bid /\ LeastOf(draft)' = LeastOf(draft)
    BY <1>2 DEF Bid, Proposable, Loaded, LeastOf
  <2> SUFFICES ASSUME wizard'.step = "confirm", ~wizard'.crossed
               PROVE  draft'.rank \in Ranks /\ IsShown(wizard.preview)'
    BY DEF PreviewIsDraft
  <2>2. draft.rank \in Ranks /\ IsShown(w.preview)
    BY <1>2
  <2> QED
    BY <2>1, <2>2, <1>2 DEF IsShown, StartOf
<1> QED
  BY <1>3, <1>4, <1>5, <1>6, <1>7 DEF FormIInv

\* A request that ends without an order: the form is refused, or its handler dies.
LEMMA RefuseOK ==
  ASSUME FormIInv, NEW h \in Handlers, at[h] # "idle", at' = [at EXCEPT ![h] = "idle"],
         sent' = [sent EXCEPT ![h] = NotSent], wizard' = [wizard EXCEPT !.busy = FALSE],
         faults' \in Nat, faults <= faults', tick' = tick, prices' = prices, revision' = revision,
         owes' = owes, draft' = draft, orders' = orders,
         at[h] = "setUp" => faults' > 0 \/ owes
  PROVE  FormIInv'
<1>1. PICK w : w = [wizard EXCEPT !.busy = FALSE]
  OBVIOUS
<1>2. /\ w \in Wizards /\ w.step = wizard.step /\ w.options = wizard.options
      /\ w.crossed = wizard.crossed /\ w.preview = wizard.preview
  BY <1>1 DEF FormIInv, FormTyped, Wizards
<1>3. \A g \in Handlers \ {h} : at[g] = "idle"
  BY DEF FormIInv, OneRequest
<1>4. FormMoves(h, "idle", NotSent, w)
  BY <1>1, <1>2, <1>3, DraftTypes DEF FormMoves, FormLabels
<1>5. OrdersAsShown' /\ OneSetUp' /\ orders' \in Seq(OrderRows)
  BY <1>2, <1>4, OrdersSameOK
<1>6. w.step = "confirm" /\ ~wizard.crossed => draft.rank \in Ranks /\ IsShown(w.preview)
  BY <1>2 DEF FormIInv, PreviewIsDraft
<1> QED
  BY <1>4, <1>5, <1>6, FormStepOK

LEMMA FormDieOK ==
  ASSUME FormIInv, NEW h \in Handlers, FormDie(h)
  PROVE  FormIInv'
<1>1. /\ at[h] # "idle" /\ at' = [at EXCEPT ![h] = "idle"] /\ faults' = faults + 1
      /\ sent' = [sent EXCEPT ![h] = NotSent] /\ wizard' = [wizard EXCEPT !.busy = FALSE]
      /\ tick' = tick /\ prices' = prices /\ revision' = revision
      /\ owes' = owes /\ draft' = draft /\ orders' = orders
  BY DEF FormDie, Die, Refused, Goto, Tell, Server
<1>2. faults \in Nat
  BY DEF FormIInv, FormTyped
<1>3. faults' \in Nat /\ faults <= faults' /\ faults' > 0
  BY <1>1, <1>2
<1> QED
  BY <1>1, <1>3, RefuseOK

LEMMA RefuseFormOK ==
  ASSUME FormIInv, NEW h \in Handlers, RefuseForm(h), at[h] # "idle", at[h] = "setUp" => owes
  PROVE  FormIInv'
<1>1. /\ at' = [at EXCEPT ![h] = "idle"] /\ faults' = faults
      /\ sent' = [sent EXCEPT ![h] = NotSent] /\ wizard' = [wizard EXCEPT !.busy = FALSE]
      /\ tick' = tick /\ prices' = prices /\ revision' = revision
      /\ owes' = owes /\ draft' = draft /\ orders' = orders
  BY DEF RefuseForm, FormDone, End, Continue, Goto, Tell, Server
<1>2. faults' \in Nat /\ faults <= faults'
  BY <1>1 DEF FormIInv, FormTyped
<1> QED
  BY <1>1, <1>2, RefuseOK

\* What is sent is what the form says.
LEMMA PayloadIs ==
  ASSUME draft \in Drafts(FormBranches)
  PROVE  /\ Payload \in Drafts(FormBranches \cup {"none"})
         /\ Payload.rank = draft.rank /\ Payload.needed = draft.needed /\ Payload.mode = draft.mode
         /\ Payload.minimum = draft.minimum /\ Payload.when = draft.when /\ Payload.price = Bid
<1>1. draft.price \in Nat
  BY DEF Drafts
<1>2. Bid \in Nat
  BY <1>1 DEF Bid
<1>3. Payload = [draft EXCEPT !.price = Bid]
  BY DEF Payload, Bid
<1> QED
  BY <1>2, <1>3 DEF Drafts

LEMMA SubmitOK ==
  ASSUME FormIInv, NEW h \in Handlers, NEW kind \in {"confirm", "create"}, Submit(h, kind),
         orders' = orders, kind = "create" <=> wizard.step = "confirm", wizard.step # "left"
  PROVE  FormIInv'
<1>t. FormTyped
  BY DEF FormIInv
<1>1. /\ at[h] = "idle" /\ at' = [at EXCEPT ![h] = "validate"] /\ faults' = faults
      /\ ~wizard.busy /\ draft.rank # NoRank
      /\ wizard' = [wizard EXCEPT !.busy = TRUE]
      /\ sent' = [sent EXCEPT ![h] = [for |-> kind, body |-> Payload, at |-> tick]]
      /\ tick' = tick /\ prices' = prices /\ revision' = revision /\ owes' = owes /\ draft' = draft
  BY DEF Submit, Begin, Deliver, Goto, Tell, Server
<1>2. PICK w : w = [wizard EXCEPT !.busy = TRUE]
  OBVIOUS
<1>3. /\ w \in Wizards /\ w.step = wizard.step /\ w.options = wizard.options /\ w.busy
      /\ w.crossed = wizard.crossed /\ w.preview = wizard.preview
  BY <1>2, <1>t DEF FormTyped, Wizards
<1>4. draft \in Drafts(FormBranches) /\ tick \in Nat
  BY <1>t DEF FormTyped
<1>p. /\ Payload \in Drafts(FormBranches \cup {"none"})
      /\ Payload.rank = draft.rank /\ Payload.needed = draft.needed /\ Payload.mode = draft.mode
      /\ Payload.minimum = draft.minimum /\ Payload.when = draft.when /\ Payload.price = Bid
  BY <1>4, PayloadIs
<1>5. PICK s : s = [for |-> kind, body |-> Payload, at |-> tick]
  OBVIOUS
<1>6. s \in Sendings /\ s.for = kind /\ s.body = Payload
  BY <1>4, <1>5, <1>p DEF Sendings
<1>7. \A g \in Handlers \ {h} : at[g] = "idle"
  BY <1>1 DEF FormIInv, OneRequest
<1>8. FormMoves(h, "validate", s, w)
  BY <1>1, <1>2, <1>3, <1>5, <1>6, <1>7, <1>t DEF FormMoves, FormLabels, FormTyped
<1>9. OrdersAsShown' /\ OneSetUp' /\ orders' \in Seq(OrderRows)
  BY <1>1, <1>3, <1>8, OrdersSameOK
<1>10. draft.rank \in Ranks
  BY <1>1, <1>4 DEF Drafts
<1>11. IsSent(h)'
  <2>1. at'[h] = "validate" /\ sent'[h] = s
    BY <1>8, FormMovesTo
  <2>2. Bid' = Bid
    BY <1>1, <1>2, <1>3 DEF Bid, Proposable, Loaded
  <2> QED
    BY <2>1, <2>2, <1>1, <1>6, <1>p DEF IsSent
<1>12. w.step = "confirm" /\ ~wizard.crossed => draft.rank \in Ranks /\ IsShown(w.preview)
  BY <1>3 DEF FormIInv, PreviewIsDraft
<1>13. s.body.rank \in Ranks
  BY <1>6, <1>10, <1>p
<1> QED
  BY <1>3, <1>6, <1>8, <1>9, <1>11, <1>12, <1>13, FormStepOK

LEMMA ConfirmCreateOK ==
  ASSUME FormIInv, NEW h \in Handlers, Confirm(h) \/ Create(h)
  PROVE  FormIInv'
<1>1. CASE Confirm(h)
  BY <1>1, SubmitOK DEF Confirm, Submit, Server
<1>2. CASE Create(h)
  BY <1>2, SubmitOK DEF Create, Submit, Server
<1> QED
  BY <1>1, <1>2

LEMMA ValidateOK ==
  ASSUME FormIInv, NEW h \in Handlers, ValidateOrderForm(h)
  PROVE  FormIInv'
<1>t. FormTyped
  BY DEF FormIInv
<1>0. at[h] = "validate"
  BY DEF ValidateOrderForm
<1>r. sent[h] \in Sendings /\ sent[h].body \in Drafts(FormBranches \cup {"none"}) /\ tick \in Nat
  BY <1>t DEF FormTyped, Sendings
<1>b. PICK b \in Drafts(FormBranches \cup {"none"}) : b = sent[h].body
  BY <1>r
<1>d. PICK d : d = NormaliseOrderForm(b)
  OBVIOUS
<1>1. /\ d \in Drafts(FormBranches \cup {"none"}) /\ d.rank = b.rank /\ d.needed = b.needed
      /\ d.mode = b.mode /\ d.when = b.when /\ d.price = b.price /\ d.minimum = LeastOf(b)
  <2>1. b.minimum \in Nat
    BY DEF Drafts
  <2>2. LeastOf(b) \in Nat
    BY <2>1 DEF LeastOf
  <2>3. d = [b EXCEPT !.minimum = LeastOf(b)]
    BY <1>d DEF NormaliseOrderForm, LeastOf
  <2> QED
    BY <2>2, <2>3 DEF Drafts
<1>2. CASE owes \/ ~Valid(d, tick)
  <2>1. RefuseForm(h)
    BY <1>2, <1>b, <1>d DEF ValidateOrderForm
  <2> QED
    BY <2>1, <1>0, RefuseFormOK
<1>3. CASE ~owes /\ Valid(d, tick)
  <2>1. PICK p : p = IF prices[d.rank].proposable THEN d.price ELSE 0
    OBVIOUS
  <2>2. p \in Nat /\ StartOf(d, tick) \in Nat
    BY <1>1, <1>r, <2>1, StartType
  <2>3. PICK n : n = StartOf(d, tick)
    OBVIOUS
  <2>4. PICK e : e = [d EXCEPT !.when = n, !.price = p]
    OBVIOUS
  <2>5. /\ e \in Drafts(FormBranches \cup {"none"}) /\ e.rank = d.rank /\ e.needed = d.needed
        /\ e.mode = d.mode /\ e.minimum = d.minimum /\ e.when = n /\ e.price = p
    BY <2>2, <2>3, <2>4, <1>1 DEF Drafts
  <2>6. PICK s : s = [sent[h] EXCEPT !.at = tick, !.body = e]
    OBVIOUS
  <2>7. s \in Sendings /\ s.for = sent[h].for /\ s.body = e /\ s.at = tick
    BY <2>5, <2>6, <1>r DEF Sendings
  <2>8. /\ Tell(h, [sent[h] EXCEPT !.at = tick,
                      !.body = [d EXCEPT !.when = StartOf(d, tick),
                                         !.price = IF prices[d.rank].proposable THEN d.price ELSE 0]])
        /\ Continue(h, "build") /\ UNCHANGED <<tick, Server, Client>>
    BY <1>3, <1>b, <1>d DEF ValidateOrderForm
  <2>9. sent' = [sent EXCEPT ![h] = s]
    BY <2>1, <2>3, <2>4, <2>6, <2>8 DEF Tell
  <2>10. /\ at' = [at EXCEPT ![h] = "build"] /\ faults' = faults /\ wizard' = wizard /\ draft' = draft
         /\ tick' = tick /\ prices' = prices /\ revision' = revision /\ owes' = owes /\ orders' = orders
    BY <2>8 DEF Continue, Goto, Server, Client
  <2>11. \A g \in Handlers \ {h} : at[g] = "idle"
    BY <1>0 DEF FormIInv, OneRequest
  <2>12. FormMoves(h, "build", s, wizard)
    BY <2>7, <2>9, <2>10, <2>11, <1>t DEF FormMoves, FormLabels, FormTyped
  <2>13. OrdersAsShown' /\ OneSetUp' /\ orders' \in Seq(OrderRows)
    BY <2>10, <2>12, <1>0, OrdersSameOK
  <2>14. s.body.minimum < s.body.needed /\ s.body.when >= s.at + MinDelay
    <3>1. d.minimum <= d.needed /\ n >= tick + MinDelay
      BY <1>3, <2>3 DEF Valid
    <3>2. d.minimum # d.needed
      <4>1. b.needed > 0 /\ b.needed \in Nat
        BY StartType, <1>r
      <4> QED
        BY <4>1, <1>1 DEF LeastOf
    <3>3. d.minimum \in Nat /\ d.needed \in Nat
      BY <1>1, StartType, <1>r
    <3> QED
      BY <3>1, <3>2, <3>3, <2>5, <2>7
  <2>15. ASSUME ~wizard.crossed PROVE IsSent(h)'
    <3>1. at'[h] = "build" /\ sent'[h] = s
      BY <2>12, FormMovesTo
    <3>2. Bid' = Bid /\ LeastOf(draft)' = LeastOf(draft) /\ StartOf(draft', tick') = StartOf(draft, tick)
      BY <2>10 DEF Bid, Proposable, Loaded, LeastOf, StartOf
    <3>3. IsSent(h)
      BY <1>0, <2>15 DEF FormIInv, SentIsDraft
    <3>4. /\ b.rank = draft.rank /\ b.needed = draft.needed /\ b.mode = draft.mode
          /\ b.minimum = draft.minimum /\ b.when = draft.when /\ (revision = 0 => b.price = Bid)
      BY <1>0, <1>b, <3>3 DEF IsSent
    <3>5. LeastOf(b) = LeastOf(draft) /\ n = StartOf(draft, tick)
      BY <3>4, <2>3, <1>1 DEF LeastOf, StartOf
    <3>6. revision = 0 => p = Bid
      <4>1. b.rank \in Ranks
        BY <1>0, <1>b DEF FormIInv, OneRequest
      <4>2. ASSUME revision = 0, ~prices[d.rank].proposable PROVE Bid = 0
        <5>1. draft.rank # NoRank
          BY <4>1, <3>4, FormAssumption DEF NoRank
        <5>2. wizard.options = prices
          BY <4>2, <5>1 DEF FormIInv, MenuLoaded
        <5> QED
          BY <5>2, <4>2, <3>4, <1>1 DEF Bid, Proposable
      <4> QED
        BY <4>2, <3>4, <2>1, <1>1
    <3> QED
      BY <3>1, <3>2, <3>4, <3>5, <3>6, <2>5, <2>7, <2>10, <1>1 DEF IsSent
  <2>16. wizard.step = "confirm" /\ ~wizard.crossed => draft.rank \in Ranks /\ IsShown(wizard.preview)
    BY DEF FormIInv, PreviewIsDraft
  <2>17. /\ wizard.busy /\ wizard.step # "left" /\ s.body.rank \in Ranks
         /\ s.for = "create" <=> wizard.step = "confirm"
    BY <1>0, <1>b, <1>1, <2>5, <2>7 DEF FormIInv, OneRequest
  <2> QED
    BY <2>12, <2>13, <2>14, <2>15, <2>16, <2>17, FormStepOK
<1> QED
  BY <1>2, <1>3

\* What is built from a checked form is what the form says.
LEMMA BuildIs ==
  ASSUME FormIInv, NEW h \in Handlers, at[h] = "build"
  PROVE  /\ BuildGroupMeeting(h) \in Previews
         /\ BuildGroupMeeting(h).at = sent[h].at
         /\ BuildGroupMeeting(h).minimum < BuildGroupMeeting(h).needed
         /\ BuildGroupMeeting(h).start >= BuildGroupMeeting(h).at + MinDelay
         /\ ~wizard.crossed => draft.rank \in Ranks /\ IsShown(BuildGroupMeeting(h))
<1>1. sent[h] \in Sendings /\ prices \in PriceLists
  BY DEF FormIInv, FormTyped
<1>2. PICK b \in Drafts(FormBranches \cup {"none"}) : b = sent[h].body
  BY <1>1 DEF Sendings
<1>3. sent[h].at \in Nat /\ b.rank \in Ranks
  BY <1>1, <1>2 DEF Sendings, FormIInv, OneRequest
<1>4. PICK base : base = IF b.price # 0 THEN b.price ELSE prices[b.rank].base
  OBVIOUS
<1>5. base \in Nat
  <2>1. prices[b.rank].base \in Nat
    BY <1>1, <1>3, FormAssumption
  <2>2. b.price \in Nat
    BY DEF Drafts
  <2> QED
    BY <2>1, <2>2, <1>4
<1>6. PICK o : o = BuildGroupMeeting(h)
  OBVIOUS
<1>7. o = [at |-> sent[h].at, rank |-> b.rank, needed |-> b.needed, minimum |-> b.minimum,
           base |-> base, start |-> b.when, mode |-> b.mode]
  BY <1>2, <1>4, <1>6 DEF BuildGroupMeeting
<1>8. /\ o.at = sent[h].at /\ o.rank = b.rank /\ o.needed = b.needed /\ o.minimum = b.minimum
      /\ o.base = base /\ o.start = b.when /\ o.mode = b.mode
  BY <1>7
<1>9. o \in Previews
  <2>1. /\ b.needed \in Nat /\ b.minimum \in Nat /\ b.when \in Nat /\ b.mode \in FormModes
    BY StartType, <1>3
  <2> QED
    BY <2>1, <1>3, <1>5, <1>7 DEF Previews
<1>10. o.minimum < o.needed /\ o.start >= o.at + MinDelay
  BY <1>2, <1>8 DEF FormIInv, SentIsDraft
<1>11. ASSUME ~wizard.crossed PROVE draft.rank \in Ranks /\ IsShown(o)
  <2>1. IsSent(h)
    BY <1>11 DEF FormIInv, SentIsDraft
  <2>2. /\ b.rank = draft.rank /\ b.needed = draft.needed /\ b.mode = draft.mode
        /\ b.minimum = LeastOf(draft) /\ b.when = StartOf(draft, sent[h].at)
        /\ revision = 0 => b.price = Bid
    BY <2>1, <1>2 DEF IsSent
  <2> QED
    BY <2>2, <1>3, <1>4, <1>8 DEF IsShown
<1> QED
  BY <1>6, <1>8, <1>9, <1>10, <1>11

LEMMA ShowPreviewOK ==
  ASSUME FormIInv, NEW h \in Handlers, ShowPreview(h)
  PROVE  FormIInv'
<1>t. FormTyped
  BY DEF FormIInv
<1>0. at[h] = "build" /\ sent[h].for = "confirm"
  BY DEF ShowPreview
<1>1. PICK o : o = BuildGroupMeeting(h)
  OBVIOUS
<1>2. o \in Previews /\ (~wizard.crossed => draft.rank \in Ranks /\ IsShown(o))
  BY <1>0, <1>1, BuildIs
<1>3. PICK w : w = [wizard EXCEPT !.step = "confirm", !.busy = FALSE, !.preview = o]
  OBVIOUS
<1>4. /\ w \in Wizards /\ w.step = "confirm" /\ w.options = wizard.options
      /\ w.crossed = wizard.crossed /\ w.preview = o
  BY <1>2, <1>3, <1>t DEF FormTyped, Wizards
<1>5. /\ at' = [at EXCEPT ![h] = "idle"] /\ faults' = faults
      /\ sent' = [sent EXCEPT ![h] = NotSent] /\ wizard' = w
      /\ tick' = tick /\ prices' = prices /\ revision' = revision
      /\ owes' = owes /\ draft' = draft /\ orders' = orders
  BY <1>1, <1>3 DEF ShowPreview, FormDone, End, Continue, Goto, Tell, Server
<1>6. \A g \in Handlers \ {h} : at[g] = "idle"
  BY <1>0 DEF FormIInv, OneRequest
<1>7. FormMoves(h, "idle", NotSent, w)
  BY <1>4, <1>5, <1>6, <1>t, DraftTypes DEF FormMoves, FormLabels, FormTyped
<1>8. wizard.step # "left"
  BY <1>0 DEF FormIInv, OneRequest
<1>9. OrdersAsShown' /\ OneSetUp' /\ orders' \in Seq(OrderRows)
  BY <1>0, <1>5, <1>7, <1>8, OrdersSameOK
<1> QED
  BY <1>2, <1>4, <1>7, <1>9, FormStepOK

LEMMA InsertMeetingOK ==
  ASSUME FormIInv, NEW h \in Handlers, InsertMeeting(h)
  PROVE  FormIInv'
<1>t. FormTyped
  BY DEF FormIInv
<1>0. at[h] = "build" /\ sent[h].for = "create"
  BY DEF InsertMeeting
<1>1. PICK o : o = BuildGroupMeeting(h)
  OBVIOUS
<1>2. /\ o \in Previews /\ o.minimum < o.needed /\ o.start >= o.at + MinDelay
      /\ ~wizard.crossed => draft.rank \in Ranks /\ IsShown(o)
  BY <1>0, <1>1, BuildIs
<1>3. PICK p \in Previews : p = wizard.preview
  BY <1>t DEF FormTyped, Wizards
<1>4. PICK r : r = [row |-> o, opened |-> 0, closes |-> 0, shown |-> p, renewed |-> revision # 0,
                    crossed |-> wizard.crossed]
  OBVIOUS
<1>5. /\ r.row = o /\ r.opened = 0 /\ r.closes = 0 /\ r.shown = p /\ r.renewed = (revision # 0)
      /\ r.crossed = wizard.crossed
  BY <1>4
<1>6. r \in OrderRows
  <2>1. wizard.crossed \in BOOLEAN /\ (revision # 0) \in BOOLEAN
    BY <1>t DEF FormTyped, Wizards
  <2> QED
    BY <2>1, <1>2, <1>4 DEF OrderRows
<1>7. /\ at' = [at EXCEPT ![h] = "setUp"] /\ faults' = faults /\ sent' = sent /\ wizard' = wizard
      /\ tick' = tick /\ prices' = prices /\ revision' = revision
      /\ owes' = owes /\ draft' = draft /\ orders' = Append(orders, r)
  BY <1>1, <1>3, <1>4 DEF InsertMeeting, Continue, Goto, Client
<1>8. \A g \in Handlers \ {h} : at[g] = "idle"
  BY <1>0 DEF FormIInv, OneRequest
<1>9. /\ wizard.busy /\ wizard.step = "confirm" /\ sent[h].body.rank \in Ranks
  BY <1>0 DEF FormIInv, OneRequest
<1>10. FormMoves(h, "setUp", sent[h], wizard)
  <2>1. sent' = [sent EXCEPT ![h] = sent[h]] /\ sent[h] \in Sendings
    BY <1>7, <1>t DEF FormTyped
  <2> QED
    BY <2>1, <1>7, <1>8, <1>t DEF FormMoves, FormLabels, FormTyped
<1>11. PICK n : n = Len(orders) + 1
  OBVIOUS
<1>12. /\ orders' \in Seq(OrderRows) /\ n \notin DOMAIN orders /\ n > 0 /\ Len(orders') = n
       /\ DOMAIN orders' = DOMAIN orders \cup {n} /\ orders'[n] = r
       /\ \A i \in DOMAIN orders : orders'[i] = orders[i]
  <2>1. orders \in Seq(OrderRows)
    BY <1>t DEF FormTyped
  <2>2. Len(orders) \in Nat /\ DOMAIN orders = 1..Len(orders)
    BY <2>1
  <2>3. DOMAIN orders' = 1..(Len(orders) + 1)
    BY <2>1, <1>6, <1>7
  <2> QED
    BY <2>1, <2>2, <2>3, <1>6, <1>7, <1>11
<1>13. IsConfirmed(r)
  <2>1. ASSUME ~wizard.crossed
        PROVE  /\ o.rank = p.rank /\ o.needed = p.needed /\ o.minimum = p.minimum
               /\ revision = 0 => o.base = p.base
               /\ o.start - p.start = IF o.mode = "delay" THEN o.at - p.at ELSE 0
    <3>1. IsShown(p) /\ IsShown(o)
      BY <1>2, <1>3, <1>9, <2>1 DEF FormIInv, PreviewIsDraft
    <3>2. o.mode = p.mode /\ o.start = StartOf(draft, o.at) /\ p.start = StartOf(draft, p.at)
          /\ o.mode = draft.mode
      BY <3>1 DEF IsShown
    <3>3. o.at \in Nat /\ p.at \in Nat /\ draft.when \in Nat
      BY <1>2, <1>t DEF Previews, FormTyped, Drafts
    <3>4. o.start - p.start = IF o.mode = "delay" THEN o.at - p.at ELSE 0
      BY <3>2, <3>3 DEF StartOf
    <3> QED
      BY <3>1, <3>4 DEF IsShown
  <2>2. o.at \in Nat /\ o.start \in Nat
    BY <1>2 DEF Previews
  <2>3. r.closes < o.start
    BY <2>2, <1>2, <1>5 DEF MinDelay
  <2> QED
    BY <2>1, <2>3, <1>2, <1>5 DEF IsConfirmed
<1>14. OrdersAsShown'
  <2>1. \A i \in DOMAIN orders' : IsConfirmed(orders'[i])
    BY <1>12, <1>13 DEF FormIInv, OrdersAsShown
  <2> QED
    BY <2>1 DEF OrdersAsShown, IsConfirmed
<1>15. OneSetUp'
  <2>1. \A i \in DOMAIN orders' : orders'[i].closes = 0
    BY <1>5, <1>9, <1>12 DEF FormIInv, OneSetUp
  <2>2. at'[h] = "setUp"
    BY <1>10, FormMovesTo
  <2>3. ASSUME NEW i \in DOMAIN orders', Left(i)' PROVE faults' > 0 \/ owes'
    <3>1. i # n /\ i \in DOMAIN orders
      BY <2>2, <2>3, <1>12 DEF Left
    <3>2. Left(i)
      BY <3>1, <1>0, <1>8, <1>12, <2>3 DEF Left
    <3> QED
      BY <3>1, <3>2, <1>7 DEF FormIInv, OneSetUp
  <2> QED
    BY <2>1, <2>3, <1>12 DEF OneSetUp
<1>16. wizard.step = "confirm" /\ ~wizard.crossed => draft.rank \in Ranks /\ IsShown(wizard.preview)
  BY DEF FormIInv, PreviewIsDraft
<1> QED
  BY <1>0, <1>9, <1>10, <1>12, <1>14, <1>15, <1>16, FormStepOK

\* The recruitment of an order that starts in a quarter of an hour or later ends before.
LEMMA EndsBeforeStart ==
  ASSUME NEW start \in Nat, NEW t \in Nat
  PROVE  /\ ComputeRequestEndTime(start, t) \in Nat /\ ComputeRequestEndTime(start, t) > 0
         /\ start - t > 2 => ComputeRequestEndTime(start, t) < start
<1>1. PICK ahead \in Int : ahead = start - t
  OBVIOUS
<1>2. PICK open \in Nat :
         /\ open = IF ahead <= 6 THEN 2 ELSE IF ahead <= 24 THEN 3 ELSE IF ahead <= 72 THEN 6
                   ELSE IF ahead <= 144 THEN 12 ELSE IF ahead <= 288 THEN 48
                   ELSE IF ahead <= 864 THEN 96 ELSE 288
  OBVIOUS
<1>3. open > 0 /\ (ahead > 2 => open < ahead)
  BY <1>2
<1>4. ComputeRequestEndTime(start, t) = t + open
  BY <1>1, <1>2 DEF ComputeRequestEndTime
<1> QED
  BY <1>1, <1>3, <1>4

LEMMA SetUpMeetingOK ==
  ASSUME FormIInv, NEW h \in Handlers, SetUpMeeting(h)
  PROVE  FormIInv'
<1>t. FormTyped
  BY DEF FormIInv
<1>0. at[h] = "setUp"
  BY DEF SetUpMeeting
<1>1. CASE owes
  BY <1>0, <1>1, RefuseFormOK DEF SetUpMeeting
<1>2. CASE ~owes
  <2>1. orders \in Seq(OrderRows) /\ tick \in Nat
    BY <1>t DEF FormTyped
  <2>2. PICK n : n = Len(orders)
    OBVIOUS
  <2>3. n \in DOMAIN orders /\ orders[n] \in OrderRows
    <3>1. Len(orders) > 0
      BY <1>0 DEF FormIInv, OneSetUp
    <3> QED
      BY <2>1, <2>2, <3>1
  <2>4. PICK o \in OrderRows : o = orders[n]
    BY <2>3
  <2>5. o.row \in Previews /\ o.row.start \in Nat /\ o.row.at \in Nat
    BY DEF OrderRows, Previews
  <2>6. PICK c : c = ComputeRequestEndTime(o.row.start, tick)
    OBVIOUS
  <2>7. c \in Nat /\ c > 0 /\ (o.row.start - tick > 2 => c < o.row.start)
    BY <2>1, <2>5, <2>6, EndsBeforeStart
  <2>8. PICK r : r = [o EXCEPT !.opened = tick, !.closes = c]
    OBVIOUS
  <2>9. /\ r \in OrderRows /\ r.row = o.row /\ r.shown = o.shown /\ r.renewed = o.renewed
        /\ r.crossed = o.crossed /\ r.opened = tick /\ r.closes = c
    BY <2>1, <2>7, <2>8 DEF OrderRows
  <2>10. /\ orders' = [orders EXCEPT ![n].opened = tick, ![n].closes = c]
         /\ wizard' = [wizard EXCEPT !.step = "left", !.busy = FALSE]
         /\ at' = [at EXCEPT ![h] = "idle"] /\ faults' = faults
         /\ sent' = [sent EXCEPT ![h] = NotSent]
         /\ tick' = tick /\ prices' = prices /\ revision' = revision /\ owes' = owes /\ draft' = draft
    BY <1>2, <2>2, <2>4, <2>6 DEF SetUpMeeting, FormDone, End, Continue, Goto, Tell
  <2>11. orders' = [orders EXCEPT ![n] = r]
    BY <2>3, <2>4, <2>8, <2>10
  <2>12. /\ orders' \in Seq(OrderRows) /\ DOMAIN orders' = DOMAIN orders /\ orders'[n] = r
         /\ \A i \in DOMAIN orders : i # n => orders'[i] = orders[i]
    BY <2>1, <2>3, <2>9, <2>11
  <2>13. PICK w : w = [wizard EXCEPT !.step = "left", !.busy = FALSE]
    OBVIOUS
  <2>14. w \in Wizards /\ w.step = "left" /\ w.options = wizard.options /\ w.crossed = wizard.crossed
    BY <2>13, <1>t DEF FormTyped, Wizards
  <2>15. \A g \in Handlers \ {h} : at[g] = "idle"
    BY <1>0 DEF FormIInv, OneRequest
  <2>16. FormMoves(h, "idle", NotSent, w)
    BY <2>10, <2>13, <2>14, <2>15, <1>t, DraftTypes DEF FormMoves, FormLabels, FormTyped
  <2>17. IsConfirmed(r)
    <3>1. IsConfirmed(o)
      BY <2>3, <2>4 DEF FormIInv, OrdersAsShown
    <3>2. o.row.start >= o.row.at + 6
      BY <3>1 DEF IsConfirmed, MinDelay
    <3>3. r.opened < r.row.at + 4 => r.closes < r.row.start
      BY <3>2, <2>1, <2>5, <2>7, <2>9
    <3> QED
      BY <3>1, <3>3, <2>9 DEF IsConfirmed
  <2>18. OrdersAsShown'
    <3>1. \A i \in DOMAIN orders' : IsConfirmed(orders'[i])
      BY <2>12, <2>17 DEF FormIInv, OrdersAsShown
    <3> QED
      BY <3>1 DEF OrdersAsShown, IsConfirmed
  <2>19. OneSetUp'
    <3>1. wizard.step # "left"
      BY <1>0 DEF FormIInv, OneRequest
    <3>2. \A i \in DOMAIN orders : orders[i].closes = 0
      BY <3>1 DEF FormIInv, OneSetUp
    <3>3. \A i \in DOMAIN orders' : orders'[i].closes # 0 => i = n
      BY <3>2, <2>12
    <3>4. \A g \in Handlers : at'[g] # "setUp"
      BY <2>16, FormMovesTo
    <3>5. ASSUME NEW i \in DOMAIN orders', Left(i)' PROVE faults' > 0 \/ owes'
      <4>1. i # n
        BY <3>5, <2>7, <2>9, <2>12 DEF Left
      <4>2. Left(i)
        BY <4>1, <3>2, <2>2, <2>12 DEF Left
      <4> QED
        BY <4>2, <2>10, <2>12 DEF FormIInv, OneSetUp
    <3> QED
      BY <3>3, <3>4, <3>5, <2>10, <2>13, <2>14 DEF OneSetUp
  <2> QED
    BY <2>12, <2>14, <2>16, <2>18, <2>19, FormStepOK
<1> QED
  BY <1>1, <1>2

\* All steps of the wizard.
LEMMA FormsNextOK ==
  ASSUME FormIInv, [FormsNext]_<<handlerVars, formVars>>
  PROVE  FormIInv'
<1>1. CASE \E h \in Handlers :
              \/ Confirm(h) \/ Create(h) \/ ValidateOrderForm(h) \/ ShowPreview(h) \/ InsertMeeting(h)
              \/ SetUpMeeting(h) \/ FormDie(h)
  BY <1>1, ConfirmCreateOK, ValidateOK, ShowPreviewOK, InsertMeetingOK, SetUpMeetingOK, FormDieOK
<1>2. CASE LoadOptions \/ FillIn \/ BackToForm \/ FormTick \/ Bill \/ ChangePrices
  BY <1>2, LoadOptionsOK, FillInOK, BackToFormOK, MeanwhileOK
<1>3. CASE \E r \in Ranks : ChooseRank(r) \/ ChooseBranch(BranchOf[r])
  BY <1>3, ChooseRankOK, ChooseBranchOK
<1>4. CASE UNCHANGED <<handlerVars, formVars>>
  <2>t. FormTyped
    BY DEF FormIInv
  <2>1. /\ UNCHANGED handlerVars /\ sent' = sent /\ orders' = orders /\ wizard' = wizard
        /\ draft' = draft /\ tick' = tick /\ prices' = prices /\ revision' = revision /\ owes' = owes
    BY <1>4 DEF formVars
  <2>2. SameForm /\ MenuLoaded'
    BY <2>1 DEF SameForm, Bid, Proposable, Loaded, FormIInv, MenuLoaded
  <2>3. /\ tick' \in Nat /\ revision' \in Nat /\ owes' \in BOOLEAN /\ prices' \in PriceLists
        /\ wizard' \in Wizards /\ draft' \in Drafts(FormBranches)
    BY <2>1, <2>t DEF FormTyped
  <2> QED
    BY <2>1, <2>2, <2>3, OutsideOK
<1> QED
  BY <1>1, <1>2, <1>3, <1>4 DEF FormsNext
-----------------------------------------------------------------------------
(* The bill *)

LEMMA PriceConstants ==
  /\ MinInterval \in Nat \ {0} /\ Divider \in Nat \ {0} /\ Day \in Nat \ {0}
  /\ BaseCost \in Nat /\ ProlongCost \in Nat /\ NightSurcharge \in Nat
  /\ FeePermille \in 0..1000 /\ NightEnd \in Int
  /\ \A b \in Bookings : b.from \in Nat /\ b.to \in Nat /\ b.from <= b.to
BY PricingAssumption

\* A larger number has no smaller quotient.
LEMMA QuotientMonotone ==
  ASSUME NEW e \in Nat \ {0}, NEW t \in Nat, NEW u \in Nat, t <= u
  PROVE  t \div e <= u \div e
<1> DEFINE k == t \div e
<1>1. k \in Nat
  BY Quotient
<1>2. k * e <= t
  <2>1. k <= t \div e
    BY <1>1
  <2> HIDE DEF k
  <2> QED
    BY <1>1, <2>1, QuotientIsLargest
<1> HIDE DEF k
<1>3. k * e \in Nat
  BY <1>1
<1>4. k * e <= u
  BY <1>2, <1>3
<1> QED
  BY <1>1, <1>4, QuotientIsLargest DEF k

\* The quotient and the rest of a multiple.
LEMMA QuotientOfMultiple ==
  ASSUME NEW e \in Nat \ {0}, NEW k \in Nat
  PROVE  (k * e) \div e = k /\ (k * e) % e = 0
<1> DEFINE t == k * e
           q == t \div e
<1>1. t \in Nat
  OBVIOUS
<1>2. q \in Nat /\ t % e \in 0..e - 1 /\ t = e * q + (t % e)
  BY <1>1, Quotient
<1>3. k <= q
  <2>1. k * e <= t
    BY <1>1
  <2> HIDE DEF t
  <2> QED
    BY <1>1, <2>1, QuotientIsLargest
<1>4. q * e <= t
  <2>1. q <= t \div e
    BY <1>2
  <2> HIDE DEF q, t
  <2> QED
    BY <1>1, <1>2, <2>1, QuotientIsLargest
<1>5. ~(k + 1 <= q)
  <2>1. SUFFICES ASSUME k + 1 <= q PROVE FALSE
    OBVIOUS
  <2> HIDE DEF q
  <2>2. e * (k + 1) <= e * q
    BY <1>2, <2>1, ProductGrows
  <2>3. e * (k + 1) = t + e /\ e * q = q * e
    BY <1>2
  <2> HIDE DEF t
  <2>4. q * e \in Int
    BY <1>2
  <2> QED
    BY <1>1, <1>4, <2>2, <2>3, <2>4
<1>6. q = k
  <2> HIDE DEF q
  <2> QED
    BY <1>2, <1>3, <1>5
<1>7. e * q = k * e
  BY <1>6
<1>8. t % e = 0
  <2> HIDE DEF q
  <2>1. t % e = t - e * q
    <3> HIDE DEF t
    <3> QED
      BY <1>1, <1>2
  <2> QED
    BY <2>1, <1>7
<1> QED
  BY <1>6, <1>8

\* What a block charge is before the float: the product, and what it may lose.
Exact(n, c) == (n * c) \div Divider
Lossy(n, c) == (n * c) % Divider = 0 /\ n % Divider # 0 /\ n \in rounding /\ Exact(n, c) # 0

LEMMA ExactCharge ==
  ASSUME NEW n \in Nat, NEW c \in Nat
  PROVE  /\ n * c \in Nat /\ Exact(n, c) \in Nat
         /\ BlockCharge(n, c) = IF Lossy(n, c) THEN Exact(n, c) - 1 ELSE Exact(n, c)
         /\ BlockCharge(n, c) \in Nat
         /\ Lossy(n, c) => n * c = Exact(n, c) * Divider /\ Exact(n, c) > 0
<1> DEFINE x == Exact(n, c)
           m == n * c
<1>1. m \in Nat
  OBVIOUS
<1>2. x \in Nat /\ m = Divider * x + (m % Divider) /\ m % Divider \in Nat
  <2> HIDE DEF m
  <2>1. m \div Divider \in Nat /\ m = Divider * (m \div Divider) + (m % Divider) /\ m % Divider \in 0..Divider - 1
    BY <1>1, PriceConstants, Quotient
  <2> QED
    BY <2>1, PriceConstants DEF m, Exact
<1>3. BlockCharge(n, c) = IF Lossy(n, c) THEN x - 1 ELSE x
  BY DEF BlockCharge, Lossy, Exact
<1>4. Lossy(n, c) => m % Divider = 0 /\ x # 0
  BY DEF Lossy
<1> HIDE DEF m, x
<1>5. Lossy(n, c) => x > 0 /\ m = x * Divider
  BY <1>1, <1>2, <1>4, PriceConstants
<1>6. BlockCharge(n, c) \in Nat
  BY <1>2, <1>3, <1>5
<1> QED
  BY <1>1, <1>2, <1>3, <1>5, <1>6 DEF m, x

\* More blocks do not cost less.
LEMMA BlockChargeMonotone ==
  ASSUME NEW n \in Nat, NEW m \in Nat, NEW c \in Nat, n <= m
  PROVE  BlockCharge(n, c) <= BlockCharge(m, c)
<1>1. CASE n = m
  BY <1>1, ExactCharge
<1>2. CASE n < m
  <2> DEFINE x == Exact(n, c)
             y == Exact(m, c)
  <2>1. x \in Nat /\ y \in Nat /\ n * c \in Nat /\ m * c \in Nat
    BY ExactCharge
  <2>2. BlockCharge(n, c) \in Nat /\ BlockCharge(n, c) <= x
    <3>1. BlockCharge(n, c) \in {x - 1, x} /\ BlockCharge(n, c) \in Nat
      BY ExactCharge
    <3> HIDE DEF x
    <3> QED
      BY <2>1, <3>1
  <2>3. n * c <= m * c
    <3>1. c * n <= c * m
      BY ProductGrows
    <3> QED
      BY <3>1
  <2>4. x <= y
    BY <2>1, <2>3, QuotientMonotone, PriceConstants DEF Exact
  <2>5. CASE ~Lossy(m, c)
    <3>1. BlockCharge(m, c) = y
      BY <2>5, ExactCharge
    <3> HIDE DEF x, y
    <3> QED
      BY <2>1, <2>2, <2>4, <3>1, ExactCharge
  <2>6. CASE Lossy(m, c)
    <3>1. BlockCharge(m, c) = y - 1 /\ m * c = y * Divider /\ y > 0
      BY <2>6, ExactCharge
    <3>2. c # 0
      <4>1. y * Divider > 0
        <5> HIDE DEF y
        <5>1. Divider * 1 <= Divider * y
          BY <3>1, <2>1, PriceConstants, ProductGrows
        <5> QED
          BY <5>1, <2>1, PriceConstants
      <4>2. c = 0 => m * c = 0
        OBVIOUS
      <4> QED
        BY <3>1, <4>1, <4>2
    <3>3. n * c < m * c
      <4>1. c * (n + 1) <= c * m
        BY <1>2, ProductGrows
      <4>2. c * (n + 1) = n * c + c /\ c * m = m * c
        OBVIOUS
      <4> QED
        BY <2>1, <3>2, <4>1, <4>2
    <3>4. ~(y <= x)
      <4>1. ~(y * Divider <= n * c)
        BY <2>1, <3>1, <3>3
      <4>2. y * Divider <= n * c <=> y <= (n * c) \div Divider
        BY <2>1, PriceConstants, QuotientIsLargest
      <4> QED
        BY <4>1, <4>2 DEF Exact
    <3> HIDE DEF x, y
    <3> QED
      BY <2>1, <2>2, <3>1, <3>4, ExactCharge
  <2> QED
    BY <2>5, <2>6
<1> QED
  BY <1>1, <1>2

\* Whole intervals are charged without a loss.
LEMMA WholeCharge ==
  ASSUME NEW k \in Nat, NEW c \in Nat
  PROVE  BlockCharge(k * Divider, c) = k * c
<1> DEFINE n == k * Divider
<1>1. n \in Nat /\ n % Divider = 0
  BY PriceConstants, QuotientOfMultiple
<1>2. n * c = (k * c) * Divider
  BY PriceConstants
<1>3. k * c \in Nat
  OBVIOUS
<1>4. Exact(n, c) = k * c
  BY <1>2, <1>3, PriceConstants, QuotientOfMultiple DEF Exact
<1>5. ~Lossy(n, c)
  BY <1>1 DEF Lossy
<1> QED
  BY <1>1, <1>4, <1>5, ExactCharge

\* What the prolongation must cost so that its first block makes up for all that
\* rounding takes: an interval is dearer by at least two credits for each block.
ProlongationDearer == ProlongCost >= BaseCost + 2 * Divider

\* One block of the planned time costs no more than some of the prolongation.
LEMMA ExtraBlock ==
  ASSUME ProlongationDearer, NEW n \in Nat, NEW m \in Nat \ {0}
  PROVE  BlockCharge(n + 1, BaseCost) <= BlockCharge(n, BaseCost) + BlockCharge(m, ProlongCost)
<1> DEFINE d == Divider
           c == BaseCost
           k == c \div d
           x == Exact(n, c)
           y == Exact(n + 1, c)
           z == Exact(1, ProlongCost)
<1>1. d \in Nat \ {0} /\ c \in Nat /\ ProlongCost \in Nat /\ n + 1 \in Nat
  BY PriceConstants
<1>2. k \in Nat /\ c = d * k + (c % d) /\ c % d \in 0..d - 1
  BY <1>1, Quotient
<1>3. x \in Nat /\ y \in Nat /\ z \in Nat /\ n * c \in Nat /\ (n + 1) * c \in Nat
  BY <1>1, ExactCharge
<1>4. c < (k + 1) * d
  <2>1. (k + 1) * d = d * k + d
    BY <1>1, <1>2
  <2>2. d * k \in Nat
    BY <1>1, <1>2
  <2> HIDE DEF k, c, d
  <2> QED
    BY <1>1, <1>2, <2>1, <2>2
<1>5. k + 2 <= z
  <2>1. (k + 2) * d = d * k + 2 * d /\ d * k \in Nat
    BY <1>1, <1>2
  <2>2. (k + 2) * d <= ProlongCost
    <3>1. d * k <= c
      <4> HIDE DEF k, c, d
      <4> QED
        BY <1>1, <1>2, <2>1
    <3>2. ProlongCost >= c + 2 * d
      BY DEF ProlongationDearer
    <3> HIDE DEF k, c, d
    <3> QED
      BY <1>1, <2>1, <3>1, <3>2
  <2>3. 1 * ProlongCost = ProlongCost
    BY <1>1
  <2>4. k + 2 \in Nat
    BY <1>2
  <2>5. k + 2 <= ProlongCost \div d
    <3> HIDE DEF k, d
    <3> QED
      BY <1>1, <2>2, <2>4, QuotientIsLargest
  <2> QED
    BY <2>3, <2>5 DEF Exact
<1>6. BlockCharge(m, ProlongCost) >= k + 1
  <2>1. BlockCharge(1, ProlongCost) \in {z - 1, z} /\ BlockCharge(1, ProlongCost) \in Nat
    BY <1>1, ExactCharge
  <2>2. BlockCharge(1, ProlongCost) <= BlockCharge(m, ProlongCost)
    BY <1>1, BlockChargeMonotone
  <2>3. BlockCharge(m, ProlongCost) \in Nat
    BY <1>1, ExactCharge
  <2> HIDE DEF k, z
  <2> QED
    BY <1>2, <1>3, <1>5, <2>1, <2>2, <2>3
<1>7. BlockCharge(n + 1, c) \in Nat /\ BlockCharge(n + 1, c) <= y
  <2>1. BlockCharge(n + 1, c) \in {y - 1, y} /\ BlockCharge(n + 1, c) \in Nat
    BY <1>1, ExactCharge
  <2> HIDE DEF y
  <2> QED
    BY <1>3, <2>1
<1>8. (n + 1) * c = n * c + c
  BY <1>1
<1>9. CASE Lossy(n, c)
  <2>1. BlockCharge(n, c) = x - 1 /\ n * c = x * d
    BY <1>1, <1>9, ExactCharge
  <2>2. ~(x + k + 1 <= y)
    <3>1. (x + k + 1) * d = x * d + (k + 1) * d /\ (k + 1) * d \in Nat
      <4> HIDE DEF x, k, c, d
      <4> QED
        BY <1>1, <1>2, <1>3
    <3>2. ~((x + k + 1) * d <= (n + 1) * c)
      <4> HIDE DEF x, k, c, d
      <4> QED
        BY <1>1, <1>3, <1>4, <1>8, <2>1, <3>1
    <3>3. x + k + 1 \in Nat
      BY <1>2, <1>3
    <3>4. (x + k + 1) * d <= (n + 1) * c <=> x + k + 1 <= ((n + 1) * c) \div d
      <4> HIDE DEF x, k, c, d
      <4> QED
        BY <1>1, <1>3, <3>3, QuotientIsLargest
    <3> QED
      BY <3>2, <3>4 DEF Exact
  <2>3. BlockCharge(m, ProlongCost) \in Nat
    BY <1>1, ExactCharge
  <2> HIDE DEF x, y, k
  <2> QED
    BY <1>2, <1>3, <1>6, <1>7, <2>1, <2>2, <2>3
<1>10. CASE ~Lossy(n, c)
  <2>1. BlockCharge(n, c) = x
    BY <1>1, <1>10, ExactCharge
  <2>2. ~(x + k + 2 <= y)
    <3>0. n * c < (x + 1) * d
      <4>1. ~(x + 1 <= (n * c) \div d)
        BY <1>3 DEF Exact
      <4>2. (x + 1) * d <= n * c <=> x + 1 <= (n * c) \div d
        <5>1. x + 1 \in Nat
          BY <1>3
        <5> HIDE DEF x, d, c
        <5> QED
          BY <1>1, <1>3, <5>1, QuotientIsLargest
      <4>3. (x + 1) * d \in Nat
        BY <1>1, <1>3
      <4> QED
        BY <1>3, <4>1, <4>2, <4>3
    <3>1. /\ (x + k + 2) * d = (x + 1) * d + (k + 1) * d
          /\ (k + 1) * d \in Nat /\ (x + 1) * d \in Nat
      <4> HIDE DEF x, k, c, d
      <4> QED
        BY <1>1, <1>2, <1>3
    <3>2. ~((x + k + 2) * d <= (n + 1) * c)
      <4> HIDE DEF x, k, c, d
      <4> QED
        BY <1>1, <1>3, <1>4, <1>8, <3>0, <3>1
    <3>3. x + k + 2 \in Nat
      BY <1>2, <1>3
    <3>4. (x + k + 2) * d <= (n + 1) * c <=> x + k + 2 <= ((n + 1) * c) \div d
      <4> HIDE DEF x, k, c, d
      <4> QED
        BY <1>1, <1>3, <3>3, QuotientIsLargest
    <3> QED
      BY <3>2, <3>4 DEF Exact
  <2>3. BlockCharge(m, ProlongCost) \in Nat
    BY <1>1, ExactCharge
  <2> HIDE DEF x, y, k
  <2> QED
    BY <1>2, <1>3, <1>6, <1>7, <2>1, <2>2, <2>3
<1> QED
  BY <1>9, <1>10
-----------------------------------------------------------------------------
\* The times that are paid for.
Prolonged(f, t) == t >= VirtualPlannedEnd(f) + MinInterval
PaidTime(f, t) == Later(booking.to, t) - Later(booking.from, f)
Beyond(f, t) == t - VirtualPlannedEnd(f)
Blocks(span) == span \div MinInterval
Timed(f, t) == f \in Nat /\ t \in Nat /\ f <= t

LEMMA BookingTyped ==
  ASSUME booking \in Bookings
  PROVE  booking.from \in Nat /\ booking.to \in Nat /\ booking.from <= booking.to /\ PlannedLength \in Nat
<1>1. booking.from \in Nat /\ booking.to \in Nat /\ booking.from <= booking.to
  BY PriceConstants
<1> QED
  BY <1>1 DEF PlannedLength

\* In time for the end, the planned length and less than a block more is paid; later,
\* the planned length and some blocks of the prolongation.
LEMMA TimesPaid ==
  ASSUME booking \in Bookings, NEW f, NEW t, Timed(f, t)
  PROVE  /\ PaidTime(f, t) \in Nat
         /\ ~Prolonged(f, t) => PaidTime(f, t) < PlannedLength + MinInterval
         /\ Prolonged(f, t) => Beyond(f, t) \in Nat /\ Beyond(f, t) >= MinInterval
BY BookingTyped, PriceConstants
   DEF Timed, PaidTime, Prolonged, Beyond, PlannedLength, VirtualPlannedEnd, Later

LEMMA BlocksPaid ==
  ASSUME booking \in Bookings, NEW f, NEW t, Timed(f, t)
  PROVE  /\ Blocks(PaidTime(f, t)) \in Nat /\ Blocks(PlannedLength) \in Nat
         /\ ~Prolonged(f, t) => Blocks(PaidTime(f, t)) <= Blocks(PlannedLength) + 1
         /\ Prolonged(f, t) => Blocks(Beyond(f, t)) \in Nat \ {0}
<1> DEFINE i == MinInterval
           p == PlannedLength
           s == PaidTime(f, t)
           b == Beyond(f, t)
<1>1. i \in Nat \ {0} /\ p \in Nat /\ s \in Nat
  BY BookingTyped, TimesPaid, PriceConstants
<1>2. Blocks(s) \in Nat /\ Blocks(p) \in Nat
  BY <1>1, Quotient DEF Blocks
<1>3. ASSUME ~Prolonged(f, t) PROVE Blocks(s) <= Blocks(p) + 1
  <2>1. s < p + i
    BY <1>3, TimesPaid
  <2> DEFINE q == Blocks(p)
             u == q + 2
  <2>2. ~(q + 1 <= p \div i)
    BY <1>2 DEF Blocks
  <2>3. q \in Nat /\ q + 1 \in Nat /\ u \in Nat
    BY <1>2
  <2>4. ~((q + 1) * i <= p)
    <3> HIDE DEF q, i, p
    <3> QED
      BY <1>1, <2>2, <2>3, QuotientIsLargest
  <2>5. u * i = (q + 1) * i + i /\ (q + 1) * i \in Nat
    <3> HIDE DEF q, i
    <3> QED
      BY <1>1, <2>3
  <2>6. ~(u * i <= s)
    <3> HIDE DEF i, p, s, q, u
    <3> QED
      BY <1>1, <2>1, <2>3, <2>4, <2>5
  <2>7. u * i <= s <=> u <= s \div i
    <3> HIDE DEF i, s, u
    <3> QED
      BY <1>1, <2>3, QuotientIsLargest
  <2>8. ~(q + 2 <= Blocks(s))
    BY <2>6, <2>7 DEF Blocks
  <2> HIDE DEF q, s
  <2> QED
    BY <1>2, <2>3, <2>8 DEF q
<1>4. ASSUME Prolonged(f, t) PROVE Blocks(b) \in Nat \ {0}
  <2>1. b \in Nat /\ b >= i
    BY <1>4, TimesPaid
  <2>2. 1 * i <= b <=> 1 <= b \div i
    <3> HIDE DEF b, i
    <3> QED
      BY <1>1, <2>1, QuotientIsLargest
  <2>3. b \div i \in Nat
    BY <1>1, <2>1, Quotient
  <2> HIDE DEF b
  <2> QED
    BY <1>1, <2>1, <2>2, <2>3 DEF Blocks
<1> QED
  BY <1>2, <1>3, <1>4

\* The two buckets of an attendance.
LEMMA ChargesOf ==
  ASSUME booking \in Bookings, NEW f, NEW t, Timed(f, t)
  PROVE  /\ Charges(f, t).base =
               BlockCharge(Blocks(IF Prolonged(f, t) THEN PlannedLength ELSE PaidTime(f, t)), BaseCost)
         /\ Charges(f, t).prolong =
               IF Prolonged(f, t) THEN BlockCharge(Blocks(Beyond(f, t)), ProlongCost) ELSE 0
         /\ Charges(f, t).night = NightCharge(f, t)
         /\ Charges(f, t) \in [base : Nat, prolong : Nat, night : Nat]
<1>1. /\ Charges(f, t).base =
            BlockCharge(Blocks(IF Prolonged(f, t) THEN PlannedLength ELSE PaidTime(f, t)), BaseCost)
      /\ Charges(f, t).prolong =
            BlockCharge(Blocks(IF Prolonged(f, t) THEN Beyond(f, t) ELSE 0), ProlongCost)
      /\ Charges(f, t).night = NightCharge(f, t)
      /\ Charges(f, t) = [base |-> Charges(f, t).base, prolong |-> Charges(f, t).prolong,
                          night |-> Charges(f, t).night]
  BY DEF Charges, Prolonged, PaidTime, Beyond, Blocks
<1>2. ~Prolonged(f, t) => Charges(f, t).prolong = 0
  <2>1. 0 * MinInterval = 0 /\ 0 * Divider = 0 /\ 0 * ProlongCost = 0
    BY PriceConstants
  <2>2. Blocks(0) = 0
    BY <2>1, PriceConstants, QuotientOfMultiple DEF Blocks
  <2>3. BlockCharge(0, ProlongCost) = 0
    BY <2>1, PriceConstants, WholeCharge
  <2> QED
    BY <1>1, <2>2, <2>3
<1>3. Charges(f, t).base \in Nat
  BY <1>1, BlocksPaid, PriceConstants, ExactCharge
<1>4. Charges(f, t).prolong \in Nat
  BY <1>1, <1>2, BlocksPaid, PriceConstants, ExactCharge
<1>5. Charges(f, t).night \in Nat
  BY <1>1, PriceConstants DEF NightCharge
<1> QED
  BY <1>1, <1>2, <1>3, <1>4, <1>5

\* Who comes later and leaves earlier is not charged more for the time.
LEMMA TimeMonotone ==
  ASSUME ProlongationDearer, booking \in Bookings, NEW f, NEW t, NEW g, NEW u,
         Timed(f, t), Timed(g, u), f <= g, u <= t
  PROVE  Charges(g, u).base + Charges(g, u).prolong <= Charges(f, t).base + Charges(f, t).prolong
<1> DEFINE n == Blocks(PlannedLength)
<1>1. /\ BaseCost \in Nat /\ ProlongCost \in Nat /\ MinInterval \in Nat \ {0}
      /\ n \in Nat /\ n + 1 \in Nat
  BY PriceConstants, BlocksPaid
<1>2. PaidTime(g, u) \in Nat /\ PaidTime(f, t) \in Nat
  BY TimesPaid
<1>3. PaidTime(g, u) <= PaidTime(f, t)
  BY BookingTyped DEF Timed, PaidTime, Later
<1>4. Prolonged(g, u) => Prolonged(f, t) /\ Beyond(g, u) <= Beyond(f, t)
  BY BookingTyped, <1>1 DEF Timed, Prolonged, Beyond, VirtualPlannedEnd
<1>5. /\ Charges(f, t).base \in Nat /\ Charges(f, t).prolong \in Nat
      /\ Charges(g, u).base \in Nat /\ Charges(g, u).prolong \in Nat
  BY ChargesOf
<1>6. CASE ~Prolonged(f, t)
  <2>1. ~Prolonged(g, u)
    BY <1>4, <1>6
  <2>2. Blocks(PaidTime(g, u)) \in Nat /\ Blocks(PaidTime(f, t)) \in Nat
    BY BlocksPaid
  <2>3. Blocks(PaidTime(g, u)) <= Blocks(PaidTime(f, t))
    BY <1>1, <1>2, <1>3, QuotientMonotone DEF Blocks
  <2>4. BlockCharge(Blocks(PaidTime(g, u)), BaseCost) <= BlockCharge(Blocks(PaidTime(f, t)), BaseCost)
    BY <1>1, <2>2, <2>3, BlockChargeMonotone
  <2>5. Charges(g, u).base <= Charges(f, t).base
    BY <1>6, <2>1, <2>4, ChargesOf
  <2>6. Charges(g, u).prolong = 0 /\ Charges(f, t).prolong = 0
    BY <1>6, <2>1, ChargesOf
  <2> QED
    BY <1>5, <2>5, <2>6
<1>7. CASE Prolonged(f, t) /\ Prolonged(g, u)
  <2>1. Charges(g, u).base = Charges(f, t).base
    BY <1>7, ChargesOf
  <2>2. Beyond(g, u) \in Nat /\ Beyond(f, t) \in Nat
    BY <1>7, TimesPaid
  <2>3. Blocks(Beyond(g, u)) <= Blocks(Beyond(f, t))
    BY <1>1, <1>4, <1>7, <2>2, QuotientMonotone DEF Blocks
  <2>4. Blocks(Beyond(g, u)) \in Nat /\ Blocks(Beyond(f, t)) \in Nat
    BY <1>7, BlocksPaid
  <2>5. BlockCharge(Blocks(Beyond(g, u)), ProlongCost) <= BlockCharge(Blocks(Beyond(f, t)), ProlongCost)
    BY <1>1, <2>3, <2>4, BlockChargeMonotone
  <2>6. Charges(g, u).prolong <= Charges(f, t).prolong
    BY <1>7, <2>5, ChargesOf
  <2> QED
    BY <1>5, <2>1, <2>6
<1>8. CASE Prolonged(f, t) /\ ~Prolonged(g, u)
  <2> DEFINE b == Blocks(PaidTime(g, u))
             m == Blocks(Beyond(f, t))
  <2>1. b \in Nat /\ b <= n + 1 /\ m \in Nat \ {0}
    BY <1>8, BlocksPaid
  <2>2. BlockCharge(b, BaseCost) <= BlockCharge(n + 1, BaseCost)
    <3> HIDE DEF b, n
    <3> QED
      BY <1>1, <2>1, BlockChargeMonotone
  <2>3. BlockCharge(n + 1, BaseCost) <= BlockCharge(n, BaseCost) + BlockCharge(m, ProlongCost)
    <3> HIDE DEF n, m
    <3> QED
      BY <1>1, <2>1, ExtraBlock
  <2>4. /\ Charges(g, u).base = BlockCharge(b, BaseCost) /\ Charges(g, u).prolong = 0
        /\ Charges(f, t).base = BlockCharge(n, BaseCost)
        /\ Charges(f, t).prolong = BlockCharge(m, ProlongCost)
    BY <1>8, ChargesOf
  <2>5. BlockCharge(n + 1, BaseCost) \in Nat
    <3> HIDE DEF n
    <3> QED
      BY <1>1, ExactCharge
  <2> HIDE DEF b, m, n
  <2> QED
    BY <1>5, <2>2, <2>3, <2>4, <2>5
<1> QED
  BY <1>6, <1>7, <1>8

\* The times of day at which an attendance touches the night.
LEMMA NightOf ==
  ASSUME NEW f \in Nat, NEW t \in Nat
  PROVE  TouchesNight(f, t) <=> IF t % Day < f % Day THEN 0 <= NightEnd ELSE f % Day <= NightEnd
<1> DEFINE a == f % Day
           b == t % Day
<1>1. a \in 0..Day - 1 /\ b \in 0..Day - 1 /\ Day \in Nat \ {0} /\ NightEnd \in Int
  BY PriceConstants, Quotient
<1>2. TouchesNight(f, t) <=>
        IF b < a THEN (0 <= b /\ 0 <= NightEnd) \/ (0 <= Day - 1 /\ a <= NightEnd)
                 ELSE 0 <= b /\ a <= NightEnd
  BY DEF TouchesNight, RangesOverlap
<1> HIDE DEF a, b
<1> QED
  BY <1>1, <1>2 DEF a, b

\* In less than a day the clock goes round once: who has not passed midnight has
\* spent the day as the calendar counts it.
LEMMA SameDay ==
  ASSUME NEW f \in Nat, NEW t \in Nat, f <= t, t - f < Day, f % Day <= t % Day
  PROVE  f \div Day = t \div Day
<1> DEFINE p == f \div Day
           q == t \div Day
           a == f % Day
           b == t % Day
<1>1. /\ Day \in Nat \ {0} /\ p \in Nat /\ q \in Nat /\ a \in 0..Day - 1 /\ b \in 0..Day - 1
      /\ f = Day * p + a /\ t = Day * q + b
  BY PriceConstants, Quotient
<1>2. p <= q
  BY PriceConstants, QuotientMonotone
<1>3. ~(p + 1 <= q)
  <2>1. SUFFICES ASSUME p + 1 <= q PROVE FALSE
    OBVIOUS
  <2>2. Day * (p + 1) <= Day * q
    <3> HIDE DEF p, q
    <3> QED
      BY <1>1, <2>1, ProductGrows
  <2>3. Day * (p + 1) = Day * p + Day /\ Day * p \in Nat /\ Day * q \in Nat
    <3> HIDE DEF p, q
    <3> QED
      BY <1>1
  <2>4. a <= b
    OBVIOUS
  <2> HIDE DEF p, q, a, b
  <2> QED
    BY <1>1, <2>2, <2>3, <2>4
<1> HIDE DEF p, q
<1> QED
  BY <1>1, <1>2, <1>3 DEF p, q

\* Who is there longer touches the night if who is there shorter does.
LEMMA NightMonotone ==
  ASSUME booking \in Bookings, NEW f, NEW t, NEW g, NEW u,
         Timed(f, t), Timed(g, u), f <= g, u <= t, t - f < Day
  PROVE  NightCharge(g, u) \in Nat /\ NightCharge(f, t) \in Nat /\ NightCharge(g, u) <= NightCharge(f, t)
<1>1. f \in Nat /\ t \in Nat /\ g \in Nat /\ u \in Nat /\ f <= t /\ g <= u
  BY DEF Timed
<1>2. NightCharge(g, u) \in {0, NightSurcharge} /\ NightCharge(f, t) \in {0, NightSurcharge}
  BY DEF NightCharge
<1>3. ASSUME TouchesNight(g, u) PROVE TouchesNight(f, t)
  <2>1. /\ f % Day \in 0..Day - 1 /\ t % Day \in 0..Day - 1 /\ g % Day \in 0..Day - 1
        /\ u % Day \in 0..Day - 1 /\ Day \in Nat \ {0} /\ NightEnd \in Int
    BY <1>1, PriceConstants, Quotient
  <2>2. 0 <= NightEnd
    <3>1. IF u % Day < g % Day THEN 0 <= NightEnd ELSE g % Day <= NightEnd
      BY <1>1, <1>3, NightOf
    <3> QED
      BY <2>1, <3>1
  <2>3. CASE t % Day < f % Day
    BY <1>1, <2>2, <2>3, NightOf
  <2>4. CASE ~(t % Day < f % Day)
    <3>1. f % Day <= t % Day
      BY <2>1, <2>4
    <3> DEFINE p == f \div Day
    <3>2. p = t \div Day
      BY <1>1, <3>1, SameDay
    <3>3. g \div Day = p /\ u \div Day = p /\ p \in Nat
      <4>1. /\ p <= g \div Day /\ g \div Day <= u \div Day /\ u \div Day <= t \div Day
        BY <1>1, PriceConstants, QuotientMonotone
      <4>2. p \in Nat /\ g \div Day \in Nat /\ u \div Day \in Nat
        BY <1>1, PriceConstants, Quotient
      <4> HIDE DEF p
      <4> QED
        BY <3>2, <4>1, <4>2
    <3>4. /\ f = Day * p + (f % Day) /\ g = Day * p + (g % Day) /\ u = Day * p + (u % Day)
      BY <1>1, <3>3, PriceConstants, Quotient
    <3>5. f % Day <= g % Day /\ g % Day <= u % Day
      <4>1. Day * p \in Nat
        BY <2>1, <3>3
      <4> HIDE DEF p
      <4> DEFINE s == Day * p
                 a == f % Day
                 b == g % Day
                 c == u % Day
      <4>2. s \in Nat /\ a \in Nat /\ b \in Nat /\ c \in Nat /\ f = s + a /\ g = s + b /\ u = s + c
        BY <2>1, <3>4, <4>1
      <4> HIDE DEF s, a, b, c
      <4>3. a <= b /\ b <= c
        BY <1>1, <4>2
      <4> QED
        BY <4>3 DEF a, b, c
    <3>6. g % Day <= NightEnd
      <4>1. ~(u % Day < g % Day)
        BY <2>1, <3>5
      <4> QED
        BY <1>1, <1>3, <4>1, NightOf
    <3>7. f % Day <= NightEnd
      BY <2>1, <3>5, <3>6
    <3> QED
      BY <1>1, <2>4, <3>7, NightOf
  <2> QED
    BY <2>3, <2>4
<1>4. NightCharge(f, t) = NightSurcharge \/ NightCharge(g, u) = 0
  BY <1>3 DEF NightCharge
<1> QED
  BY <1>2, <1>4, PriceConstants

\* So more time never costs less.
LEMMA BillMonotone ==
  ASSUME ProlongationDearer, booking \in Bookings, NEW f, NEW t, NEW g, NEW u,
         Timed(f, t), Timed(g, u), f <= g, u <= t, t - f < Day
  PROVE  Total(Charges(g, u)) <= Total(Charges(f, t))
<1>1. Charges(g, u).base + Charges(g, u).prolong <= Charges(f, t).base + Charges(f, t).prolong
  BY TimeMonotone
<1>2. Charges(g, u).night <= Charges(f, t).night
  BY ChargesOf, NightMonotone
<1>3. /\ Charges(f, t).base \in Nat /\ Charges(f, t).prolong \in Nat /\ Charges(f, t).night \in Nat
      /\ Charges(g, u).base \in Nat /\ Charges(g, u).prolong \in Nat /\ Charges(g, u).night \in Nat
  BY ChargesOf
<1> QED
  BY <1>1, <1>2, <1>3 DEF Total

\* Who is there as planned is charged what was told.
LEMMA BilledAsPlanned ==
  ASSUME booking \in Bookings, WholeIntervals
  PROVE  /\ Timed(booking.from, booking.to)
         /\ Total(Charges(booking.from, booking.to)) = Estimated
<1> DEFINE f == booking.from
           t == booking.to
           i == MinInterval
           e == i * Divider
           q == PlannedLength \div e
<1>1. /\ f \in Nat /\ t \in Nat /\ f <= t /\ PlannedLength \in Nat /\ PlannedLength = t - f
      /\ i \in Nat \ {0} /\ Divider \in Nat \ {0} /\ BaseCost \in Nat
  BY BookingTyped, PriceConstants DEF PlannedLength
<1>2. Timed(f, t)
  BY <1>1 DEF Timed
<1>3. e \in Nat \ {0}
  <2> HIDE DEF i
  <2>1. i * 1 <= i * Divider
    BY <1>1, ProductGrows
  <2> QED
    BY <1>1, <2>1
<1>4. q \in Nat /\ PlannedLength = e * q
  <2>1. PlannedLength % e = 0
    BY DEF WholeIntervals
  <2>2. PlannedLength = e * q + (PlannedLength % e) /\ q \in Nat
    <3> HIDE DEF e
    <3> QED
      BY <1>1, <1>3, Quotient
  <2>3. e * q \in Nat
    BY <1>3, <2>2
  <2> HIDE DEF q, e
  <2> QED
    BY <2>1, <2>2, <2>3
<1>5. ~Prolonged(f, t) /\ PaidTime(f, t) = PlannedLength
  BY <1>1 DEF Prolonged, PaidTime, VirtualPlannedEnd, Later
<1>6. Blocks(PlannedLength) = q * Divider
  <2>1. e * q = (q * Divider) * i /\ q * Divider \in Nat
    <3> HIDE DEF q, i
    <3> QED
      BY <1>1, <1>4
  <2> HIDE DEF q, e, i
  <2>2. ((q * Divider) * i) \div i = q * Divider
    BY <1>1, <2>1, QuotientOfMultiple
  <2> QED
    BY <1>4, <2>1, <2>2 DEF Blocks, i
<1>7. Charges(f, t).base = q * BaseCost
  <2>1. BlockCharge(q * Divider, BaseCost) = q * BaseCost
    BY <1>1, <1>4, WholeCharge
  <2>2. Charges(f, t).base = BlockCharge(Blocks(PlannedLength), BaseCost)
    BY <1>2, <1>5, ChargesOf
  <2> QED
    BY <1>6, <2>1, <2>2
<1>8. Charges(f, t).prolong = 0 /\ Charges(f, t).night = NightCharge(f, t)
  BY <1>2, <1>5, ChargesOf
<1>9. NightCharge(f, t) \in Nat /\ q * BaseCost \in Nat /\ q * BaseCost = BaseCost * q
  BY <1>1, <1>4, PriceConstants DEF NightCharge
<1>10. Estimated = BaseCost * q + NightCharge(f, t)
  BY DEF Estimated
<1>11. Total(Charges(f, t)) = q * BaseCost + NightCharge(f, t)
  <2> HIDE DEF q, f, t
  <2> QED
    BY <1>7, <1>8, <1>9 DEF Total
<1> QED
  BY <1>2, <1>9, <1>10, <1>11

\* A share of at most all of it.
LEMMA ShareOf ==
  ASSUME NEW a \in Nat
  PROVE  (a * FeePermille) \div 1000 \in 0..a
<1> DEFINE m == a * FeePermille
           q == m \div 1000
<1>1. FeePermille \in Nat /\ FeePermille <= 1000
  BY PriceConstants
<1>2. m \in Nat /\ m <= a * 1000
  <2>1. a * FeePermille <= a * 1000
    BY <1>1, ProductGrows
  <2> QED
    BY <1>1, <2>1
<1> HIDE DEF m
<1>3. q \in Nat /\ q * 1000 <= m
  BY <1>2
<1> QED
  BY <1>2, <1>3 DEF m

LEMMA ShareOfBill ==
  ASSUME NEW c \in [base : Nat, prolong : Nat, night : Nat]
  PROVE  Earnings(c) \in 0..Total(c)
<1>1. c.base \in Nat /\ c.prolong \in Nat /\ c.night \in Nat
  OBVIOUS
<1> DEFINE portion(a) == (a * FeePermille) \div 1000
<1>2. portion(c.base) \in 0..c.base /\ portion(c.prolong) \in 0..c.prolong /\ portion(c.night) \in 0..c.night
  BY <1>1, ShareOf
<1>3. Earnings(c) = portion(c.base) + portion(c.prolong) + portion(c.night)
  BY DEF Earnings
<1> HIDE DEF portion
<1> QED
  BY <1>1, <1>2, <1>3 DEF Total
-----------------------------------------------------------------------------
\* The inductive invariant of the bill: times run on, and the bill is that of the times.
PriceTimes ==
    /\ booking \in Bookings /\ clock \in Nat
    /\ came \in Nat \cup {-1} /\ left \in Nat \cup {-1}
    /\ came <= clock /\ left <= clock
    /\ left # -1 => came # -1 /\ came <= left
PriceIInv ==
    /\ PriceTimes
    /\ share # -1 => left # -1 /\ bill = Charges(came, left) /\ share = Earnings(bill)

LEMMA PriceInitOK ==
  ASSUME PriceIdle, booking \in Bookings
  PROVE  PriceIInv
BY DEF PriceIdle, PriceIInv, PriceTimes

LEMMA ChargesStay ==
  ASSUME booking' = booking, rounding' = rounding, came' = came, left' = left
  PROVE  Charges(came, left)' = Charges(came, left)
BY DEF Charges, VirtualPlannedEnd, PlannedLength, BlockCharge

LEMMA PriceNextOK ==
  ASSUME PriceIInv, [PriceNext]_priceVars
  PROVE  PriceIInv'
<1>1. ASSUME PriceTick \/ UNCHANGED priceVars PROVE PriceIInv'
  <2>1. /\ booking' = booking /\ rounding' = rounding /\ came' = came /\ left' = left
        /\ bill' = bill /\ share' = share /\ clock' \in {clock, clock + 1}
    BY <1>1 DEF PriceTick, priceVars
  <2>2. PriceTimes'
    BY <2>1 DEF PriceIInv, PriceTimes
  <2>3. Charges(came, left)' = Charges(came, left) /\ Earnings(bill)' = Earnings(bill)
    BY <2>1, ChargesStay
  <2> QED
    BY <2>1, <2>2, <2>3 DEF PriceIInv
<1>2. ASSUME CastComes \/ CastLeaves PROVE PriceIInv'
  <2>1. share' = share /\ share = -1
    BY <1>2, PricingAssumption DEF CastComes, CastLeaves, PriceIInv, PriceTimes
  <2>2. PriceTimes'
    BY <1>2 DEF CastComes, CastLeaves, PriceIInv, PriceTimes
  <2> QED
    BY <2>1, <2>2 DEF PriceIInv
<1>3. ASSUME CalculateCosts PROVE PriceIInv'
  <2>1. /\ booking' = booking /\ rounding' = rounding /\ came' = came /\ left' = left
        /\ clock' = clock /\ left # -1
        /\ bill' = Charges(came, left) /\ share' = Earnings(Charges(came, left))
    BY <1>3 DEF CalculateCosts
  <2>2. PriceTimes'
    BY <2>1 DEF PriceIInv, PriceTimes
  <2>3. Charges(came, left)' = Charges(came, left)
    BY <2>1, ChargesStay
  <2>4. Earnings(bill)' = Earnings(Charges(came, left))
    BY <2>1 DEF Earnings
  <2> QED
    BY <2>1, <2>2, <2>3, <2>4 DEF PriceIInv
<1> QED
  BY <1>1, <1>2, <1>3 DEF PriceNext

LEMMA PriceIInvFair ==
  ASSUME PriceIInv, ProlongationDearer
  PROVE  FairBill
<1> SUFFICES ASSUME share # -1
    PROVE /\ WholeIntervals /\ came = booking.from /\ left = booking.to => Total(bill) = Estimated
          /\ WholeIntervals /\ came <= booking.from /\ left >= booking.to /\ left - came < Day =>
                Total(bill) >= Estimated
          /\ \A t \in left..MaxClock : t - came < Day => Total(Charges(came, t)) >= Total(bill)
          /\ \A f \in came..left : left - came < Day => Total(Charges(f, left)) <= Total(bill)
          /\ share \in 0..Total(bill)
  BY DEF FairBill
<1>1. /\ booking \in Bookings /\ bill = Charges(came, left) /\ share = Earnings(bill)
      /\ Timed(came, left)
  BY DEF PriceIInv, PriceTimes, Timed
<1>t. \A f, t : Timed(f, t) => Total(Charges(f, t)) \in Nat
  BY <1>1, ChargesOf DEF Total
<1>2. WholeIntervals /\ came = booking.from /\ left = booking.to => Total(bill) = Estimated
  BY <1>1, BilledAsPlanned
<1>3. ASSUME WholeIntervals, came <= booking.from, left >= booking.to, left - came < Day
      PROVE  Total(bill) >= Estimated
  <2>1. Timed(booking.from, booking.to) /\ Total(Charges(booking.from, booking.to)) = Estimated
    BY <1>1, <1>3, BilledAsPlanned
  <2>2. booking.to <= left
    BY <1>1, <1>3, <2>1 DEF Timed
  <2>3. Total(Charges(booking.from, booking.to)) <= Total(bill)
    BY <1>1, <1>3, <2>1, <2>2, BillMonotone
  <2>4. Total(bill) \in Nat /\ Total(Charges(booking.from, booking.to)) \in Nat
    BY <1>1, <1>t, <2>1
  <2> QED
    BY <2>1, <2>3, <2>4
<1>4. ASSUME NEW t \in left..MaxClock, t - came < Day
      PROVE  Total(Charges(came, t)) >= Total(bill)
  <2>1. Timed(came, t) /\ left <= t /\ came <= came
    BY <1>1, PricingAssumption DEF Timed
  <2>2. Total(bill) <= Total(Charges(came, t))
    BY <1>1, <1>4, <2>1, BillMonotone
  <2>3. Total(bill) \in Nat /\ Total(Charges(came, t)) \in Nat
    BY <1>1, <1>t, <2>1
  <2> QED
    BY <2>2, <2>3
<1>5. ASSUME NEW f \in came..left, left - came < Day
      PROVE  Total(Charges(f, left)) <= Total(bill)
  <2>1. Timed(f, left) /\ came <= f /\ left <= left
    BY <1>1 DEF Timed
  <2> QED
    BY <1>1, <1>5, <2>1, BillMonotone
<1>6. share \in 0..Total(bill)
  BY <1>1, ChargesOf, ShareOfBill
<1> QED
  BY <1>2, <1>3, <1>4, <1>5, <1>6
-----------------------------------------------------------------------------
(* The desks of Members: what happens at one is a step of its service. *)
\* users.ts: in every run of Members an address belongs to one account and a number
\* to one guest, and an open account is never half withdrawn, unless checks have
\* overlapped or something was written that had changed since it was read or shown.
THEOREM MembersAccounts == MembersSpec => []AccountsSafe
<1> DEFINE I == desk = "accounts" => AccountsIInv
<1>1. MembersInit => I
  BY AccountsInitOK DEF MembersInit
<1>2. I /\ [MembersNext]_membersVars => I'
  <2> SUFFICES ASSUME I, [MembersNext]_membersVars, desk' = "accounts" PROVE AccountsIInv'
    OBVIOUS
  <2>1. desk = "accounts"
    BY DEF MembersNext, membersVars
  <2>2. [AccountsNext]_<<handlerVars, accountVars>>
    BY <2>1 DEF MembersNext, membersVars
  <2> QED
    BY <2>1, <2>2, AccountsNextOK
<1>3. I => AccountsSafe
  BY AccountsIInvApart DEF AccountsSafe
<1> QED
  BY <1>1, <1>2, <1>3, PTL DEF MembersSpec

\* messages.ts: in every run of Members, whoever blocks, unblocks, writes and reads,
\* a badge counts exactly the unread messages that its member can see, unless
\* checks have overlapped or a recommendation was followed into a blocked chat.
THEOREM MembersChats == MembersSpec => []ChatBadgesRight
<1> DEFINE I == desk = "chat" => ChatIInv
<1>1. MembersInit => I
  BY ChatInitOK DEF MembersInit
<1>2. I /\ [MembersNext]_membersVars => I'
  <2> SUFFICES ASSUME I, [MembersNext]_membersVars, desk' = "chat" PROVE ChatIInv'
    OBVIOUS
  <2>1. desk = "chat"
    BY DEF MembersNext, membersVars
  <2>2. [ChatNext]_<<handlerVars, chatVars>>
    BY <2>1 DEF MembersNext, membersVars
  <2> QED
    BY <2>1, <2>2, ChatNextOK
<1>3. I => ChatBadgesRight
  BY ChatIInvBadges DEF ChatBadgesRight
<1> QED
  BY <1>1, <1>2, <1>3, PTL DEF MembersSpec

\* selection.ts, model.ts: in every run of Members no cast comes to two orders whose
\* times overlap, unless checks have overlapped or the cast was called back, and
\* the teams that are matched are whole and the best there were.
THEOREM MembersEntries == MembersSpec => []EntriesKept
<1> DEFINE I == desk = "entries" => EntriesIInv
<1>1. MembersInit => I
  BY EntriesInitOK DEF MembersInit, Opening
<1>2. I /\ [MembersNext]_membersVars => I'
  <2> SUFFICES ASSUME I, [MembersNext]_membersVars, desk' = "entries" PROVE EntriesIInv'
    OBVIOUS
  <2>1. desk = "entries"
    BY DEF MembersNext, membersVars
  <2>2. [EntriesNext]_<<handlerVars, entryVars>>
    BY <2>1 DEF MembersNext, membersVars
  <2> QED
    BY <2>1, <2>2, EntriesNextOK
<1>3. I => EntriesKept
  BY EntriesIInvHold DEF EntriesKept
<1> QED
  BY <1>1, <1>2, <1>3, PTL DEF MembersSpec

\* rewards.ts: in every run of Members in which nothing is cut off, however settlements
\* interleave, every participant and every inviter has been paid what the rules give for
\* the orders and the turnover so far; the same for reviews written one after the other.
THEOREM MembersRewards == MembersSpec => []RewardsPaid
<1> DEFINE I == desk = "rewards" => RewardsIInv
<1>1. MembersInit => I
  BY RewardsInitOK DEF MembersInit
<1>2. I /\ [MembersNext]_membersVars => I'
  <2> SUFFICES ASSUME I, [MembersNext]_membersVars, desk' = "rewards" PROVE RewardsIInv'
    OBVIOUS
  <2>1. desk = "rewards"
    BY DEF MembersNext, membersVars
  <2>2. [RewardsNext]_<<handlerVars, rewardVars>>
    BY <2>1 DEF MembersNext, membersVars
  <2> QED
    BY <2>1, <2>2, RewardsNextOK
<1>3. I => RewardsPaid
  BY RewardsIInvPaid DEF RewardsPaid
<1> QED
  BY <1>1, <1>2, <1>3, PTL DEF MembersSpec

\* handlers.ts: in every run of Members in which no worker dies, however requests and
\* runs interleave, exactly one run counts a cast's like of a new post, what was counted
\* is paid or due, and a post shows as many likes as there are.
THEOREM MembersLikes == MembersSpec => []LikesPaid
<1> DEFINE I == desk = "posts" => PostsIInv
<1>1. MembersInit => I
  BY PostsInitOK DEF MembersInit
<1>2. I /\ [MembersNext]_membersVars => I'
  <2> SUFFICES ASSUME I, [MembersNext]_membersVars, desk' = "posts" PROVE PostsIInv'
    OBVIOUS
  <2>1. desk = "posts"
    BY DEF MembersNext, membersVars
  <2>2. [PostsNext]_<<handlerVars, postVars>>
    BY <2>1 DEF MembersNext, membersVars
  <2> QED
    BY <2>1, <2>2, PostsNextOK
<1>3. I => LikesPaid
  BY PostsIInvPaid DEF LikesPaid
<1> QED
  BY <1>1, <1>2, <1>3, PTL DEF MembersSpec

\* rankings.ts: in every run of Members a page of the rankings lists nobody who asked
\* to be hidden in time or has left and names nobody without leave; undisturbed it
\* counts what fell into its period, and gives the viewer the place they have.
THEOREM MembersRankings == MembersSpec => []RankingsFair
<1> DEFINE I == desk = "rankings" => RankIInv
<1>1. MembersInit => I
  BY RankInitOK DEF MembersInit, Opening, RankingsInit
<1>2. I /\ [MembersNext]_membersVars => I'
  <2> SUFFICES ASSUME I, [MembersNext]_membersVars, desk' = "rankings" PROVE RankIInv'
    OBVIOUS
  <2>1. desk = "rankings"
    BY DEF MembersNext, membersVars
  <2>2. [RankingsNext]_<<handlerVars, rankVars>>
    BY <2>1 DEF MembersNext, membersVars
  <2> QED
    BY <2>1, <2>2, RankNextOK
<1>3. I => RankingsFair
  BY RankIInvFair DEF RankingsFair
<1> QED
  BY <1>1, <1>2, <1>3, PTL DEF MembersSpec

\* OrderWizardPage.tsx, order-forms.ts, order-request.ts: in every run of Members, whatever
\* the price lists, the head counts, the time that passes on a page and the requests and
\* answers that are lost, an order is made once for every confirmation and is the one its
\* guest was shown.
THEOREM MembersOrders == MembersSpec => []OrdersConfirmed
<1> DEFINE I == desk = "forms" => FormIInv
<1>1. MembersInit => I
  <2> SUFFICES ASSUME MembersInit, desk = "forms" PROVE FormIInv
    OBVIOUS
  <2>1. HandlersInit /\ FormsIdle /\ prices \in Opening("forms", PriceLists)
    BY DEF MembersInit
  <2>2. Opening("forms", PriceLists) = PriceLists
    BY DEF Opening
  <2> QED
    BY <2>1, <2>2, FormInitOK
<1>2. I /\ [MembersNext]_membersVars => I'
  <2> SUFFICES ASSUME I, [MembersNext]_membersVars, desk' = "forms" PROVE FormIInv'
    OBVIOUS
  <2>1. desk = "forms"
    BY DEF MembersNext, membersVars
  <2>2. [FormsNext]_<<handlerVars, formVars>>
    BY <2>1 DEF MembersNext, membersVars
  <2> QED
    BY <2>1, <2>2, FormsNextOK
<1>3. I => OrdersConfirmed
  BY FormIInvConfirmed DEF OrdersConfirmed
<1> QED
  BY <1>1, <1>2, <1>3, PTL DEF MembersSpec

\* costs.ts, model.ts: in every run of Members, for all times, prices and losses of the float
\* product, who is there as planned is billed what was told, more time never costs less
\* and a cast gets no more than the guest pays, if the prolongation is dearer than the
\* planned time by as much as rounding takes, as in the seeded price lists.
THEOREM MembersBills ==
  ASSUME ProlongationDearer
  PROVE  MembersSpec => []BillsFair
<1> DEFINE I == desk = "prices" => PriceIInv
<1>1. MembersInit => I
  <2> SUFFICES ASSUME MembersInit, desk = "prices" PROVE PriceIInv
    OBVIOUS
  <2>1. PriceIdle /\ booking \in Opening("prices", Bookings)
    BY DEF MembersInit
  <2>2. Opening("prices", Bookings) = Bookings
    BY DEF Opening
  <2> QED
    BY <2>1, <2>2, PriceInitOK
<1>2. I /\ [MembersNext]_membersVars => I'
  <2> SUFFICES ASSUME I, [MembersNext]_membersVars, desk' = "prices" PROVE PriceIInv'
    OBVIOUS
  <2>1. desk = "prices"
    BY DEF MembersNext, membersVars
  <2>2. [PriceNext]_priceVars
    BY <2>1 DEF MembersNext, membersVars
  <2> QED
    BY <2>1, <2>2, PriceNextOK
<1>3. I => BillsFair
  BY PriceIInvFair DEF BillsFair
<1> QED
  BY <1>1, <1>2, <1>3, PTL DEF MembersSpec
=============================================================================
