------------------------------- MODULE Accounts -------------------------------
(***************************************************************************)
(* Accounts, their addresses and access levels: sign-up, adding an address *)
(* or a phone, the cast's identity check, and what an operator does on the *)
(* page of a user (services/users.ts, auth/session.ts, the routes under    *)
(* users, user, cast and admin/users, components/admin/UserDetailPage.tsx, *)
(* screens/auth, screens/PhoneNumberPage.tsx).                             *)
(*                                                                         *)
(* One mail address and one phone number that several persons want.  The   *)
(* LINE id is looked up, prefixed and cleared as the mail address is.      *)
(* There is no unique index: what is checked is checked before the write.  *)
(***************************************************************************)
EXTENDS RequestHandlers, Sequences

CONSTANT MaxAccounts  \* bound: accounts that are created

ASSUME AccountAssumption == MaxAccounts \in Nat

VARIABLES
    users,     \* users[i]: the row of the i-th account
    code,      \* accounts whose session holds the number a code was sent to
    shown,     \* shown[i]: the row the operator's page of i shows
    form,      \* form[i]: what the edit form on that page was filled with
    outdated,  \* something was written that had changed since it was checked or shown
    account    \* account[h]: what handler h has read

accountVars == <<users, code, shown, form, outdated, account>>

AccountIds == 1..MaxAccounts
NoUser == [type |-> "customer", email |-> "none", phone |-> "none", level |-> "full",
           discarded |-> FALSE]
Nothing == [NoUser EXCEPT !.level = "none"]
NoAccount == [id |-> 0, row |-> NoUser]

AccountsIdle ==
    /\ users = <<>> /\ code = {}
    /\ shown = [i \in AccountIds |-> Nothing] /\ form = shown
    /\ outdated = FALSE
    /\ account = [h \in Handlers |-> NoAccount]

AccountsInit == HandlersInit /\ AccountsIdle

-----------------------------------------------------------------------------
(* Helpers *)

PageSameA == UNCHANGED <<shown, form>>

AccountReads(h, i, row) == account' = [account EXCEPT ![h] = [id |-> i, row |-> row]]

AccountDone(h) == End(h) /\ AccountReads(h, 0, NoUser)

\* A request that is one statement.
AtOnceA(h) == Begin(h, "idle") /\ UNCHANGED account

SetUser(i, row) == users' = [users EXCEPT ![i] = row]

\* The session finds its user unless the account is discarded (currentUser).
SignedIn(i) == ~users[i].discarded

FreeAmong(js, i, row) ==
    /\ row.email = "mail" => \A j \in js \ {i} : users[j].email # "mail"
    /\ row.type = "customer" /\ row.phone = "phone" =>
          \A j \in js \ {i} : users[j].phone # "phone"

\* Mutant of ValidateUser: discarded accounts do not count.
ValidateUserLive(i, row) == FreeAmong({j \in DOMAIN users : ~users[j].discarded}, i, row)

\* Nobody else has the address or, if a guest asks, the number; discarded
\* accounts count.
ValidateUser(i, row) == FreeAmong(DOMAIN users, i, row)

-----------------------------------------------------------------------------
(* Sign-up and the member's own settings *)

\* The form is validated; what it says is written after that.
Registers(h, row) ==
    /\ Begin(h, "create")
    /\ ValidateUser(0, row)
    /\ AccountReads(h, 0, row)
    /\ PageSameA /\ UNCHANGED <<users, code, outdated>>

\* A guest has full access, ...
SignUp(h) ==
    \E e \in {"none", "mail"}, p \in {"none", "phone"} :
        Registers(h, [NoUser EXCEPT !.email = e, !.phone = p])

\* ... a new cast starts unauthorized.
SignUpCast(h) ==
    \E e \in {"none", "mail"} :
        Registers(h, [type |-> "cast", email |-> e, phone |-> "phone", level |-> "unauthorized",
                      discarded |-> FALSE])

CreateUser(h) ==
    /\ at[h] = "create" /\ Len(users) < MaxAccounts
    /\ users' = Append(users, account[h].row)
    /\ AccountDone(h)
    /\ PageSameA /\ UNCHANGED <<code, outdated>>

AddEmail(h, i) ==
    /\ Begin(h, "setEmail")
    /\ SignedIn(i)
    /\ LET row == [users[i] EXCEPT !.email = "mail"]
       IN  ValidateUser(i, row) /\ AccountReads(h, i, row)
    /\ PageSameA /\ UNCHANGED <<users, code, outdated>>

SetEmail(h) ==
    /\ at[h] = "setEmail"
    /\ SetUser(account[h].id, [users[account[h].id] EXCEPT !.email = "mail"])
    /\ AccountDone(h)
    /\ PageSameA /\ UNCHANGED <<code, outdated>>

\* The number is checked, and a code sent to it; ...
VerifyPhone(h, i) ==
    /\ AtOnceA(h)
    /\ SignedIn(i) /\ users[i].phone # "phone"
    /\ ValidateUser(i, [users[i] EXCEPT !.phone = "phone"])
    /\ code' = code \cup {i}
    /\ PageSameA /\ UNCHANGED <<users, outdated>>

\* ... when the code comes back it is written without another look.
UpdatePhone(h, i) ==
    /\ AtOnceA(h)
    /\ SignedIn(i) /\ i \in code
    /\ LET row == [users[i] EXCEPT !.phone = "phone"]
       IN  /\ SetUser(i, row)
           /\ outdated' = (outdated \/ ~ValidateUser(i, row))
    /\ code' = code \ {i}
    /\ PageSameA

\* The cast's documents are stored, and the level goes up if it was the first.
CheckIdentity(h, i) ==
    /\ Begin(h, "setLevel")
    /\ SignedIn(i) /\ users[i].type = "cast" /\ users[i].level = "unauthorized"
    /\ AccountReads(h, i, users[i])
    /\ PageSameA /\ UNCHANGED <<users, code, outdated>>

SetPictureUploaded(h) ==
    /\ at[h] = "setLevel"
    /\ SetUser(account[h].id, [users[account[h].id] EXCEPT !.level = "picture_uploaded"])
    /\ AccountDone(h)
    /\ PageSameA /\ UNCHANGED <<code, outdated>>

-----------------------------------------------------------------------------
(* The operator's page *)

\* The page loads or refetches.  The form keeps what it was filled with when
\* the page was mounted, which may have been the cached answer.
ViewUser(i) ==
    /\ shown' = [shown EXCEPT ![i] = users[i]]
    /\ \E f \in {form[i], shown[i], users[i]} \ {Nothing} : form' = [form EXCEPT ![i] = f]
    /\ UNCHANGED <<handlerVars, users, code, outdated, account>>

Offered(i) ==
    IF shown[i] = Nothing THEN {}
    ELSE IF shown[i].level = "ceased" THEN {"restore"}
    ELSE IF shown[i].discarded THEN {"unfreeze"} ELSE {"freeze", "withdraw"}

Freeze(h, i) ==
    /\ AtOnceA(h)
    /\ "freeze" \in Offered(i)
    /\ SetUser(i, [users[i] EXCEPT !.discarded = TRUE])
    /\ PageSameA /\ UNCHANGED <<code, outdated>>

\* A ceased account is refused, whatever the page shows.
Unfreeze(h, i) ==
    /\ Begin(h, "undiscard")
    /\ "unfreeze" \in Offered(i) /\ users[i].level # "ceased"
    /\ AccountReads(h, i, users[i])
    /\ PageSameA /\ UNCHANGED <<users, code, outdated>>

Undiscard(h) ==
    /\ at[h] = "undiscard"
    /\ SetUser(account[h].id, [users[account[h].id] EXCEPT !.discarded = FALSE])
    /\ AccountDone(h)
    /\ PageSameA /\ UNCHANGED <<code, outdated>>

Withdraw(h, i) ==
    /\ Begin(h, "withdraw")
    /\ "withdraw" \in Offered(i)
    /\ AccountReads(h, i, users[i])
    /\ PageSameA /\ UNCHANGED <<users, code, outdated>>

\* The address read before is written with a prefix, the number is kept.
SetWithdrawn(h) ==
    /\ at[h] = "withdraw"
    /\ LET i == account[h].id
           email == account[h].row.email
       IN  SetUser(i, [users[i] EXCEPT !.level = "ceased", !.discarded = TRUE,
                                       !.email = IF email = "none" THEN email ELSE "prefixed"])
    /\ AccountDone(h)
    /\ PageSameA /\ UNCHANGED <<code, outdated>>

\* An address of its own, and full access.
RestoreUser(h, i) ==
    /\ AtOnceA(h)
    /\ "restore" \in Offered(i)
    /\ SetUser(i, [users[i] EXCEPT !.email = "restored", !.level = "full", !.discarded = FALSE])
    /\ PageSameA /\ UNCHANGED <<code, outdated>>

\* The form writes all its fields, with the level the operator has chosen, and
\* nothing is validated.
SaveForm(h, i) ==
    /\ AtOnceA(h)
    /\ form[i] # Nothing
    /\ \E l \in {form[i].level, "full"} :
          LET row == [users[i] EXCEPT !.email = form[i].email, !.phone = form[i].phone,
                                      !.level = l]
          IN  /\ SetUser(i, row)
              /\ outdated' = (outdated \/ row.email # users[i].email \/ row.phone # users[i].phone
                                       \/ (row.level # users[i].level
                                           /\ "ceased" \in {row.level, users[i].level}))
    /\ PageSameA /\ UNCHANGED code

\* The list of casts to be approved writes the level alone.
SetAccessLevel(h, i) ==
    /\ AtOnceA(h)
    /\ users[i].type = "cast"
    /\ \E l \in {"unauthorized", "full"} : SetUser(i, [users[i] EXCEPT !.level = l])
    /\ outdated' = (outdated \/ users[i].level = "ceased")
    /\ PageSameA /\ UNCHANGED code

AccountDie(h) == Die(h) /\ AccountReads(h, 0, NoUser) /\ PageSameA /\ UNCHANGED <<users, code, outdated>>

-----------------------------------------------------------------------------
AccountsNext ==
    \/ \E h \in Handlers :
          \/ SignUp(h) \/ SignUpCast(h) \/ CreateUser(h) \/ SetEmail(h) \/ SetPictureUploaded(h)
          \/ Undiscard(h) \/ SetWithdrawn(h) \/ AccountDie(h)
          \/ \E i \in DOMAIN users :
                \/ AddEmail(h, i) \/ VerifyPhone(h, i) \/ UpdatePhone(h, i) \/ CheckIdentity(h, i)
                \/ Freeze(h, i) \/ Unfreeze(h, i) \/ Withdraw(h, i) \/ RestoreUser(h, i)
                \/ SaveForm(h, i) \/ SetAccessLevel(h, i)
    \/ \E i \in DOMAIN users : ViewUser(i)

AccountsSpec == AccountsInit /\ [][AccountsNext]_<<handlerVars, accountVars>>

-----------------------------------------------------------------------------
(* Properties *)

\* validateUser, admin/users/[id]/route.ts:163-170 ("stop matching a login and
\* the person can register again with them"), unfreeze/route.ts:9-14: through
\* any life of two accounts (frozen, withdrawn, registered again, restored, by
\* pages that are out of date) an address belongs to one account and a number
\* to one guest, and an open account is never half withdrawn, unless checks
\* have overlapped or something was written that had changed meanwhile.
AccountsKeepApart ==
    ~overlapped /\ ~outdated =>
        \A i \in DOMAIN users :
            /\ \A j \in DOMAIN users \ {i} :
                  /\ users[i].email = users[j].email => users[i].email # "mail"
                  /\ users[i].type = "customer" /\ users[j].type = "customer" =>
                        users[i].phone = "none" \/ users[j].phone = "none"
            /\ ~users[i].discarded => users[i].level # "ceased" /\ users[i].email # "prefixed"
=============================================================================
