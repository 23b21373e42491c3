-------------------------- MODULE CreditRowsProofs --------------------------
(***************************************************************************)
(* What CreditRows guarantees for any number of users, processes, calls    *)
(* and transactions.                                                       *)
(***************************************************************************)
EXTENDS CreditRows, TLAPS

\* What process p has inserted into credit_transactions for u and not yet
\* added to the row of u.
ChargeDue(p, u) ==
    IF call[p].kind = "book" /\ call[p].from = u
         /\ pc[p] \in {"insertTo", "lockFrom", "updateFrom"}
      THEN call[p].out ELSE 0

CreditDue(p, u) ==
    IF call[p].kind = "book" /\ call[p].to = u
         /\ pc[p] \in {"lockFrom", "updateFrom", "lockTo", "updateTo"}
      THEN call[p].in ELSE 0

\* The call of p and the place of p in it fit.
CallShape(p) ==
    /\ pc[p] \in {"idle", "open"} => call[p] = NoCall
    /\ pc[p] \in {"insertFrom", "insertTo", "lockTo", "updateTo"} => call[p].kind = "book"
    /\ pc[p] \in {"insertFrom", "lockFrom", "updateFrom"} => call[p].from \in Users
    /\ pc[p] \in {"insertTo", "lockTo", "updateTo"} => call[p].to \in Users
    /\ pc[p] \in {"lockFrom", "updateFrom"} => call[p].kind # "none"
    /\ pc[p] = "raised" => call[p].kind = "freeze"
    /\ call[p].from \in Users => call[p].out > 0

\* The row p is about to update is locked, and p has read its own version.
FreshRead(p) ==
    pc[p] \in {"updateFrom", "updateTo"} =>
        /\ Target(p) \in held[p]
        /\ seen[p] = work[p][Target(p)]

\* What p did to the row of u, and the rows it inserted, agree.
Pending(p, u) ==
    LET w == CurrentRow(p, u)
        r == rows[p][u] IN
    /\ (w.balance + w.frozen) - (db[u].balance + db[u].frozen)
           = (r.credited - CreditDue(p, u)) - (r.charged - ChargeDue(p, u))
    /\ w.frozen >= 0
    /\ r.charged >= ChargeDue(p, u)
    /\ r.credited >= CreditDue(p, u)
    /\ (w.balance < 0 /\ w.balance < db[u].balance) => r.charged > 0

NoTransaction(p) ==
    pc[p] = "idle" => held[p] = {} /\ rows[p] = [u \in Users |-> NoRows]

Exclusion == \A p, q \in Procs : p # q => held[p] \cap held[q] = {}

IInv ==
    /\ TypeOK
    /\ LedgerBalanced
    /\ Exclusion
    /\ \A p \in Procs : CallShape(p) /\ FreshRead(p) /\ NoTransaction(p)
    /\ \A u \in Users : db[u].frozen >= 0
    /\ \A p \in Procs, u \in Users : Pending(p, u)

-----------------------------------------------------------------------------

\* The invariant holds initially.
LEMMA InitIInv == Init => IInv
<1> SUFFICES ASSUME Init PROVE IInv
  OBVIOUS
<1> USE TrialAssumption DEF Init, NewRow, NoRows, NoCall
<1>1. TypeOK
  BY DEF TypeOK, Row, Entry, Call, PC
<1>2. LedgerBalanced
  BY DEF LedgerBalanced
<1>3. Exclusion
  BY DEF Exclusion
<1>4. \A p \in Procs : CallShape(p) /\ FreshRead(p) /\ NoTransaction(p)
  BY NoUserAssumption DEF CallShape, FreshRead, NoTransaction
<1>5. \A u \in Users : db[u].frozen >= 0
  OBVIOUS
<1>6. \A p \in Procs, u \in Users : Pending(p, u)
  BY DEF Pending, CurrentRow, ChargeDue, CreditDue
<1> QED
  BY <1>1, <1>2, <1>3, <1>4, <1>5, <1>6 DEF IInv

\* The private state of q is untouched.
Untouched(q) ==
    /\ pc'[q] = pc[q]
    /\ call'[q] = call[q]
    /\ held'[q] = held[q]
    /\ seen'[q] = seen[q]
    /\ work'[q] = work[q]
    /\ rows'[q] = rows[q]

\* A step of p that leaves the tables alone preserves the invariant as soon as
\* it preserves what the invariant says of p.
LEMMA LocalStep ==
  ASSUME IInv, NEW p \in Procs, UNCHANGED tables, TypeOK',
         \A q \in Procs \ {p} : Untouched(q),
         \A q \in Procs \ {p} : held'[p] \cap held[q] = {},
         CallShape(p)', FreshRead(p)', NoTransaction(p)',
         \A u \in Users : Pending(p, u)'
  PROVE  IInv'
<1>1. LedgerBalanced'
  BY DEF IInv, LedgerBalanced, tables
<1>2. Exclusion'
  BY DEF IInv, Exclusion, Untouched
<1>3. \A u \in Users : db'[u].frozen >= 0
  BY DEF IInv, tables
<1>4. ASSUME NEW q \in Procs
      PROVE  CallShape(q)' /\ FreshRead(q)' /\ NoTransaction(q)'
  <2>1. CASE q = p
    BY <2>1
  <2>2. CASE q # p
    <3>1. Untouched(q)
      BY <2>2
    <3> QED
      BY <3>1 DEF IInv, Untouched, CallShape, FreshRead, NoTransaction, Target
  <2> QED
    BY <2>1, <2>2
<1>5. ASSUME NEW q \in Procs, NEW u \in Users
      PROVE  Pending(q, u)'
  <2>1. CASE q = p
    BY <2>1
  <2>2. CASE q # p
    <3>1. Untouched(q)
      BY <2>2
    <3>2. Pending(q, u) /\ db'[u] = db[u]
      BY DEF IInv, tables
    <3>3. ChargeDue(q, u)' = ChargeDue(q, u) /\ CreditDue(q, u)' = CreditDue(q, u)
      BY <3>1 DEF Untouched, ChargeDue, CreditDue
    <3>4. CurrentRow(q, u)' = CurrentRow(q, u)
      BY <3>1, <3>2 DEF Untouched, CurrentRow
    <3> QED
      BY <3>1, <3>2, <3>3, <3>4 DEF Untouched, Pending
  <2> QED
    BY <2>1, <2>2
<1> QED
  BY <1>1, <1>2, <1>3, <1>4, <1>5 DEF IInv

\* The invariant survives the begin of a transaction.
LEMMA BeginStep ==
  ASSUME IInv, NEW p \in Procs, Begin(p) PROVE IInv'
<1> USE DEF Begin, tables
<1>1. TypeOK'
  BY DEF IInv, TypeOK, PC
<1>2. \A q \in Procs \ {p} : Untouched(q) /\ held'[p] \cap held[q] = {}
  BY DEF IInv, TypeOK, Untouched, Exclusion
<1>3. CallShape(p)' /\ FreshRead(p)' /\ NoTransaction(p)'
  BY DEF IInv, TypeOK, CallShape, FreshRead, NoTransaction
<1>4. ASSUME NEW u \in Users PROVE Pending(p, u)'
  <2>1. Pending(p, u) /\ call[p].kind = "none"
    BY DEF IInv, CallShape, NoCall
  <2> QED
    BY <2>1 DEF Pending, CurrentRow, ChargeDue, CreditDue
<1> QED
  BY <1>1, <1>2, <1>3, <1>4, LocalStep

\* The invariant survives entering a ledger call.
LEMMA EnterStep ==
  ASSUME IInv, NEW p \in Procs, NEW c \in Call, NEW first \in PC,
         NEW ends \in SUBSET Users, Enter(p, c, first, ends),
         \/ /\ c.kind \in {"freeze", "unfreeze"} /\ first = "lockFrom"
            /\ c.from \in Users /\ c.out > 0
         \/ /\ c.kind = "book" /\ first = "insertFrom"
            /\ c.from \in Users /\ c.out > 0
         \/ /\ c.kind = "book" /\ first = "insertTo"
            /\ c.from = NoUser /\ c.to \in Users
  PROVE  IInv'
<1> USE NoUserAssumption DEF Enter, tables
<1>1. TypeOK'
  BY DEF IInv, TypeOK
<1>2. \A q \in Procs \ {p} : Untouched(q) /\ held'[p] \cap held[q] = {}
  BY DEF IInv, TypeOK, Untouched, Exclusion
<1>3. CallShape(p)' /\ FreshRead(p)' /\ NoTransaction(p)'
  BY DEF IInv, TypeOK, CallShape, FreshRead, NoTransaction
<1>4. ASSUME NEW u \in Users PROVE Pending(p, u)'
  <2>1. Pending(p, u) /\ call[p].kind = "none"
    BY DEF IInv, CallShape, NoCall
  <2>2. ChargeDue(p, u)' = 0 /\ CreditDue(p, u)' = 0
    BY DEF IInv, TypeOK, ChargeDue, CreditDue
  <2> QED
    BY <2>1, <2>2 DEF Pending, CurrentRow, ChargeDue, CreditDue
<1> QED
  BY <1>1, <1>2, <1>3, <1>4, LocalStep
\* The invariant survives a ledger call.
LEMMA CallStep ==
  ASSUME IInv, NEW p \in Procs, LedgerCall(p) PROVE IInv'
<1> USE AmountsAssumption, NoUserAssumption
<1>1. CASE FreezeCredits(p)
  <2>1. PICK u \in Users, a \in Amounts : Enter(p, OneUserCall("freeze", u, a), "lockFrom", {})
    BY <1>1 DEF FreezeCredits
  <2> DEFINE c == OneUserCall("freeze", u, a)
  <2>2. c \in Call /\ c.kind = "freeze" /\ c.from = u /\ c.out = a /\ "lockFrom" \in PC
    BY DEF OneUserCall, Call, PC
  <2>3. {} \in SUBSET Users /\ Enter(p, c, "lockFrom", {})
    BY <2>1
  <2> HIDE DEF c
  <2> QED
    BY <2>2, <2>3, EnterStep
<1>2. CASE UnfreezeCredits(p)
  <2>1. PICK u \in Users, a \in Amounts : Enter(p, OneUserCall("unfreeze", u, a), "lockFrom", {})
    BY <1>2 DEF UnfreezeCredits
  <2> DEFINE c == OneUserCall("unfreeze", u, a)
  <2>2. c \in Call /\ c.kind = "unfreeze" /\ c.from = u /\ c.out = a /\ "lockFrom" \in PC
    BY DEF OneUserCall, Call, PC
  <2>3. {} \in SUBSET Users /\ Enter(p, c, "lockFrom", {})
    BY <2>1
  <2> HIDE DEF c
  <2> QED
    BY <2>2, <2>3, EnterStep
<1>3. CASE CreateCreditTransaction(p)
  <2> DEFINE c(u, v, a, b) == [kind |-> "book", from |-> u, to |-> v,
                               out |-> IF u = NoUser THEN 0 ELSE a,
                               in  |-> IF v = NoUser THEN 0 ELSE b]
             first(u) == IF u = NoUser THEN "insertTo" ELSE "insertFrom"
  <2>1. PICK u \in Users \cup {NoUser}, v \in Users \cup {NoUser},
             a \in Amounts, b \in Amounts :
          /\ ~ (u = NoUser /\ v = NoUser)
          /\ b <= a
          /\ \E ends \in {{}, {u, v} \ {NoUser}} : Enter(p, c(u, v, a, b), first(u), ends)
    BY <1>3, Zenon DEF CreateCreditTransaction
  <2>0. PICK ends \in SUBSET Users : Enter(p, c(u, v, a, b), first(u), ends)
    BY <2>1
  <2>2. /\ c(u, v, a, b) \in Call /\ first(u) \in PC
        /\ c(u, v, a, b).kind = "book" /\ c(u, v, a, b).from = u /\ c(u, v, a, b).to = v
        /\ u # NoUser => c(u, v, a, b).out > 0
        /\ first(u) = IF u = NoUser THEN "insertTo" ELSE "insertFrom"
    BY DEF Call, PC
  <2> HIDE DEF c, first
  <2>3. CASE u = NoUser
    BY <2>0, <2>1, <2>2, <2>3, EnterStep
  <2>4. CASE u # NoUser
    BY <2>0, <2>1, <2>2, <2>4, EnterStep
  <2> QED
    BY <2>3, <2>4
<1> QED
  BY <1>1, <1>2, <1>3 DEF LedgerCall

\* The invariant survives the row for the charged user.
LEMMA InsertFromStep ==
  ASSUME IInv, NEW p \in Procs, InsertFrom(p) PROVE IInv'
<1> USE NoUserAssumption DEF InsertFrom, tables, bounds
<1>0. call[p].from \in Users /\ call[p].kind = "book" /\ call[p].out > 0
  BY DEF IInv, CallShape
<1>1. TypeOK'
  BY <1>0 DEF IInv, TypeOK, PC, Entry, Call, AddCharged, AddCredited
<1>2. \A q \in Procs \ {p} : Untouched(q) /\ held'[p] \cap held[q] = {}
  BY DEF IInv, TypeOK, Untouched, Exclusion
<1>3. CallShape(p)' /\ FreshRead(p)' /\ NoTransaction(p)'
  BY <1>0 DEF IInv, TypeOK, Call, CallShape, FreshRead, NoTransaction
<1>4. ASSUME NEW u \in Users PROVE Pending(p, u)'
  <2>1. Pending(p, u) /\ ChargeDue(p, u) = 0 /\ CreditDue(p, u) = 0
    BY DEF IInv, ChargeDue, CreditDue
  <2>2. CreditDue(p, u)' = 0
    BY <1>0 DEF IInv, TypeOK, CreditDue, Call
  <2>3. rows'[p][u].charged = rows[p][u].charged + ChargeDue(p, u)'
        /\ rows'[p][u].credited = rows[p][u].credited
    BY <1>0 DEF IInv, TypeOK, ChargeDue, Entry, Call, AddCharged
  <2>4. ChargeDue(p, u)' >= 0 /\ ChargeDue(p, u)' \in Int
    BY <1>0 DEF IInv, TypeOK, ChargeDue, Call
  <2>5. CurrentRow(p, u)' = CurrentRow(p, u) /\ CurrentRow(p, u) \in Row /\ db'[u] = db[u]
    BY DEF CurrentRow, IInv, TypeOK
  <2>6. rows[p][u] \in Entry /\ db[u] \in Row
    BY DEF IInv, TypeOK
  <2> QED
    BY <2>1, <2>2, <2>3, <2>4, <2>5, <2>6 DEF Pending, Entry, Row
<1> QED
  BY <1>1, <1>2, <1>3, <1>4, LocalStep

\* The invariant survives the row for the credited user.
LEMMA InsertToStep ==
  ASSUME IInv, NEW p \in Procs, InsertTo(p) PROVE IInv'
<1> USE NoUserAssumption DEF InsertTo, tables, bounds
<1>0. call[p].to \in Users /\ call[p].kind = "book"
  BY DEF IInv, CallShape
<1>1. TypeOK'
  BY <1>0 DEF IInv, TypeOK, PC, Entry, Call, AddCharged, AddCredited
<1>2. \A q \in Procs \ {p} : Untouched(q) /\ held'[p] \cap held[q] = {}
  BY DEF IInv, TypeOK, Untouched, Exclusion
<1>3. CallShape(p)' /\ FreshRead(p)' /\ NoTransaction(p)'
  BY <1>0 DEF IInv, TypeOK, Call, CallShape, FreshRead, NoTransaction
<1>4. ASSUME NEW u \in Users PROVE Pending(p, u)'
  <2>1. Pending(p, u) /\ CreditDue(p, u) = 0
    BY DEF IInv, CreditDue
  <2>2. ChargeDue(p, u)' = ChargeDue(p, u) /\ ChargeDue(p, u) \in Int
    BY <1>0 DEF IInv, TypeOK, ChargeDue, Call
  <2>3. rows'[p][u].credited = rows[p][u].credited + CreditDue(p, u)'
        /\ rows'[p][u].charged = rows[p][u].charged
    BY <1>0 DEF IInv, TypeOK, CreditDue, Entry, Call, AddCredited
  <2>4. CreditDue(p, u)' >= 0 /\ CreditDue(p, u)' \in Int
    BY <1>0 DEF IInv, TypeOK, CreditDue, Call
  <2>5. CurrentRow(p, u)' = CurrentRow(p, u) /\ CurrentRow(p, u) \in Row /\ db'[u] = db[u]
    BY DEF CurrentRow, IInv, TypeOK
  <2>6. rows[p][u] \in Entry /\ db[u] \in Row
    BY DEF IInv, TypeOK
  <2> QED
    BY <2>1, <2>2, <2>3, <2>4, <2>5, <2>6 DEF Pending, Entry, Row
<1> QED
  BY <1>1, <1>2, <1>3, <1>4, LocalStep

\* The invariant survives SELECT ... FOR UPDATE.
LEMMA LockUserStep ==
  ASSUME IInv, NEW p \in Procs, LockUser(p) PROVE IInv'
<1> USE NoUserAssumption DEF LockUser, tables, bounds
<1> DEFINE t == Target(p)
<1>0. t \in Users /\ pc[p] \in {"lockFrom", "lockTo"}
  BY DEF IInv, CallShape, Target, Locking
<1>1. CurrentRow(p, t) \in Row
  BY <1>0 DEF IInv, TypeOK, CurrentRow
<1>2. TypeOK'
  BY <1>0, <1>1 DEF IInv, TypeOK, PC
<1>3. \A q \in Procs \ {p} : Untouched(q) /\ held'[p] \cap held[q] = {}
  <2>1. \A q \in Procs \ {p} : t \notin held[q]
    BY DEF Blockers
  <2> QED
    BY <2>1 DEF IInv, TypeOK, Untouched, Exclusion
<1>4. Target(p)' = t
  BY <1>0 DEF Target, IInv, TypeOK
<1>5. CallShape(p)' /\ NoTransaction(p)'
  BY <1>0 DEF IInv, TypeOK, CallShape, NoTransaction
<1>6. FreshRead(p)'
  BY <1>0, <1>4 DEF IInv, TypeOK, FreshRead
<1>7. ASSUME NEW u \in Users PROVE Pending(p, u)'
  <2>1. Pending(p, u)
    BY DEF IInv
  <2>2. CurrentRow(p, u)' = CurrentRow(p, u)
    BY <1>0 DEF CurrentRow, IInv, TypeOK
  <2>3. ChargeDue(p, u)' = ChargeDue(p, u) /\ CreditDue(p, u)' = CreditDue(p, u)
    BY <1>0 DEF ChargeDue, CreditDue, IInv, TypeOK
  <2> QED
    BY <2>1, <2>2, <2>3 DEF Pending
<1> QED
  BY <1>2, <1>3, <1>5, <1>6, <1>7, LocalStep
\* A new version of the row of the user p has locked, which accounts for the
\* dues that the step settles, keeps the invariant.
LEMMA WriteStep ==
  ASSUME IInv, NEW p \in Procs, NEW t \in Users, NEW row \in Row, NEW next \in PC,
         Write(p, t, row, next),
         t \in held[p],
         row.frozen >= 0,
         (row.balance < 0 /\ row.balance < db[t].balance) => rows[p][t].charged > 0,
         CallShape(p)', next \notin {"idle", "updateFrom", "updateTo"},
         \A u \in Users : ChargeDue(p, u)' \in 0 .. ChargeDue(p, u),
         \A u \in Users : CreditDue(p, u)' \in 0 .. CreditDue(p, u),
         \A u \in Users \ {t} : /\ ChargeDue(p, u)' = ChargeDue(p, u)
                               /\ CreditDue(p, u)' = CreditDue(p, u),
         (row.balance + row.frozen) - (work[p][t].balance + work[p][t].frozen)
            = (CreditDue(p, t) - CreditDue(p, t)') - (ChargeDue(p, t) - ChargeDue(p, t)'),
         \A u \in Users : ChargeDue(p, u) \in Nat /\ CreditDue(p, u) \in Nat
  PROVE  IInv'
<1> USE DEF Write, tables, bounds
<1>1. TypeOK'
  BY TrialAssumption DEF IInv, TypeOK, NoCall, NewRow, Call, Row
<1>2. \A q \in Procs \ {p} : Untouched(q) /\ held'[p] \cap held[q] = {}
  BY DEF IInv, TypeOK, Untouched, Exclusion
<1>3. FreshRead(p)' /\ NoTransaction(p)'
  BY DEF IInv, TypeOK, FreshRead, NoTransaction
<1>4. ASSUME NEW u \in Users PROVE Pending(p, u)'
  <2>1. Pending(p, u) /\ rows'[p][u] = rows[p][u] /\ db'[u] = db[u]
    BY DEF IInv
  <2>2. CASE u = t
    <3>1. CurrentRow(p, t) = work[p][t] /\ CurrentRow(p, t)' = row
      BY DEF CurrentRow, IInv, TypeOK
    <3>2. /\ rows[p][t].charged \in Int /\ rows[p][t].credited \in Int
          /\ db[t].balance \in Int /\ db[t].frozen \in Int
          /\ work[p][t].balance \in Int /\ work[p][t].frozen \in Int
          /\ row.balance \in Int /\ row.frozen \in Int
      BY DEF IInv, TypeOK, Entry, Row
    <3>3. /\ ChargeDue(p, t)' \in 0 .. ChargeDue(p, t) /\ ChargeDue(p, t) \in Nat
          /\ CreditDue(p, t)' \in 0 .. CreditDue(p, t) /\ CreditDue(p, t) \in Nat
      OBVIOUS
    <3> HIDE DEF Write
    <3>4. (work[p][t].balance + work[p][t].frozen) - (db[t].balance + db[t].frozen)
             = (rows[p][t].credited - CreditDue(p, t))
                   - (rows[p][t].charged - ChargeDue(p, t))
      BY <2>1, <2>2, <3>1 DEF Pending
    <3>5. (row.balance + row.frozen) - (db[t].balance + db[t].frozen)
             = (rows[p][t].credited - CreditDue(p, t)')
                   - (rows[p][t].charged - ChargeDue(p, t)')
      <4> DEFINE cd == CreditDue(p, t)
                 cd2 == CreditDue(p, t)'
                 hd == ChargeDue(p, t)
                 hd2 == ChargeDue(p, t)'
      <4>1. cd \in Int /\ cd2 \in Int /\ hd \in Int /\ hd2 \in Int
        BY <3>3
      <4>2. (row.balance + row.frozen) - (work[p][t].balance + work[p][t].frozen)
              = (cd - cd2) - (hd - hd2)
        OBVIOUS
      <4>3. (work[p][t].balance + work[p][t].frozen) - (db[t].balance + db[t].frozen)
              = (rows[p][t].credited - cd) - (rows[p][t].charged - hd)
        BY <3>4
      <4> HIDE DEF cd, cd2, hd, hd2
      <4>4. (row.balance + row.frozen) - (db[t].balance + db[t].frozen)
              = (rows[p][t].credited - cd2) - (rows[p][t].charged - hd2)
        BY <3>2, <4>1, <4>2, <4>3
      <4> QED
        BY <4>4 DEF cd2, hd2
    <3>6. rows[p][t].charged >= ChargeDue(p, t)' /\ rows[p][t].credited >= CreditDue(p, t)'
      BY <2>1, <2>2, <3>2, <3>3 DEF Pending
    <3> QED
      BY <2>1, <2>2, <3>1, <3>5, <3>6 DEF Pending
  <2>3. CASE u # t
    <3>1. CurrentRow(p, u)' = CurrentRow(p, u)
      BY <2>3 DEF CurrentRow, IInv, TypeOK
    <3> QED
      BY <2>1, <2>3, <3>1 DEF Pending
  <2> QED
    BY <2>2, <2>3
<1> QED
  BY <1>1, <1>2, <1>3, <1>4, LocalStep
\* The invariant survives a refused reservation.
LEMMA RefuseFreezeStep ==
  ASSUME IInv, NEW p \in Procs, RefuseFreeze(p) PROVE IInv'
<1> USE DEF RefuseFreeze, tables, bounds
<1>1. TypeOK'
  BY DEF IInv, TypeOK, PC
<1>2. \A q \in Procs \ {p} : Untouched(q) /\ held'[p] \cap held[q] = {}
  BY DEF IInv, TypeOK, Untouched, Exclusion
<1>3. CallShape(p)' /\ FreshRead(p)' /\ NoTransaction(p)'
  BY DEF IInv, TypeOK, CallShape, FreshRead, NoTransaction
<1>4. ASSUME NEW u \in Users PROVE Pending(p, u)'
  <2>1. Pending(p, u)
    BY DEF IInv
  <2>2. /\ ChargeDue(p, u)' = ChargeDue(p, u) /\ CreditDue(p, u)' = CreditDue(p, u)
        /\ CurrentRow(p, u)' = CurrentRow(p, u)
    BY DEF ChargeDue, CreditDue, CurrentRow
  <2> QED
    BY <2>1, <2>2 DEF Pending
<1> QED
  BY <1>1, <1>2, <1>3, <1>4, LocalStep

\* What holds before every update of the charged, or the only, user.
LEMMA BeforeUpdate ==
  ASSUME IInv, NEW p \in Procs, pc[p] = "updateFrom"
  PROVE  /\ call[p].from \in Users /\ call[p].from \in held[p]
         /\ call[p].out \in Nat /\ call[p].out > 0 /\ call[p].in \in Nat
         /\ seen[p] = work[p][call[p].from]
         /\ work[p][call[p].from] \in Row
         /\ work[p][call[p].from].frozen >= 0
         /\ ((work[p][call[p].from].balance < 0
               /\ work[p][call[p].from].balance < db[call[p].from].balance)
               => rows[p][call[p].from].charged > 0)
         /\ rows[p][call[p].from].charged >= ChargeDue(p, call[p].from)
         /\ rows[p][call[p].from].charged \in Int
         /\ db[call[p].from] \in Row
<1> DEFINE u == call[p].from
<1>1. u \in Users /\ call[p].out > 0
  BY DEF IInv, CallShape
<1>2. call[p].out \in Nat /\ call[p].in \in Nat
  BY DEF IInv, TypeOK, Call
<1>3. u \in held[p] /\ seen[p] = work[p][u]
  BY DEF IInv, FreshRead, Target
<1>4. work[p][u] \in Row /\ db[u] \in Row /\ rows[p][u].charged \in Int
  BY <1>1 DEF IInv, TypeOK, Entry
<1>5. Pending(p, u) /\ CurrentRow(p, u) = work[p][u]
  BY <1>1, <1>3 DEF IInv, CurrentRow
<1> QED
  BY <1>1, <1>2, <1>3, <1>4, <1>5 DEF Pending

\* The invariant survives a reservation.
LEMMA UpdateFreezeStep ==
  ASSUME IInv, NEW p \in Procs, UpdateFreeze(p) PROVE IInv'
<1>0. PICK t \in Users : t = call[p].from
  BY BeforeUpdate DEF UpdateFreeze, UpdateUnfreeze, UpdateCharged
<1> DEFINE row == MoveToFrozen(work[p][t], call[p].out)
<1>1. pc[p] = "updateFrom" /\ call[p].kind = "freeze" /\ call[p].out <= seen[p].balance
      /\ Write(p, t, row, "open")
  BY <1>0 DEF UpdateFreeze
<1>2. /\ row \in Row /\ row.frozen >= 0 /\ ~ row.balance < 0
      /\ row.balance + row.frozen = work[p][t].balance + work[p][t].frozen
  BY <1>0, <1>1, BeforeUpdate DEF MoveToFrozen, Row
<1>3. \A u \in Users : /\ ChargeDue(p, u) = 0 /\ ChargeDue(p, u)' = 0
                       /\ CreditDue(p, u) = 0 /\ CreditDue(p, u)' = 0
  BY <1>0, <1>1 DEF ChargeDue, CreditDue, Write, IInv, TypeOK
<1>4. CallShape(p)'
  BY <1>0, <1>1, NoUserAssumption DEF CallShape, Write, IInv, TypeOK, NoCall
<1>5. "open" \in PC /\ "open" \notin {"idle", "updateFrom", "updateTo"}
  BY DEF PC
<1>6. t \in Users /\ t \in held[p] /\ work[p][t] \in Row
  BY <1>0, <1>1, BeforeUpdate
<1> HIDE DEF row
<1> QED
  BY <1>0, <1>1, <1>2, <1>3, <1>4, <1>5, <1>6, WriteStep DEF Row

\* The invariant survives a release.
LEMMA UpdateUnfreezeStep ==
  ASSUME IInv, NEW p \in Procs, UpdateUnfreeze(p) PROVE IInv'
<1>0. PICK t \in Users : t = call[p].from
  BY BeforeUpdate DEF UpdateFreeze, UpdateUnfreeze, UpdateCharged
<1> DEFINE row == MoveToFrozen(work[p][t], - Unfrozen(seen[p], call[p].out))
<1>1. pc[p] = "updateFrom" /\ call[p].kind = "unfreeze" /\ Write(p, t, row, "open")
  BY <1>0 DEF UpdateUnfreeze
<1>2. /\ row \in Row /\ row.frozen >= 0 /\ row.balance >= work[p][t].balance
      /\ row.balance + row.frozen = work[p][t].balance + work[p][t].frozen
  BY <1>0, <1>1, BeforeUpdate DEF MoveToFrozen, Unfrozen, Row
<1>3. \A u \in Users : /\ ChargeDue(p, u) = 0 /\ ChargeDue(p, u)' = 0
                       /\ CreditDue(p, u) = 0 /\ CreditDue(p, u)' = 0
  BY <1>0, <1>1 DEF ChargeDue, CreditDue, Write, IInv, TypeOK
<1>4. CallShape(p)'
  BY <1>0, <1>1, NoUserAssumption DEF CallShape, Write, IInv, TypeOK, NoCall
<1>5. "open" \in PC /\ "open" \notin {"idle", "updateFrom", "updateTo"}
  BY DEF PC
<1>6. t \in Users /\ t \in held[p] /\ work[p][t] \in Row /\ db[t] \in Row
      /\ ((work[p][t].balance < 0 /\ work[p][t].balance < db[t].balance)
           => rows[p][t].charged > 0)
  BY <1>0, <1>1, BeforeUpdate
<1> HIDE DEF row
<1>7. (row.balance < 0 /\ row.balance < db[t].balance) => rows[p][t].charged > 0
  BY <1>0, <1>2, <1>6 DEF Row
<1> QED
  BY <1>0, <1>1, <1>2, <1>3, <1>4, <1>5, <1>6, <1>7, WriteStep DEF Row

\* The invariant survives the UPDATE of the charged user.
LEMMA UpdateChargedStep ==
  ASSUME IInv, NEW p \in Procs, UpdateCharged(p) PROVE IInv'
<1>0. PICK t \in Users : t = call[p].from
  BY BeforeUpdate DEF UpdateFreeze, UpdateUnfreeze, UpdateCharged
<1> DEFINE a == call[p].out
           row == AddBalance(work[p][t], - a)
           next == IF call[p].to = NoUser THEN "open" ELSE "lockTo"
<1>1. pc[p] = "updateFrom" /\ call[p].kind = "book" /\ Write(p, t, row, next)
  BY <1>0 DEF UpdateCharged
<1>2. /\ t \in Users /\ t \in held[p] /\ work[p][t] \in Row /\ a \in Nat /\ a > 0
      /\ work[p][t].frozen >= 0 /\ call[p].in \in Nat
      /\ rows[p][t].charged >= ChargeDue(p, t) /\ rows[p][t].charged \in Int
  BY <1>0, <1>1, BeforeUpdate
<1>3. /\ row \in Row /\ row.frozen >= 0
      /\ row.balance + row.frozen = (work[p][t].balance + work[p][t].frozen) - a
  <2>1. work[p][t].balance \in Int /\ work[p][t].frozen \in Int
    BY <1>2 DEF Row
  <2>2. /\ row = [balance |-> work[p][t].balance + (- a), frozen |-> work[p][t].frozen]
        /\ row.balance = work[p][t].balance - a /\ row.frozen = work[p][t].frozen
    BY <1>2, <2>1 DEF AddBalance
  <2>3. row \in Row
    BY <1>2, <2>1, <2>2 DEF Row
  <2> QED
    BY <1>2, <2>1, <2>2, <2>3
<1>4. call[p].to \in Users \cup {NoUser} /\ call[p] \in Call
  BY DEF IInv, TypeOK, Call
<1>5. \A u \in Users : /\ ChargeDue(p, u) = IF u = t THEN a ELSE 0
                       /\ ChargeDue(p, u)' = 0
  BY <1>0, <1>1 DEF ChargeDue, Write, IInv, TypeOK
<1>6. \A u \in Users : /\ CreditDue(p, u) = IF u = call[p].to THEN call[p].in ELSE 0
                       /\ CreditDue(p, u)' = CreditDue(p, u)
  BY <1>0, <1>1, NoUserAssumption DEF CreditDue, Write, IInv, TypeOK, NoCall
<1>7. CallShape(p)'
  BY <1>0, <1>1, <1>4, NoUserAssumption DEF CallShape, Write, IInv, TypeOK, NoCall
<1>8. next \in PC /\ next \notin {"idle", "updateFrom", "updateTo"}
  BY DEF PC
<1>9. rows[p][t].charged > 0
  <2>1. ChargeDue(p, t) = a
    BY <1>5
  <2> QED
    BY <1>2, <2>1, <1>0
<1> HIDE DEF a, row, next
<1>10. (row.balance + row.frozen) - (work[p][t].balance + work[p][t].frozen)
         = (CreditDue(p, t) - CreditDue(p, t)') - (ChargeDue(p, t) - ChargeDue(p, t)')
  <2>1. /\ ChargeDue(p, t) = a /\ ChargeDue(p, t)' = 0 /\ a \in Int
        /\ CreditDue(p, t)' = CreditDue(p, t) /\ CreditDue(p, t) \in Int
    BY <1>0, <1>2, <1>5, <1>6
  <2>2. /\ row.balance \in Int /\ row.frozen \in Int
        /\ work[p][t].balance \in Int /\ work[p][t].frozen \in Int
    BY <1>0, <1>2, <1>3 DEF Row
  <2> QED
    BY <1>0, <1>3, <2>1, <2>2
<1>11. /\ \A u \in Users : ChargeDue(p, u)' \in 0 .. ChargeDue(p, u)
       /\ \A u \in Users : CreditDue(p, u)' \in 0 .. CreditDue(p, u)
       /\ \A u \in Users : ChargeDue(p, u) \in Nat /\ CreditDue(p, u) \in Nat
  BY <1>0, <1>2, <1>5, <1>6
<1>12. \A u \in Users \ {t} : /\ ChargeDue(p, u)' = ChargeDue(p, u)
                              /\ CreditDue(p, u)' = CreditDue(p, u)
  BY <1>0, <1>5, <1>6
<1> QED
  BY <1>0, <1>1, <1>2, <1>3, <1>7, <1>8, <1>9, <1>10, <1>11, <1>12, WriteStep

\* The invariant survives the UPDATE of the credited user.
LEMMA UpdateCreditedStep ==
  ASSUME IInv, NEW p \in Procs, UpdateCredited(p) PROVE IInv'
<1>0. PICK t \in Users : t = call[p].to
  BY DEF UpdateCredited, IInv, CallShape
<1> DEFINE b == call[p].in
           row == AddBalance(work[p][t], b)
<1>1. pc[p] = "updateTo" /\ call[p].kind = "book" /\ Write(p, t, row, "open")
  BY <1>0 DEF UpdateCredited, IInv, CallShape
<1>2. t \in Users /\ t \in held[p] /\ b \in Nat
  BY <1>0, <1>1 DEF IInv, CallShape, FreshRead, Target, TypeOK, Call
<1>3. /\ work[p][t] \in Row /\ db[t] \in Row /\ work[p][t].frozen >= 0
      /\ ((work[p][t].balance < 0 /\ work[p][t].balance < db[t].balance)
           => rows[p][t].charged > 0)
  <2>1. Pending(p, t) /\ CurrentRow(p, t) = work[p][t]
    BY <1>0, <1>2 DEF IInv, CurrentRow
  <2> QED
    BY <1>0, <1>2, <2>1 DEF Pending, IInv, TypeOK
<1>4. /\ row \in Row /\ row.frozen >= 0 /\ row.balance >= work[p][t].balance
      /\ row.balance + row.frozen = (work[p][t].balance + work[p][t].frozen) + b
  BY <1>0, <1>2, <1>3 DEF AddBalance, Row
<1>5. \A u \in Users : ChargeDue(p, u) = 0 /\ ChargeDue(p, u)' = 0
  BY <1>0, <1>1 DEF ChargeDue, Write, IInv, TypeOK
<1>6. \A u \in Users : /\ CreditDue(p, u) = IF u = t THEN b ELSE 0
                       /\ CreditDue(p, u)' = 0
  BY <1>0, <1>1 DEF CreditDue, Write, IInv, TypeOK
<1>7. CallShape(p)'
  BY <1>0, <1>1, NoUserAssumption DEF CallShape, Write, IInv, TypeOK, NoCall
<1>8. "open" \in PC /\ "open" \notin {"idle", "updateFrom", "updateTo"}
  BY DEF PC
<1> HIDE DEF b, row
<1>9. (row.balance < 0 /\ row.balance < db[t].balance) => rows[p][t].charged > 0
  BY <1>0, <1>3, <1>4 DEF Row
<1>10. (row.balance + row.frozen) - (work[p][t].balance + work[p][t].frozen)
         = (CreditDue(p, t) - CreditDue(p, t)') - (ChargeDue(p, t) - ChargeDue(p, t)')
  <2>1. /\ CreditDue(p, t) = b /\ CreditDue(p, t)' = 0 /\ b \in Int
        /\ ChargeDue(p, t)' = 0 /\ ChargeDue(p, t) = 0
    BY <1>0, <1>2, <1>5, <1>6
  <2>2. /\ row.balance \in Int /\ row.frozen \in Int
        /\ work[p][t].balance \in Int /\ work[p][t].frozen \in Int
    BY <1>0, <1>3, <1>4 DEF Row
  <2> QED
    BY <1>0, <1>4, <2>1, <2>2
<1>11. /\ \A u \in Users : ChargeDue(p, u)' \in 0 .. ChargeDue(p, u)
       /\ \A u \in Users : CreditDue(p, u)' \in 0 .. CreditDue(p, u)
       /\ \A u \in Users : ChargeDue(p, u) \in Nat /\ CreditDue(p, u) \in Nat
  BY <1>0, <1>2, <1>5, <1>6
<1>12. \A u \in Users \ {t} : /\ ChargeDue(p, u)' = ChargeDue(p, u)
                              /\ CreditDue(p, u)' = CreditDue(p, u)
  BY <1>0, <1>5, <1>6
<1> QED
  BY <1>0, <1>1, <1>2, <1>4, <1>7, <1>8, <1>9, <1>10, <1>11, <1>12, WriteStep
\* What Release leaves of p, whatever happened to the tables.
LEMMA Released ==
  ASSUME IInv, NEW p \in Procs, Release(p)
  PROVE  /\ \A q \in Procs \ {p} : Untouched(q)
         /\ \A q \in Procs : held'[q] \subseteq held[q]
         /\ CallShape(p)' /\ FreshRead(p)' /\ NoTransaction(p)'
         /\ pc'[p] = "idle" /\ call'[p] = NoCall /\ held'[p] = {}
         /\ rows'[p] = [u \in Users |-> NoRows]
         /\ pc' \in [Procs -> PC] /\ call' \in [Procs -> Call]
         /\ held' \in [Procs -> SUBSET Users] /\ share' \in [Procs -> SUBSET Users]
         /\ seen' \in [Procs -> Row] /\ work' \in [Procs -> [Users -> Row]]
         /\ rows' \in [Procs -> [Users -> Entry]] /\ uses' \in [Procs -> SUBSET Users]
         /\ begun' \in Nat /\ calls' \in Nat /\ roster' \in SUBSET Users
<1> USE DEF Release, bounds, IInv, TypeOK
<1>1. \A q \in Procs \ {p} : Untouched(q)
  BY DEF Untouched
<1>2. /\ pc'[p] = "idle" /\ call'[p] = NoCall /\ held'[p] = {}
      /\ rows'[p] = [u \in Users |-> NoRows]
  OBVIOUS
<1>3. CallShape(p)' /\ FreshRead(p)' /\ NoTransaction(p)'
  BY <1>2, NoUserAssumption DEF CallShape, FreshRead, NoTransaction, NoCall
<1>4. \A q \in Procs : held'[q] \subseteq held[q]
  OBVIOUS
<1>5. NoCall \in Call /\ NewRow \in Row /\ NoRows \in Entry /\ "idle" \in PC
  BY TrialAssumption DEF NoCall, Call, NewRow, Row, NoRows, Entry, PC
<1>6. /\ pc' \in [Procs -> PC] /\ call' \in [Procs -> Call]
      /\ held' \in [Procs -> SUBSET Users] /\ share' \in [Procs -> SUBSET Users]
      /\ seen' \in [Procs -> Row] /\ work' \in [Procs -> [Users -> Row]]
      /\ rows' \in [Procs -> [Users -> Entry]] /\ uses' \in [Procs -> SUBSET Users]
      /\ begun' \in Nat /\ calls' \in Nat /\ roster' \in SUBSET Users
  BY <1>5
<1> QED
  BY <1>1, <1>2, <1>3, <1>4, <1>6

\* The invariant survives a rollback.
LEMMA RollbackStep ==
  ASSUME IInv, NEW p \in Procs, UNCHANGED tables, Release(p) PROVE IInv'
<1>1. TypeOK'
  BY Released DEF IInv, TypeOK, tables
<1>2. \A q \in Procs \ {p} : held'[p] \cap held[q] = {}
  BY Released
<1>3. ASSUME NEW u \in Users PROVE Pending(p, u)'
  <2>1. CurrentRow(p, u)' = db[u] /\ db'[u] = db[u] /\ db[u] \in Row /\ db[u].frozen >= 0
    BY Released DEF CurrentRow, IInv, TypeOK, tables
  <2>2. ChargeDue(p, u)' = 0 /\ CreditDue(p, u)' = 0
    BY Released DEF ChargeDue, CreditDue, NoCall
  <2>3. rows'[p][u].charged = 0 /\ rows'[p][u].credited = 0
    BY Released DEF NoRows
  <2> QED
    BY <2>1, <2>2, <2>3 DEF Pending, Row
<1> QED
  BY <1>1, <1>2, <1>3, Released, LocalStep

\* What a commit does to one user's row and ledger entry.
LEMMA CommitTables ==
  ASSUME IInv, NEW p \in Procs, Commit(p), NEW u \in Users
  PROVE  /\ db'[u] = CurrentRow(p, u) /\ db'[u] \in Row /\ ledger'[u] \in Entry
         /\ expired'[u] = expired[u]
         /\ ledger'[u].charged = ledger[u].charged + rows[p][u].charged
         /\ ledger'[u].credited = ledger[u].credited + rows[p][u].credited
         /\ rows[p][u].charged \in Nat /\ rows[p][u].credited \in Nat
         /\ (db'[u].balance + db'[u].frozen) - (db[u].balance + db[u].frozen)
               = rows[p][u].credited - rows[p][u].charged
         /\ db'[u].frozen >= 0
         /\ ((db'[u].balance < 0 /\ db'[u].balance < db[u].balance)
               => rows[p][u].charged > 0)
<1>1. db'[u] = CurrentRow(p, u) /\ expired'[u] = expired[u]
  BY DEF Commit, CurrentRow
<1>2. db'[u] \in Row /\ rows[p][u] \in Entry /\ ledger[u] \in Entry
  BY <1>1 DEF IInv, TypeOK, CurrentRow
<1>3. /\ ledger'[u].charged = ledger[u].charged + rows[p][u].charged
      /\ ledger'[u].credited = ledger[u].credited + rows[p][u].credited
      /\ ledger'[u] \in Entry
  BY <1>2 DEF Commit, Entry
<1>4. Pending(p, u) /\ ChargeDue(p, u) = 0 /\ CreditDue(p, u) = 0
  BY DEF IInv, Commit, ChargeDue, CreditDue
<1>5. /\ (db'[u].balance + db'[u].frozen) - (db[u].balance + db[u].frozen)
           = rows[p][u].credited - rows[p][u].charged
      /\ db'[u].frozen >= 0 /\ rows[p][u].charged >= 0 /\ rows[p][u].credited >= 0
      /\ ((db'[u].balance < 0 /\ db'[u].balance < db[u].balance)
            => rows[p][u].charged > 0)
  BY <1>1, <1>2, <1>4 DEF Pending, Entry, Row
<1> QED
  BY <1>1, <1>2, <1>3, <1>5 DEF Entry

\* A commit keeps the invariant: what was decided under the locks still fits.
LEMMA CommitStep ==
  ASSUME IInv, NEW p \in Procs, Commit(p) PROVE IInv'
<1>1. Release(p) /\ pc[p] = "open"
  BY DEF Commit
<1>2. TypeOK'
  <2>1. db' \in [Users -> Row] /\ ledger' \in [Users -> Entry] /\ expired' \in [Users -> Int]
    <3>1. /\ db' = [u \in Users |-> db'[u]] /\ ledger' = [u \in Users |-> ledger'[u]]
          /\ expired' = expired
      BY DEF Commit
    <3> QED
      BY <3>1, CommitTables DEF IInv, TypeOK
  <2>2. used' \in SUBSET Users
    BY DEF Commit, IInv, TypeOK
  <2> QED
    BY <1>1, <2>1, <2>2, Released DEF TypeOK
<1>3. LedgerBalanced'
  <2> SUFFICES ASSUME NEW u \in Users
               PROVE  db'[u].balance + db'[u].frozen
                        = ledger'[u].credited - ledger'[u].charged - expired'[u]
    BY DEF LedgerBalanced
  <2>1. db[u].balance + db[u].frozen
          = ledger[u].credited - ledger[u].charged - expired[u]
    BY DEF IInv, LedgerBalanced
  <2>2. /\ db[u] \in Row /\ ledger[u] \in Entry /\ expired[u] \in Int
        /\ db'[u] \in Row
    BY CommitTables DEF IInv, TypeOK
  <2>3. /\ expired'[u] = expired[u]
        /\ ledger'[u].charged = ledger[u].charged + rows[p][u].charged
        /\ ledger'[u].credited = ledger[u].credited + rows[p][u].credited
        /\ rows[p][u].charged \in Nat /\ rows[p][u].credited \in Nat
        /\ (db'[u].balance + db'[u].frozen) - (db[u].balance + db[u].frozen)
              = rows[p][u].credited - rows[p][u].charged
    BY CommitTables
  <2>4. /\ db[u].balance \in Int /\ db[u].frozen \in Int
        /\ db'[u].balance \in Int /\ db'[u].frozen \in Int
        /\ ledger[u].charged \in Int /\ ledger[u].credited \in Int
    BY <2>2 DEF Row, Entry
  <2> QED
    <3>1. db'[u].balance + db'[u].frozen
            = (ledger[u].credited + rows[p][u].credited)
                - (ledger[u].charged + rows[p][u].charged) - expired[u]
      <4> DEFINE b == db[u].balance
                 f == db[u].frozen
                 b2 == db'[u].balance
                 f2 == db'[u].frozen
                 cr == ledger[u].credited
                 ch == ledger[u].charged
                 ex == expired[u]
                 dcr == rows[p][u].credited
                 dch == rows[p][u].charged
      <4>1. /\ b \in Int /\ f \in Int /\ b2 \in Int /\ f2 \in Int
            /\ cr \in Int /\ ch \in Int /\ ex \in Int /\ dcr \in Int /\ dch \in Int
        BY <2>2, <2>3, <2>4
      <4>2. b + f = cr - ch - ex
        BY <2>1
      <4>3. (b2 + f2) - (b + f) = dcr - dch
        BY <2>3
      <4> HIDE DEF b, f, b2, f2, cr, ch, ex, dcr, dch
      <4>4. b2 + f2 = (cr + dcr) - (ch + dch) - ex
        BY <4>1, <4>2, <4>3
      <4> QED
        BY <4>4 DEF b2, f2, cr, ch, ex, dcr, dch
    <3> QED
      BY <2>3, <3>1
<1>4. Exclusion'
  BY <1>1, Released DEF IInv, Exclusion
<1>5. \A u \in Users : db'[u].frozen >= 0
  BY CommitTables
<1>6. ASSUME NEW q \in Procs
      PROVE  CallShape(q)' /\ FreshRead(q)' /\ NoTransaction(q)'
  <2>1. CASE q = p
    BY <1>1, <2>1, Released
  <2>2. CASE q # p
    <3>1. Untouched(q)
      BY <1>1, <2>2, Released
    <3> QED
      BY <3>1 DEF IInv, Untouched, CallShape, FreshRead, NoTransaction, Target
  <2> QED
    BY <2>1, <2>2
<1>7. ASSUME NEW q \in Procs, NEW u \in Users
      PROVE  Pending(q, u)'
  <2>1. db'[u] \in Row /\ db'[u].frozen >= 0
    BY CommitTables
  <2>2. CASE q = p
    <3>1. CurrentRow(q, u)' = db'[u]
      BY <1>1, <2>2, Released DEF CurrentRow
    <3>2. ChargeDue(q, u)' = 0 /\ CreditDue(q, u)' = 0
      BY <1>1, <2>2, Released DEF ChargeDue, CreditDue, NoCall
    <3>3. rows'[q][u].charged = 0 /\ rows'[q][u].credited = 0
      BY <1>1, <2>2, Released DEF NoRows
    <3> QED
      BY <2>1, <3>1, <3>2, <3>3 DEF Pending, Row
  <2>3. CASE q # p
    <3>1. Untouched(q)
      BY <1>1, <2>3, Released
    <3>2. Pending(q, u)
      BY DEF IInv
    <3>3. ChargeDue(q, u)' = ChargeDue(q, u) /\ CreditDue(q, u)' = CreditDue(q, u)
      BY <3>1 DEF Untouched, ChargeDue, CreditDue
    <3>4. CASE u \in held[q]
      <4>1. u \notin held[p]
        BY <2>3, <3>4 DEF IInv, Exclusion
      <4>2. db'[u] = db[u] /\ CurrentRow(q, u)' = CurrentRow(q, u)
        BY <3>1, <3>4, <4>1 DEF Untouched, CurrentRow, Commit
      <4> QED
        BY <3>1, <3>2, <3>3, <4>2 DEF Untouched, Pending
    <3>5. CASE u \notin held[q]
      <4>1. CurrentRow(q, u) = db[u] /\ CurrentRow(q, u)' = db'[u]
        BY <3>1, <3>5 DEF Untouched, CurrentRow
      <4>2. /\ db[u].balance \in Int /\ db[u].frozen \in Int
            /\ db'[u].balance \in Int /\ db'[u].frozen \in Int
        BY <2>1 DEF IInv, TypeOK, Row
      <4>3. (rows[q][u].credited - CreditDue(q, u)) - (rows[q][u].charged - ChargeDue(q, u)) = 0
        BY <3>2, <4>1, <4>2 DEF Pending
      <4> QED
        BY <2>1, <3>1, <3>2, <3>3, <4>1, <4>2, <4>3 DEF Untouched, Pending
    <3> QED
      BY <3>4, <3>5
  <2> QED
    BY <2>2, <2>3
<1> QED
  BY <1>2, <1>3, <1>4, <1>5, <1>6, <1>7 DEF IInv
\* The expiry job touches rows nobody has locked.
LEMMA ExpiryStep ==
  ASSUME IInv, Expiry PROVE IInv'
<1> USE DEF private, bounds
<1>1. CASE UNCHANGED <<tables, private>> /\ roster' \in SUBSET Users /\ UNCHANGED bounds
  BY <1>1 DEF IInv, TypeOK, tables, LedgerBalanced, Exclusion, CallShape, FreshRead,
              NoTransaction, Target, Pending, CurrentRow, ChargeDue, CreditDue
<1>2. ASSUME NEW u \in Users, ExpiryWrite(u) PROVE IInv'
  <2> USE <1>2 DEF ExpiryWrite
  <2>1. db[u] \in Row /\ expired[u] \in Int /\ ledger[u] \in Entry
    BY DEF IInv, TypeOK
  <2>2. /\ db'[u].balance = 0 /\ db'[u].frozen = db[u].frozen /\ db'[u] \in Row
        /\ expired'[u] = expired[u] + db[u].balance
        /\ \A w \in Users \ {u} : db'[w] = db[w] /\ expired'[w] = expired[w]
    BY <2>1 DEF IInv, TypeOK, Row
  <2>3. TypeOK'
    BY <2>1, <2>2 DEF IInv, TypeOK, Row
  <2>4. LedgerBalanced'
    <3> SUFFICES ASSUME NEW w \in Users
                 PROVE  db'[w].balance + db'[w].frozen
                          = ledger[w].credited - ledger[w].charged - expired'[w]
      BY DEF LedgerBalanced
    <3>1. db[w].balance + db[w].frozen
            = ledger[w].credited - ledger[w].charged - expired[w]
      BY DEF IInv, LedgerBalanced
    <3>2. CASE w # u
      BY <2>2, <3>1, <3>2
    <3>3. CASE w = u
      <4>1. /\ db[u].balance \in Int /\ db[u].frozen \in Int
            /\ ledger[u].credited \in Int /\ ledger[u].charged \in Int
        BY <2>1 DEF Row, Entry
      <4> QED
        BY <2>1, <2>2, <3>1, <3>3, <4>1
    <3> QED
      BY <3>2, <3>3
  <2>5. \A w \in Users : db'[w].frozen >= 0
    BY <2>2 DEF IInv
  <2>6. ASSUME NEW q \in Procs
        PROVE  CallShape(q)' /\ FreshRead(q)' /\ NoTransaction(q)'
    BY DEF IInv, CallShape, FreshRead, NoTransaction, Target
  <2>7. ASSUME NEW q \in Procs, NEW w \in Users PROVE Pending(q, w)'
    <3>1. Pending(q, w)
      BY DEF IInv
    <3>2. ChargeDue(q, w)' = ChargeDue(q, w) /\ CreditDue(q, w)' = CreditDue(q, w)
      BY DEF ChargeDue, CreditDue
    <3>3. CASE w # u
      <4>1. db'[w] = db[w] /\ CurrentRow(q, w)' = CurrentRow(q, w)
        BY <2>2, <3>3 DEF CurrentRow
      <4> QED
        BY <3>1, <3>2, <4>1 DEF Pending
    <3>4. CASE w = u
      <4>1. CurrentRow(q, w) = db[w] /\ CurrentRow(q, w)' = db'[w]
        BY <3>4 DEF CurrentRow
      <4>2. /\ db[w].balance \in Int /\ db[w].frozen \in Int
            /\ db'[w].balance \in Int /\ db'[w].frozen \in Int
        BY <2>1, <2>2, <3>4 DEF Row
      <4>3. (rows[q][w].credited - CreditDue(q, w)) - (rows[q][w].charged - ChargeDue(q, w)) = 0
        BY <3>1, <4>1, <4>2 DEF Pending
      <4> QED
        BY <2>5, <3>1, <3>2, <4>1, <4>2, <4>3 DEF Pending
    <3> QED
      BY <3>3, <3>4
  <2> QED
    BY <2>3, <2>4, <2>5, <2>6, <2>7 DEF IInv, Exclusion
<1>3. CASE ExpiryScan
  BY <1>1, <1>3 DEF ExpiryScan, tables
<1>4. ASSUME NEW u \in Users, ExpirySkip(u) PROVE IInv'
  BY <1>1, <1>4 DEF ExpirySkip, tables, IInv, TypeOK
<1> QED
  BY <1>2, <1>3, <1>4 DEF Expiry

\* Every step keeps the invariant.
LEMMA NextIInv == IInv /\ [Next]_vars => IInv'
<1> SUFFICES ASSUME IInv, [Next]_vars PROVE IInv'
  OBVIOUS
<1>1. CASE UNCHANGED vars
  BY <1>1 DEF vars, tables, private, bounds, IInv, TypeOK, LedgerBalanced, Exclusion,
              CallShape, FreshRead, NoTransaction, Target, Pending, CurrentRow,
              ChargeDue, CreditDue
<1>2. ASSUME NEW p \in Procs, Process(p) PROVE IInv'
  <2>1. CASE Begin(p)
    BY <2>1, BeginStep
  <2>2. CASE LedgerCall(p)
    BY <2>2, CallStep
  <2>3. CASE Statement(p)
    BY <2>3, InsertFromStep, InsertToStep, LockUserStep, RefuseFreezeStep,
       UpdateFreezeStep, UpdateUnfreezeStep, UpdateChargedStep, UpdateCreditedStep
       DEF Statement
  <2>4. CASE Commit(p)
    BY <2>4, CommitStep
  <2>5. CASE Rollback(p) \/ DeadlockAbort(p)
    BY <2>5, RollbackStep DEF Rollback, DeadlockAbort
  <2> QED
    BY <1>2, <2>1, <2>2, <2>3, <2>4, <2>5 DEF Process
<1> QED
  BY <1>1, <1>2, ExpiryStep DEF Next

\* The inductive invariant: a transaction that has locked a row works on the
\* committed row plus its own uncommitted ledger rows, and holds the lock alone.
THEOREM Invariance == Spec => []IInv
BY InitIInv, NextIInv, PTL DEF Spec

\* The variables of CreditRows keep their types.
THEOREM TypeCorrect == Spec => []TypeOK
<1>1. IInv => TypeOK
  BY DEF IInv
<1> QED
  BY <1>1, Invariance, PTL

\* credits.ts:10-13: no interleaving of ledger transactions, rollbacks, deadlock
\* aborts and trial expiries makes a balance differ from its ledger rows.
THEOREM LedgerBalancedHolds == Spec => []LedgerBalanced
<1>1. IInv => LedgerBalanced
  BY DEF IInv
<1> QED
  BY <1>1, Invariance, PTL
-----------------------------------------------------------------------------
(* CreditRows implements CreditLedger *)

\* New wallets are the initial wallets of CreditLedger.
LEMMA InitImplements == Init => Ledger!Init
BY DEF Init, Ledger!Init, Ledger!NewWallet, NewRow, Wallets, WalletOf

\* A commit, by what Pending says of it, is a step of CreditLedger.
LEMMA CommitImplements ==
  ASSUME IInv, NEW p \in Procs, Commit(p) PROVE Ledger!Commit
<1>1. ASSUME NEW u \in Users
      PROVE  /\ WalletOf(u)' \in Ledger!Wallet
             /\ Ledger!MayBecome(WalletOf(u), WalletOf(u)')
  <2>1. /\ db[u] \in Row /\ ledger[u] \in Entry /\ expired[u] \in Int
        /\ db'[u] \in Row /\ ledger'[u] \in Entry /\ expired'[u] = expired[u]
    BY CommitTables DEF IInv, TypeOK
  <2>2. WalletOf(u)' \in Ledger!Wallet
    BY <2>1 DEF WalletOf, Ledger!Wallet, Row, Entry
  <2>3. /\ ledger'[u].charged = ledger[u].charged + rows[p][u].charged
        /\ ledger'[u].credited = ledger[u].credited + rows[p][u].credited
        /\ rows[p][u].charged \in Nat /\ rows[p][u].credited \in Nat
        /\ (db'[u].balance + db'[u].frozen) - (db[u].balance + db[u].frozen)
              = rows[p][u].credited - rows[p][u].charged
        /\ db'[u].frozen >= 0
        /\ ((db'[u].balance < 0 /\ db'[u].balance < db[u].balance)
              => rows[p][u].charged > 0)
    BY CommitTables
  <2>4. /\ ledger'[u].charged >= ledger[u].charged
        /\ ledger'[u].credited >= ledger[u].credited
        /\ ((db'[u].balance < 0 /\ db'[u].balance < db[u].balance)
              => ledger'[u].charged > ledger[u].charged)
    BY <2>1, <2>3 DEF Entry
  <2>5. (db'[u].balance + db'[u].frozen) - (db[u].balance + db[u].frozen)
          = (ledger'[u].credited - ledger'[u].charged - expired'[u])
              - (ledger[u].credited - ledger[u].charged - expired[u])
    <3> DEFINE d == (db'[u].balance + db'[u].frozen) - (db[u].balance + db[u].frozen)
               cr == ledger[u].credited
               ch == ledger[u].charged
               cr2 == ledger'[u].credited
               ch2 == ledger'[u].charged
               dcr == rows[p][u].credited
               dch == rows[p][u].charged
               ex == expired[u]
    <3>1. /\ d = dcr - dch /\ cr2 = cr + dcr /\ ch2 = ch + dch
          /\ cr \in Int /\ ch \in Int /\ dcr \in Int /\ dch \in Int /\ ex \in Int
      BY <2>1, <2>3 DEF Entry
    <3> HIDE DEF d, cr, ch, cr2, ch2, dcr, dch, ex
    <3>2. d = (cr2 - ch2 - ex) - (cr - ch - ex)
      BY <3>1
    <3> QED
      BY <2>1, <3>2 DEF d, cr, ch, cr2, ch2, ex
  <2> QED
    BY <2>1, <2>2, <2>3, <2>4, <2>5
       DEF WalletOf, Ledger!MayBecome, Ledger!Worth, Ledger!Booked
<1> QED
  BY <1>1 DEF Ledger!Commit, Wallets

\* The UPDATE of the expiry job is an expiry of CreditLedger.
LEMMA ExpiryWriteImplements ==
  ASSUME IInv, NEW u \in Users, ExpiryWrite(u) PROVE Ledger!Expire(u)
<1>1. /\ ledger' = ledger
      /\ \A w \in Users : /\ db'[w].balance = IF w = u THEN 0 ELSE db[w].balance
                          /\ db'[w].frozen = db[w].frozen
                          /\ expired'[w] = IF w = u THEN expired[w] + db[w].balance
                                                    ELSE expired[w]
  BY DEF ExpiryWrite, IInv, TypeOK, Row
<1> QED
  BY <1>1 DEF Ledger!Expire, Ledger!Expired, Wallets, WalletOf

\* Every step that leaves the tables alone is a stutter of CreditLedger.
LEMMA StepImplements == IInv /\ [Next]_vars => [Ledger!Next]_Wallets
<1> SUFFICES ASSUME IInv, [Next]_vars PROVE Ledger!Next \/ UNCHANGED Wallets
  OBVIOUS
<1>1. UNCHANGED tables => UNCHANGED Wallets
  BY DEF tables, Wallets, WalletOf
<1>2. CASE UNCHANGED vars
  BY <1>1, <1>2 DEF vars
<1>3. ASSUME NEW p \in Procs, Process(p)
      PROVE  Ledger!Next \/ UNCHANGED Wallets
  <2>1. CASE Commit(p)
    BY <2>1, CommitImplements DEF Ledger!Next
  <2>2. CASE ~ Commit(p)
    BY <1>1, <1>3, <2>2
       DEF Process, Begin, LedgerCall, FreezeCredits, UnfreezeCredits,
           CreateCreditTransaction, Enter, Statement, InsertFrom, InsertTo, LockUser,
           RefuseFreeze, UpdateFreeze, UpdateUnfreeze, UpdateCharged, UpdateCredited,
           Write, Rollback, DeadlockAbort
  <2> QED
    BY <2>1, <2>2
<1>4. CASE Expiry
  BY <1>1, <1>4, ExpiryWriteImplements
     DEF Expiry, ExpiryScan, ExpirySkip, Ledger!Next
<1> QED
  BY <1>2, <1>3, <1>4 DEF Next

\* The statements of credits.ts, interleaved in any way, do only what atomic
\* transactions of CreditLedger do: rows account for every change, frozen credits
\* stay non-negative and only a booked charge overdraws a balance.
THEOREM LedgerRefinement == Spec => ImplementsLedger
BY InitImplements, StepImplements, Invariance, PTL
   DEF Spec, ImplementsLedger, Ledger!Spec
=============================================================================
