----------------------- MODULE RequestHandlersProofs -----------------------
(***************************************************************************)
(* What the proofs about the single services use of RequestHandlers: which *)
(* handlers a step moves, and that a handler which runs while none has     *)
(* overlapped is the only one; and what they use of sums over finite sets  *)
(* and of division.                                                        *)
(***************************************************************************)
EXTENDS RequestHandlers, Functions, FiniteSetTheorems, WellFoundedInduction, TLAPS

\* Only h is at a statement.
OnlyOne(h) == \A g \in Handlers \ {h} : at[g] = "idle"

\* As long as none has overlapped, one handler at most is at a statement.
Sequential == ~overlapped => \A g \in Handlers : at[g] # "idle" => OnlyOne(g)

\* The handlers' bounds.
Bounded == begun \in 0..MaxRequests /\ faults \in 0..MaxFaults /\ overlapped \in BOOLEAN

\* h goes to l and the others stay.
MovesTo(h, l) == at'[h] = l /\ \A g \in Handlers \ {h} : at'[g] = at[g]

-----------------------------------------------------------------------------
\* A handler that goes on is alone if it was.
LEMMA ContinueMoves ==
  ASSUME NEW Labels, at \in [Handlers -> Labels], Bounded, Sequential,
         NEW h \in Handlers, NEW l \in Labels, Continue(h, l), at[h] # "idle"
  PROVE  /\ at' \in [Handlers -> Labels] /\ Bounded' /\ Sequential'
         /\ MovesTo(h, l)
         /\ begun' = begun /\ faults' = faults /\ overlapped' = overlapped
         /\ ~overlapped => OnlyOne(h)
<1>1. at' = [at EXCEPT ![h] = l] /\ begun' = begun /\ faults' = faults /\ overlapped' = overlapped
  BY DEF Continue, Goto
<1>2. at' \in [Handlers -> Labels] /\ MovesTo(h, l)
  BY <1>1 DEF MovesTo
<1>3. ~overlapped => OnlyOne(h)
  BY DEF Sequential
<1>4. Sequential'
  BY <1>1, <1>2, <1>3 DEF Sequential, OnlyOne, MovesTo
<1> QED
  BY <1>1, <1>2, <1>3, <1>4 DEF Bounded

\* A handler that takes up a job is alone unless it overlaps another one.
LEMMA DeliverMoves ==
  ASSUME NEW Labels, at \in [Handlers -> Labels], overlapped \in BOOLEAN, Sequential,
         NEW h \in Handlers, NEW l \in Labels, Deliver(h, l)
  PROVE  /\ at' \in [Handlers -> Labels] /\ Sequential' /\ overlapped' \in BOOLEAN
         /\ MovesTo(h, l) /\ at[h] = "idle"
         /\ faults' = faults
         /\ ~overlapped' => ~overlapped /\ AtRest
<1>1. at' = [at EXCEPT ![h] = l] /\ at[h] = "idle" /\ faults' = faults
  BY DEF Deliver, Goto
<1>2. overlapped' = (overlapped \/ \E g \in Handlers : at[g] # "idle")
  BY DEF Deliver
<1>3. at' \in [Handlers -> Labels] /\ MovesTo(h, l)
  BY <1>1 DEF MovesTo
<1>4. ~overlapped' => ~overlapped /\ \A g \in Handlers : at[g] = "idle"
  BY <1>2
<1>5. (\A g \in Handlers : at[g] = "idle") => AtRest
  BY DEF AtRest, Idle
<1>6. Sequential'
  BY <1>3, <1>4 DEF Sequential, OnlyOne, MovesTo
<1> QED
  BY <1>1, <1>2, <1>3, <1>4, <1>5, <1>6

\* The same of a request, which is counted.
LEMMA BeginMoves ==
  ASSUME NEW Labels, at \in [Handlers -> Labels], Bounded, Sequential,
         NEW h \in Handlers, NEW l \in Labels, Begin(h, l)
  PROVE  /\ at' \in [Handlers -> Labels] /\ Bounded' /\ Sequential'
         /\ MovesTo(h, l) /\ at[h] = "idle"
         /\ begun < MaxRequests /\ begun' = begun + 1 /\ faults' = faults
         /\ ~overlapped' => ~overlapped /\ AtRest
<1>1. Deliver(h, l) /\ begun < MaxRequests /\ begun' = begun + 1
  BY DEF Begin
<1>2. faults' = faults /\ overlapped' \in BOOLEAN
  BY <1>1, DeliverMoves DEF Bounded
<1>3. begun' \in 0..MaxRequests
  BY <1>1, HandlerBoundAssumption DEF Bounded
<1> QED
  BY <1>1, <1>2, <1>3, DeliverMoves DEF Bounded

\* A handler that the database refuses a statement, or that dies.
LEMMA RefusedMoves ==
  ASSUME NEW Labels, at \in [Handlers -> Labels], Bounded, Sequential,
         NEW h \in Handlers, NEW l \in Labels, Refused(h, l), at[h] # "idle"
  PROVE  /\ at' \in [Handlers -> Labels] /\ Bounded' /\ Sequential'
         /\ MovesTo(h, l)
         /\ begun' = begun /\ faults' = faults + 1 /\ overlapped' = overlapped
         /\ ~overlapped => OnlyOne(h)
<1>1. at' = [at EXCEPT ![h] = l] /\ begun' = begun /\ faults' = faults + 1 /\ overlapped' = overlapped
  BY DEF Refused, Goto
<1>2. at' \in [Handlers -> Labels] /\ MovesTo(h, l)
  BY <1>1 DEF MovesTo
<1>3. ~overlapped => OnlyOne(h)
  BY DEF Sequential
<1>4. Sequential'
  BY <1>1, <1>2, <1>3 DEF Sequential, OnlyOne, MovesTo
<1>5. faults' \in 0..MaxFaults
  BY HandlerBoundAssumption DEF Bounded, Refused
<1>6. Bounded'
  BY <1>1, <1>5 DEF Bounded
<1> QED
  BY <1>1, <1>2, <1>3, <1>4, <1>6

\* A step of handler h, which goes to l: it takes up a request, goes on, or is cut off.
HandlerStep(h, l) ==
    \/ Begin(h, l)
    \/ at[h] # "idle" /\ (Continue(h, l) \/ Refused(h, l))

\* All steps of a handler have in common that it runs alone as long as none has overlapped.
LEMMA HandlerSteps ==
  ASSUME NEW Labels, at \in [Handlers -> Labels], Bounded, Sequential,
         NEW h \in Handlers, NEW l \in Labels, HandlerStep(h, l)
  PROVE  /\ at' \in [Handlers -> Labels] /\ Bounded' /\ Sequential'
         /\ MovesTo(h, l) /\ faults <= faults'
         /\ ~overlapped' =>
               ~overlapped /\ \A g \in Handlers \ {h} : at[g] = "idle" /\ at'[g] = "idle"
<1>f. faults \in Int
  BY DEF Bounded
<1>1. CASE Begin(h, l)
  <2>1. /\ at' \in [Handlers -> Labels] /\ Bounded' /\ Sequential' /\ MovesTo(h, l)
        /\ faults' = faults /\ (~overlapped' => ~overlapped /\ AtRest)
    BY <1>1, BeginMoves
  <2>2. AtRest => \A g \in Handlers : at[g] = "idle"
    BY DEF AtRest, Idle
  <2> QED
    BY <1>f, <2>1, <2>2 DEF MovesTo
<1>2. CASE at[h] # "idle" /\ Continue(h, l)
  <2>1. /\ at' \in [Handlers -> Labels] /\ Bounded' /\ Sequential' /\ MovesTo(h, l)
        /\ faults' = faults /\ overlapped' = overlapped /\ (~overlapped => OnlyOne(h))
    BY <1>2, ContinueMoves
  <2> QED
    BY <1>f, <2>1 DEF MovesTo, OnlyOne
<1>3. CASE at[h] # "idle" /\ Refused(h, l)
  <2>1. /\ at' \in [Handlers -> Labels] /\ Bounded' /\ Sequential' /\ MovesTo(h, l)
        /\ faults' = faults + 1 /\ overlapped' = overlapped /\ (~overlapped => OnlyOne(h))
    BY <1>3, RefusedMoves
  <2> QED
    BY <1>f, <2>1 DEF MovesTo, OnlyOne
<1> QED
  BY <1>1, <1>2, <1>3 DEF HandlerStep

\* Initially all handlers are idle.
LEMMA InitBounded ==
  ASSUME HandlersInit
  PROVE  at = Idle /\ begun = 0 /\ faults = 0 /\ Bounded /\ Sequential
<1>1. begun \in 0..MaxRequests /\ faults \in 0..MaxFaults
  BY HandlerBoundAssumption DEF HandlersInit
<1>2. overlapped \in BOOLEAN
  BY DEF HandlersInit
<1>3. Sequential
  BY DEF HandlersInit, Sequential, Idle
<1> QED
  BY <1>1, <1>2, <1>3 DEF HandlersInit, Bounded

\* Nothing moves when the handlers' state stays the same.
LEMMA StillSequential ==
  ASSUME Bounded, Sequential, UNCHANGED handlerVars
  PROVE  Bounded' /\ Sequential'
BY DEF Bounded, Sequential, OnlyOne, handlerVars

-----------------------------------------------------------------------------
(* Sums over finite sets *)

\* Induction: a set that holds 0 and the successor of each of its members holds every
\* natural number.
LEMMA NatSetInduction ==
  ASSUME NEW S, 0 \in S, \A n \in Nat : n \in S => n + 1 \in S
  PROVE  Nat \subseteq S
<1> SUFFICES ASSUME Nat \ S # {} PROVE FALSE
  OBVIOUS
<1> DEFINE T == Nat \ S
<1>1. PICK m \in T : \A y \in T : ~ (<<y, m>> \in OpToRel(<, Nat))
  BY WFMin, NatLessThanWellFounded
<1>2. \A y \in T : ~(y < m)
  BY <1>1 DEF OpToRel
<1>3. m # 0 /\ m \in Nat
  OBVIOUS
<1>4. m - 1 \in Nat /\ m - 1 < m
  BY <1>3
<1>5. m - 1 \in S
  BY <1>2, <1>4
<1>6. m - 1 + 1 \in S
  BY <1>4, <1>5
<1> QED
  BY <1>3, <1>6

\* Sizes of the subsets of a finite set.
LEMMA SubsetSizes ==
  ASSUME NEW S, IsFiniteSet(S), NEW T \in SUBSET S
  PROVE  /\ IsFiniteSet(T) /\ Cardinality(T) \in Nat
         /\ (Cardinality(T) = 0 <=> T = {})
         /\ \A x \in T : Cardinality(T \ {x}) = Cardinality(T) - 1
BY FS_Subset, FS_EmptySet, FS_CardinalityType, FS_RemoveElement

\* Induction over the subsets of a finite set: from those that lack one element.
LEMMA FiniteSetInduction ==
  ASSUME NEW S, IsFiniteSet(S), NEW G,
         \A T \in SUBSET S : (\A x \in T : T \ {x} \in G) => T \in G
  PROVE  SUBSET S \subseteq G
<1> DEFINE N == {n \in Nat : \A T \in SUBSET S : Cardinality(T) = n => T \in G}
<1>1. 0 \in N
  BY SubsetSizes
<1>2. ASSUME NEW n \in Nat, n \in N
      PROVE  n + 1 \in N
  <2> SUFFICES ASSUME NEW T \in SUBSET S, Cardinality(T) = n + 1
               PROVE  T \in G
    OBVIOUS
  <2>1. \A x \in T : Cardinality(T \ {x}) = n
    BY SubsetSizes
  <2> QED
    BY <1>2, <2>1
<1>3. Nat \subseteq N
  <2> HIDE DEF N
  <2> QED
    BY <1>1, <1>2, NatSetInduction
<1> QED
  BY <1>3, SubsetSizes

\* FoldFunction and SumFunction of module Functions are sums over the domain.
SumOver(f, S) == FoldFunctionOnSet(LAMBDA m, n : m + n, 0, f, S)

\* How a fold goes over a set.
AnyOf(s) == CHOOSE y \in s : TRUE
SumStep(f, it, s) == IF s = {} THEN 0 ELSE f[AnyOf(s)] + it[s \ {AnyOf(s)}]
IsSum(f, it, S) == it = [s \in S |-> SumStep(f, it, s)]

\* The sum is an entry of the table of the sums over all subsets.
LEMMA SumIs ==
  ASSUME NEW f, NEW S
  PROVE  SumOver(f, S) = (CHOOSE it : IsSum(f, it, SUBSET S))[S]
BY Zenon DEF SumOver, FoldFunctionOnSet, MapThenFoldSet, IsSum, SumStep, AnyOf

\* That table exists: it is built for larger and larger subsets.
LEMMA SumExists ==
  ASSUME NEW f, NEW S, IsFiniteSet(S)
  PROVE  \E it : IsSum(f, it, SUBSET S)
<1> DEFINE D(n) == {s \in SUBSET S : Cardinality(s) <= n}
           N == {n \in Nat : \E it : IsSum(f, it, D(n))}
<1>0. \A s \in SUBSET S : /\ Cardinality(s) \in Nat /\ (Cardinality(s) = 0 <=> s = {})
                          /\ s # {} => Cardinality(s \ {AnyOf(s)}) = Cardinality(s) - 1
  BY SubsetSizes DEF AnyOf
<1>1. 0 \in N
  <2>1. \A s \in D(0) : s = {}
    BY SubsetSizes
  <2>2. IsSum(f, [s \in D(0) |-> 0], D(0))
    BY <2>1 DEF IsSum, SumStep
  <2> QED
    BY <2>2
<1>2. ASSUME NEW n \in Nat, n \in N
      PROVE  n + 1 \in N
  <2>1. PICK g : IsSum(f, g, D(n))
    BY <1>2
  <2> DEFINE e == [s \in D(n + 1) |-> SumStep(f, g, s)]
  <2>2. D(n) \subseteq D(n + 1)
    BY SubsetSizes
  <2>3. \A s \in D(n) : e[s] = g[s]
    BY <2>1, <2>2 DEF IsSum
  <2>4. \A s \in D(n + 1) : s # {} => s \ {AnyOf(s)} \in D(n)
    BY <1>0
  <2> HIDE DEF D
  <2>5. \A s \in D(n + 1) : SumStep(f, e, s) = SumStep(f, g, s)
    <3> HIDE DEF e
    <3> QED
      BY <2>3, <2>4 DEF SumStep
  <2>6. IsSum(f, e, D(n + 1))
    BY <2>5 DEF IsSum
  <2> QED
    BY <2>6
<1>3. Nat \subseteq N
  <2> HIDE DEF N
  <2> QED
    BY <1>1, <1>2, NatSetInduction
<1>4. Cardinality(S) \in Nat /\ Cardinality(S) \in N
  BY <1>3, <1>0
<1>5. D(Cardinality(S)) = SUBSET S
  BY FS_Subset, <1>0
<1> QED
  BY <1>4, <1>5

\* Any two such tables agree.
LEMMA SumAgree ==
  ASSUME NEW f, NEW S, IsFiniteSet(S), NEW g, NEW h, NEW U, SUBSET S \subseteq U,
         IsSum(f, g, SUBSET S), IsSum(f, h, U)
  PROVE  g[S] = h[S]
<1> DEFINE G == {s \in SUBSET S : g[s] = h[s]}
<1>1. \A s \in SUBSET S : g[s] = SumStep(f, g, s) /\ h[s] = SumStep(f, h, s)
  BY DEF IsSum
<1>2. ASSUME NEW s \in SUBSET S, \A x \in s : s \ {x} \in G
      PROVE  s \in G
  <2>1. s # {} => AnyOf(s) \in s
    BY DEF AnyOf
  <2> QED
    BY <1>1, <1>2, <2>1 DEF SumStep
<1>3. SUBSET S \subseteq G
  <2> HIDE DEF G
  <2> QED
    BY <1>2, FiniteSetInduction
<1> QED
  BY <1>3

\* The sum over a set is an element's value and the sum over the others.
LEMMA SumChoose ==
  ASSUME NEW f, NEW S, IsFiniteSet(S)
  PROVE  /\ S = {} => SumOver(f, S) = 0
         /\ S # {} => /\ AnyOf(S) \in S
                      /\ SumOver(f, S) = f[AnyOf(S)] + SumOver(f, S \ {AnyOf(S)})
<1> DEFINE It(T) == CHOOSE it : IsSum(f, it, SUBSET T)
           R == S \ {AnyOf(S)}
<1>1. IsFiniteSet(R)
  BY FS_Subset
<1>2. IsSum(f, It(S), SUBSET S) /\ IsSum(f, It(R), SUBSET R)
  BY <1>1, SumExists
<1>3. SumOver(f, S) = It(S)[S] /\ SumOver(f, R) = It(R)[R]
  BY SumIs
<1> HIDE DEF It
<1>4. It(S)[S] = SumStep(f, It(S), S)
  BY <1>2 DEF IsSum
<1>5. It(R)[R] = It(S)[R]
  <2>1. SUBSET R \subseteq SUBSET S
    OBVIOUS
  <2> QED
    BY <1>1, <1>2, <2>1, SumAgree
<1>6. S # {} => AnyOf(S) \in S
  BY DEF AnyOf
<1> QED
  BY <1>3, <1>4, <1>5, <1>6 DEF SumStep

\* Sums of integers are integers, ...
LEMMA SumInt ==
  ASSUME NEW S, IsFiniteSet(S), NEW f, \A x \in S : f[x] \in Int
  PROVE  SumOver(f, S) \in Int
<1> DEFINE G == {T \in SUBSET S : SumOver(f, T) \in Int}
<1>1. ASSUME NEW T \in SUBSET S, \A x \in T : T \ {x} \in G
      PROVE  T \in G
  <2>1. IsFiniteSet(T)
    BY FS_Subset
  <2>2. T # {} => AnyOf(T) \in T /\ T \ {AnyOf(T)} \in G
    BY <1>1 DEF AnyOf
  <2>3. T # {} => f[AnyOf(T)] \in Int /\ SumOver(f, T \ {AnyOf(T)}) \in Int
    BY <2>2
  <2> QED
    BY <2>1, <2>3, SumChoose
<1>2. SUBSET S \subseteq G
  <2> HIDE DEF G
  <2> QED
    BY <1>1, FiniteSetInduction
<1> QED
  BY <1>2

\* ... and any element can be the one that is taken out.
LEMMA SumRemove ==
  ASSUME NEW S, IsFiniteSet(S), NEW f, \A x \in S : f[x] \in Int
  PROVE  \A x \in S : SumOver(f, S) = f[x] + SumOver(f, S \ {x})
<1> DEFINE Q(T) == \A x \in T : SumOver(f, T) = f[x] + SumOver(f, T \ {x})
           G == {T \in SUBSET S : Q(T)}
<1>1. ASSUME NEW T \in SUBSET S, \A x \in T : T \ {x} \in G
      PROVE  T \in G
  <2> SUFFICES ASSUME NEW x \in T
               PROVE  SumOver(f, T) = f[x] + SumOver(f, T \ {x})
    OBVIOUS
  <2> DEFINE a == AnyOf(T)
             B == (T \ {a}) \ {x}
  <2>1. a \in T /\ SumOver(f, T) = f[a] + SumOver(f, T \ {a})
    BY FS_Subset, SumChoose
  <2>2. CASE x = a
    BY <2>1, <2>2
  <2>3. CASE x # a
    <3>1. Q(T \ {a}) /\ Q(T \ {x})
      BY <1>1, <2>1
    <3>2. SumOver(f, T \ {a}) = f[x] + SumOver(f, B)
      BY <3>1, <2>3
    <3>3. (T \ {x}) \ {a} = B
      OBVIOUS
    <3>4. SumOver(f, T \ {x}) = f[a] + SumOver(f, B)
      BY <3>1, <3>3, <2>3, <2>1
    <3>5. SumOver(f, B) \in Int /\ f[x] \in Int /\ f[a] \in Int
      BY SumInt, FS_Subset, <2>1
    <3> HIDE DEF a, B, Q, G
    <3> QED
      BY <2>1, <3>2, <3>4, <3>5
  <2> QED
    BY <2>2, <2>3
<1>2. SUBSET S \subseteq G
  <2> HIDE DEF G
  <2> QED
    BY <1>1, FiniteSetInduction
<1> QED
  BY <1>2

\* Only the values of the elements matter.
LEMMA SumSame ==
  ASSUME NEW S, IsFiniteSet(S), NEW f, NEW g, \A x \in S : f[x] = g[x]
  PROVE  SumOver(f, S) = SumOver(g, S)
<1> DEFINE G == {T \in SUBSET S : SumOver(f, T) = SumOver(g, T)}
<1>1. ASSUME NEW T \in SUBSET S, \A x \in T : T \ {x} \in G
      PROVE  T \in G
  <2>1. IsFiniteSet(T)
    BY FS_Subset
  <2>2. T # {} => AnyOf(T) \in T /\ T \ {AnyOf(T)} \in G
    BY <1>1 DEF AnyOf
  <2> QED
    BY <2>1, <2>2, SumChoose
<1>2. SUBSET S \subseteq G
  <2> HIDE DEF G
  <2> QED
    BY <1>1, FiniteSetInduction
<1> QED
  BY <1>2

\* Zeros add up to zero.
LEMMA SumZero ==
  ASSUME NEW S, IsFiniteSet(S), NEW f, \A x \in S : f[x] = 0
  PROVE  SumOver(f, S) = 0
<1> DEFINE G == {T \in SUBSET S : SumOver(f, T) = 0}
<1>1. ASSUME NEW T \in SUBSET S, \A x \in T : T \ {x} \in G
      PROVE  T \in G
  <2>1. IsFiniteSet(T)
    BY FS_Subset
  <2>2. T # {} => AnyOf(T) \in T /\ T \ {AnyOf(T)} \in G
    BY <1>1 DEF AnyOf
  <2> QED
    BY <2>1, <2>2, SumChoose
<1>2. SUBSET S \subseteq G
  <2> HIDE DEF G
  <2> QED
    BY <1>1, FiniteSetInduction
<1> QED
  BY <1>2

\* One value is replaced by another.
LEMMA SumUpdate ==
  ASSUME NEW S, IsFiniteSet(S), NEW f, NEW g, NEW x \in S,
         \A y \in S : f[y] \in Int /\ g[y] \in Int,
         \A y \in S \ {x} : g[y] = f[y]
  PROVE  SumOver(g, S) = SumOver(f, S) - f[x] + g[x]
<1>1. IsFiniteSet(S \ {x})
  BY FS_Subset
<1>2. SumOver(g, S \ {x}) = SumOver(f, S \ {x}) /\ SumOver(f, S \ {x}) \in Int
  BY <1>1, SumSame, SumInt
<1>3. SumOver(f, S) = f[x] + SumOver(f, S \ {x}) /\ SumOver(g, S) = g[x] + SumOver(g, S \ {x})
  BY SumRemove
<1> QED
  BY <1>2, <1>3

\* Natural numbers add up to one that is at least each of them.
LEMMA SumNat ==
  ASSUME NEW S, IsFiniteSet(S), NEW f, \A x \in S : f[x] \in Nat
  PROVE  SumOver(f, S) \in Nat /\ \A x \in S : f[x] <= SumOver(f, S)
<1> DEFINE G == {T \in SUBSET S : SumOver(f, T) \in Nat}
<1>1. ASSUME NEW T \in SUBSET S, \A x \in T : T \ {x} \in G
      PROVE  T \in G
  <2>1. IsFiniteSet(T)
    BY FS_Subset
  <2>2. T # {} => f[AnyOf(T)] \in Nat /\ SumOver(f, T \ {AnyOf(T)}) \in Nat
    BY <1>1 DEF AnyOf
  <2> QED
    BY <2>1, <2>2, SumChoose
<1>2. SUBSET S \subseteq G
  <2> HIDE DEF G
  <2> QED
    BY <1>1, FiniteSetInduction
<1>3. ASSUME NEW x \in S PROVE f[x] <= SumOver(f, S)
  <2>1. SumOver(f, S) = f[x] + SumOver(f, S \ {x})
    BY SumRemove
  <2>2. SumOver(f, S \ {x}) \in Nat /\ f[x] \in Nat
    BY <1>2
  <2> QED
    BY <2>1, <2>2
<1> QED
  BY <1>2, <1>3

\* The sum over the first n.
LEMMA SumUpTo ==
  ASSUME NEW M \in Nat, NEW c, \A i \in 1..M : c[i] \in Int
  PROVE  /\ SumOver(c, 1..0) = 0
         /\ \A n \in 1..M : SumOver(c, 1..n) = SumOver(c, 1..n - 1) + c[n]
<1>1. 1..0 = {} /\ IsFiniteSet({})
  BY FS_EmptySet
<1>2. SumOver(c, 1..0) = 0
  BY <1>1, SumChoose
<1>3. ASSUME NEW n \in 1..M PROVE SumOver(c, 1..n) = SumOver(c, 1..n - 1) + c[n]
  <2> DEFINE S == 1..n
             T == 1..n - 1
  <2>1. IsFiniteSet(S) /\ IsFiniteSet(T)
    <3>1. n \in Int /\ n - 1 \in Int
      OBVIOUS
    <3> QED
      BY <3>1, FS_Interval
  <2>2. S \ {n} = T /\ n \in S /\ \A i \in S : c[i] \in Int
    OBVIOUS
  <2>3. \A i \in T : c[i] \in Int
    OBVIOUS
  <2> HIDE DEF S, T
  <2>4. SumOver(c, S) = c[n] + SumOver(c, T)
    BY <2>1, <2>2, SumRemove
  <2>5. SumOver(c, T) \in Int /\ c[n] \in Int
    BY <2>1, <2>2, <2>3, SumInt
  <2>6. SumOver(c, S) = SumOver(c, T) + c[n]
    BY <2>4, <2>5
  <2> QED
    BY <2>6 DEF S, T
<1> QED
  BY <1>2, <1>3

\* A table of running totals ends with the sum.
LEMMA RunningTotals ==
  ASSUME NEW M \in Nat, NEW c, \A i \in 1..M : c[i] \in Int,
         NEW o, o = [n \in 0..M |-> IF n = 0 THEN 0 ELSE o[n - 1] + c[n]]
  PROVE  o[M] = SumOver(c, 1..M)
<1> DEFINE N == {n \in Nat : n <= M => o[n] = SumOver(c, 1..n)}
<1>1. 0 \in N
  BY SumUpTo
<1>2. ASSUME NEW n \in Nat, n \in N PROVE n + 1 \in N
  <2> SUFFICES ASSUME n + 1 <= M PROVE o[n + 1] = SumOver(c, 1..n + 1)
    OBVIOUS
  <2>1. n + 1 \in 1..M /\ n + 1 \in 0..M /\ n + 1 - 1 = n /\ n <= M
    OBVIOUS
  <2>2. o[n + 1] = o[n] + c[n + 1]
    BY <2>1
  <2>3. \A m \in 1..M : SumOver(c, 1..m) = SumOver(c, 1..m - 1) + c[m]
    BY SumUpTo
  <2>4. SumOver(c, 1..n + 1) = SumOver(c, 1..n + 1 - 1) + c[n + 1]
    BY <2>1, <2>3
  <2> QED
    BY <1>2, <2>1, <2>2, <2>4
<1>3. Nat \subseteq N
  <2> HIDE DEF N
  <2> QED
    BY <1>1, <1>2, NatSetInduction
<1> QED
  BY <1>3

\* There is such a table.
LEMMA TotalsExist ==
  ASSUME NEW M \in Nat, NEW c, \A i \in 1..M : c[i] \in Int
  PROVE  \E o : o = [n \in 0..M |-> IF n = 0 THEN 0 ELSE o[n - 1] + c[n]]
<1> DEFINE o == [n \in 0..M |-> SumOver(c, 1..n)]
<1>1. ASSUME NEW n \in 0..M PROVE o[n] = IF n = 0 THEN 0 ELSE o[n - 1] + c[n]
  <2>1. CASE n = 0
    BY <2>1, SumUpTo
  <2>2. CASE n # 0
    <3>1. n \in 1..M /\ n - 1 \in 0..M
      BY <2>2
    <3> QED
      BY <2>2, <3>1, SumUpTo
  <2> QED
    BY <2>1, <2>2
<1>2. o = [n \in 0..M |-> IF n = 0 THEN 0 ELSE o[n - 1] + c[n]]
  BY <1>1
<1> QED
  BY <1>2

-----------------------------------------------------------------------------
(* Division *)

\* Division with a remainder.
LEMMA Quotient ==
  ASSUME NEW e \in Nat \ {0}, NEW t \in Nat
  PROVE  /\ t \div e \in Nat /\ t % e \in 0..e - 1
         /\ t = e * (t \div e) + (t % e)
OBVIOUS

\* One of two factors that grows makes the product grow.
LEMMA ProductGrows ==
  ASSUME NEW e \in Nat, NEW a \in Int, NEW b \in Int, a <= b
  PROVE  e * a <= e * b
OBVIOUS

LEMMA QuotientIsLargest ==
  ASSUME NEW e \in Nat \ {0}, NEW t \in Nat, NEW k \in Nat
  PROVE  k * e <= t <=> k <= t \div e
<1> DEFINE q == t \div e
           r == t % e
<1>1. q \in Nat /\ r \in 0..e - 1 /\ t = e * q + r
  BY Quotient
<1> HIDE DEF q, r
<1>2. ASSUME k <= q PROVE k * e <= t
  BY <1>1, <1>2, ProductGrows
<1>3. ASSUME q < k PROVE t < k * e
  <2>1. e * (q + 1) <= e * k
    BY <1>1, <1>3, ProductGrows
  <2>2. e * (q + 1) = e * q + e /\ e * k = k * e
    BY <1>1
  <2> QED
    BY <1>1, <2>1, <2>2
<1>4. k * e \in Nat
  OBVIOUS
<1> QED
  BY <1>1, <1>2, <1>3, <1>4 DEF q
=============================================================================
