--------------------------- MODULE AgentLoopProofs ---------------------------
(***************************************************************************)
(* Proofs about AiBudget and AgentLoop, for every set of agents, every       *)
(* number of attempts and calls, and every reply of a model. The invariant,  *)
(* LoopInv, says of each attempt what it may remember of its call at each    *)
(* point; sums over calls come first.                                        *)
(***************************************************************************)
EXTENDS AgentLoop, FiniteSetTheorems, WellFoundedInduction, TLAPS

(* Sums over finite sets. *)

LEMMA LeastOf ==
  ASSUME NEW R, IsWellFoundedOn(R, Nat), \A x, y \in Nat : y < x => <<y, x>> \in R,
         NEW T, T \subseteq Nat, T # {}
  PROVE  \E x \in T : \A y \in T : x <= y
<1>1. PICK x \in T : \A y \in T : ~(<<y, x>> \in R)
  BY WFMin
<1>2. ASSUME NEW y \in T PROVE x <= y
  <2>1. x \in Nat /\ y \in Nat
    OBVIOUS
  <2>2. ~(y < x)
    BY <1>1, <2>1
  <2> QED BY <2>1, <2>2
<1> QED BY <1>2

LEMMA LeastNatural ==
  ASSUME NEW T, T \subseteq Nat, T # {} PROVE \E x \in T : \A y \in T : x <= y
<1> DEFINE R == OpToRel(<, Nat)
<1>1. IsWellFoundedOn(R, Nat)
  BY NatLessThanWellFounded
<1>2. \A x, y \in Nat : y < x => <<y, x>> \in R
  <2>1. R = {ss \in Nat \X Nat : ss[1] < ss[2]}
    BY Zenon DEF OpToRel
  <2> HIDE DEF R
  <2> QED BY <2>1
<1> HIDE DEF R
<1> QED BY <1>1, <1>2, LeastOf

\* Some element of a nonempty set, and what remains of the set.
Any(T) == CHOOSE x \in T : TRUE
Rest(T) == T \ {Any(T)}

\* sum is the sum of f over each set of a family of finite sets.
Sums(sum, D, f) ==
  /\ sum \in [D -> Int]
  /\ \A T \in D : sum[T] = IF T = {} THEN 0 ELSE f[Any(T)] + sum[Rest(T)]

UpTo(S, n) == {T \in SUBSET S : Cardinality(T) <= n}

\* What remains of a set of at most n + 1 elements has at most n.
LEMMA RestSmaller ==
  ASSUME NEW S, IsFiniteSet(S), NEW T \in SUBSET S, T # {}
  PROVE  /\ Any(T) \in T /\ Rest(T) \in SUBSET S
         /\ Cardinality(T) \in Nat /\ Cardinality(Rest(T)) = Cardinality(T) - 1
<1>1. Any(T) \in T
  BY Zenon DEF Any
<1>2. IsFiniteSet(T)
  BY FS_Subset
<1>3. Cardinality(Rest(T)) = Cardinality(T) - 1
  BY <1>1, <1>2, FS_RemoveElement DEF Rest
<1> QED BY <1>1, <1>2, <1>3, FS_CardinalityType DEF Rest

\* The recursive function that SumOver chooses exists.
LEMMA SumsStep ==
  ASSUME NEW S, IsFiniteSet(S), NEW f \in [S -> Int], NEW n \in Nat,
         NEW sum, Sums(sum, UpTo(S, n), f)
  PROVE  \E next : Sums(next, UpTo(S, n + 1), f)
<1> DEFINE D == UpTo(S, n)
           E == UpTo(S, n + 1)
           next == [T \in E |-> IF T \in D THEN sum[T] ELSE f[Any(T)] + sum[Rest(T)]]
<1>1. ASSUME NEW T \in E, T # {} PROVE Rest(T) \in D /\ Any(T) \in S
  BY <1>1, RestSmaller DEF UpTo
<1>2. {} \in D
  BY FS_EmptySet DEF UpTo
<1>3. D \subseteq E
  <2>1. \A T \in SUBSET S : Cardinality(T) \in Nat
    BY FS_Subset, FS_CardinalityType
  <2> QED BY <2>1 DEF UpTo
<1>4. sum \in [D -> Int] /\ \A T \in D : sum[T] = IF T = {} THEN 0 ELSE f[Any(T)] + sum[Rest(T)]
  BY DEF Sums
<1> HIDE DEF D, E
<1>5. next \in [E -> Int]
  <2>1. ASSUME NEW T \in E PROVE next[T] \in Int
    <3>1. CASE T \in D
      BY <1>4, <3>1
    <3>2. CASE T \notin D
      <4>1. Rest(T) \in D /\ Any(T) \in S
        BY <1>1, <1>2, <3>2
      <4>2. sum[Rest(T)] \in Int /\ f[Any(T)] \in Int
        BY <1>4, <4>1
      <4> QED BY <3>2, <4>2
    <3> QED BY <3>1, <3>2
  <2> QED BY <2>1
<1>6. ASSUME NEW T \in E PROVE next[T] = IF T = {} THEN 0 ELSE f[Any(T)] + next[Rest(T)]
  <2>1. CASE T = {}
    BY <1>2, <1>4, <2>1
  <2>2. CASE T # {}
    <3>1. next[Rest(T)] = sum[Rest(T)]
      BY <1>1, <1>3, <2>2
    <3>2. next[T] = f[Any(T)] + sum[Rest(T)]
      BY <1>4, <2>2
    <3> QED BY <2>2, <3>1, <3>2
  <2> QED BY <2>1, <2>2
<1>7. Sums(next, E, f)
  BY <1>5, <1>6 DEF Sums
<1> QED BY <1>7 DEF E

LEMMA SumsExist ==
  ASSUME NEW S, IsFiniteSet(S), NEW f \in [S -> Int]
  PROVE  \E sum : Sums(sum, SUBSET S, f)
<1> DEFINE Bad == {n \in Nat : ~\E sum : Sums(sum, UpTo(S, n), f)}
<1>1. \E sum : Sums(sum, UpTo(S, 0), f)
  <2>1. UpTo(S, 0) = {{}}
    <3>1. ASSUME NEW T \in SUBSET S PROVE Cardinality(T) <= 0 <=> T = {}
      BY FS_Subset, FS_CardinalityType, FS_EmptySet
    <3> QED BY <3>1 DEF UpTo
  <2>2. Sums([T \in {{}} |-> 0], {{}}, f)
    BY DEF Sums
  <2> QED BY <2>1, <2>2
<1>2. Bad = {}
  <2>1. SUFFICES ASSUME Bad # {} PROVE FALSE
    OBVIOUS
  <2>2. PICK n \in Bad : \A m \in Bad : n <= m
    BY <2>1, LeastNatural
  <2>3. n \in Nat /\ n # 0
    BY <1>1
  <2>4. n - 1 \in Nat /\ n - 1 \notin Bad
    BY <2>2, <2>3
  <2>5. PICK sum : Sums(sum, UpTo(S, n - 1), f)
    BY <2>4
  <2>6. \E next : Sums(next, UpTo(S, (n - 1) + 1), f)
    BY <2>4, <2>5, SumsStep
  <2>7. (n - 1) + 1 = n
    BY <2>3
  <2> QED BY <2>6, <2>7
<1>3. Cardinality(S) \in Nat /\ UpTo(S, Cardinality(S)) = SUBSET S
  BY FS_CardinalityType, FS_Subset DEF UpTo
<1>4. Cardinality(S) \notin Bad
  BY <1>2
<1> QED BY <1>3, <1>4

LEMMA SumsTyped ==
  ASSUME NEW S, IsFiniteSet(S), NEW f \in [S -> Int], NEW sum,
         \A T \in SUBSET S : sum[T] = IF T = {} THEN 0 ELSE f[Any(T)] + sum[Rest(T)]
  PROVE  \A T \in SUBSET S : sum[T] \in Int
<1> DEFINE Bad == {T \in SUBSET S : sum[T] \notin Int}
           Sizes == {Cardinality(T) : T \in Bad}
<1>1. SUFFICES ASSUME Bad # {} PROVE FALSE
  OBVIOUS
<1>2. Sizes \subseteq Nat /\ Sizes # {}
  BY <1>1, FS_Subset, FS_CardinalityType
<1>3. PICK n \in Sizes : \A m \in Sizes : n <= m
  <2> HIDE DEF Sizes
  <2> QED BY <1>2, LeastNatural
<1>4. PICK T \in Bad : n = Cardinality(T)
  OBVIOUS
<1>5. T # {}
  OBVIOUS
<1>6. /\ Any(T) \in T /\ Rest(T) \in SUBSET S /\ Cardinality(Rest(T)) < Cardinality(T)
      /\ Cardinality(T) \in Nat /\ Cardinality(Rest(T)) \in Int
  BY <1>5, RestSmaller
<1>7. Rest(T) \notin Bad
  BY <1>3, <1>4, <1>6
<1>8. sum[Rest(T)] \in Int /\ f[Any(T)] \in Int
  BY <1>6, <1>7
<1> QED BY <1>5, <1>8

\* SumOver is the sum that exists.
LEMMA SumOverSums ==
  ASSUME NEW S, IsFiniteSet(S), NEW f \in [S -> Int]
  PROVE  \E sum : Sums(sum, SUBSET S, f) /\ SumOver(S, f) = sum[S]
<1> DEFINE Def(sum) == sum = [T \in SUBSET S |->
                         IF T = {} THEN 0 ELSE LET x == CHOOSE x \in T : TRUE IN f[x] + sum[T \ {x}]]
           it == CHOOSE sum : Def(sum)
<1>1. \E sum : Def(sum)
  <2>1. PICK sum : Sums(sum, SUBSET S, f)
    BY SumsExist
  <2>2. Def(sum)
    BY <2>1 DEF Sums, Any, Rest
  <2> QED BY <2>2
<1>2. Def(it)
  <2> HIDE DEF Def
  <2> QED BY <1>1, Zenon
<1>3. SumOver(S, f) = it[S]
  BY DEF SumOver
<1> HIDE DEF it
<1>4. \A T \in SUBSET S : it[T] = IF T = {} THEN 0 ELSE f[Any(T)] + it[Rest(T)]
  BY <1>2 DEF Any, Rest
<1>5. it = [T \in SUBSET S |-> it[T]]
  BY <1>2
<1>6. Sums(it, SUBSET S, f)
  BY <1>4, <1>5, SumsTyped DEF Sums
<1> QED BY <1>3, <1>6

\* A sum changes by as much as the one term that changes.
LEMMA SumChanges ==
  ASSUME NEW S, IsFiniteSet(S), NEW f \in [S -> Int], NEW g \in [S -> Int], NEW x \in S,
         \A y \in S \ {x} : g[y] = f[y]
  PROVE  SumOver(S, f) \in Int /\ SumOver(S, g) = SumOver(S, f) - f[x] + g[x]
<1>1. PICK F : Sums(F, SUBSET S, f) /\ SumOver(S, f) = F[S]
  BY SumOverSums
<1>2. PICK G : Sums(G, SUBSET S, g) /\ SumOver(S, g) = G[S]
  BY SumOverSums
<1> DEFINE Change(T) == IF x \in T THEN g[x] - f[x] ELSE 0
           Bad == {T \in SUBSET S : G[T] # F[T] + Change(T)}
           Sizes == {Cardinality(T) : T \in Bad}
<1>3. F \in [SUBSET S -> Int] /\ G \in [SUBSET S -> Int] /\ f[x] \in Int /\ g[x] \in Int
  BY <1>1, <1>2 DEF Sums
<1>4. Bad = {}
  <2>1. SUFFICES ASSUME Bad # {} PROVE FALSE
    OBVIOUS
  <2>2. Sizes \subseteq Nat /\ Sizes # {}
    BY <2>1, FS_Subset, FS_CardinalityType
  <2>3. PICK n \in Sizes : \A m \in Sizes : n <= m
    <3> HIDE DEF Sizes
    <3> QED BY <2>2, LeastNatural
  <2>4. PICK T \in Bad : n = Cardinality(T)
    OBVIOUS
  <2>5. T # {}
    <3>1. {} \in SUBSET S /\ Change({}) = 0
      OBVIOUS
    <3>2. F[{}] = 0 /\ G[{}] = 0
      <4> HIDE DEF Bad
      <4> QED BY <1>1, <1>2, <3>1 DEF Sums
    <3>3. {} \notin Bad
      BY <3>1, <3>2
    <3> QED BY <2>4, <3>3
  <2>6. /\ Any(T) \in T /\ Rest(T) \in SUBSET S /\ Cardinality(Rest(T)) < Cardinality(T)
        /\ Cardinality(T) \in Nat /\ Cardinality(Rest(T)) \in Int
    BY <2>5, RestSmaller
  <2>7. G[Rest(T)] = F[Rest(T)] + Change(Rest(T))
    BY <2>3, <2>4, <2>6
  <2>8. F[T] = f[Any(T)] + F[Rest(T)] /\ G[T] = g[Any(T)] + G[Rest(T)]
    BY <1>1, <1>2, <2>5 DEF Sums
  <2>9. x \in Rest(T) <=> x \in T /\ x # Any(T)
    BY DEF Rest
  <2>10. f[Any(T)] \in Int /\ g[Any(T)] \in Int /\ F[Rest(T)] \in Int /\ G[Rest(T)] \in Int
    BY <1>3, <2>6
  <2>11. G[T] = F[T] + Change(T)
    <3>1. CASE x = Any(T)
      BY <1>3, <2>6, <2>7, <2>8, <2>9, <2>10, <3>1
    <3>2. CASE x # Any(T)
      <4>1. g[Any(T)] = f[Any(T)]
        BY <2>6, <3>2
      <4>2. Change(Rest(T)) = Change(T) /\ Change(T) \in Int
        BY <1>3, <2>9, <3>2
      <4> HIDE DEF Change
      <4> QED BY <2>7, <2>8, <2>10, <4>1, <4>2
    <3> QED BY <3>1, <3>2
  <2> QED BY <2>4, <2>11
<1>5. G[S] = F[S] + (g[x] - f[x])
  BY <1>4
<1> QED BY <1>1, <1>2, <1>3, <1>5

LEMMA SumOfZeros ==
  ASSUME NEW S, IsFiniteSet(S) PROVE SumOver(S, [x \in S |-> 0]) = 0
<1> DEFINE f == [x \in S |-> 0]
<1>1. PICK F : Sums(F, SUBSET S, f) /\ SumOver(S, f) = F[S]
  BY SumOverSums
<1> DEFINE Bad == {T \in SUBSET S : F[T] # 0}
           Sizes == {Cardinality(T) : T \in Bad}
<1>2. Bad = {}
  <2>1. SUFFICES ASSUME Bad # {} PROVE FALSE
    OBVIOUS
  <2>2. Sizes \subseteq Nat /\ Sizes # {}
    BY <2>1, FS_Subset, FS_CardinalityType
  <2>3. PICK n \in Sizes : \A m \in Sizes : n <= m
    <3> HIDE DEF Sizes
    <3> QED BY <2>2, LeastNatural
  <2>4. PICK T \in Bad : n = Cardinality(T)
    OBVIOUS
  <2>5. T # {}
    BY <1>1 DEF Sums
  <2>6. /\ Any(T) \in T /\ Rest(T) \in SUBSET S /\ Cardinality(Rest(T)) < Cardinality(T)
        /\ Cardinality(T) \in Nat /\ Cardinality(Rest(T)) \in Int
    BY <2>5, RestSmaller
  <2>7. F[Rest(T)] = 0 /\ f[Any(T)] = 0
    BY <2>3, <2>4, <2>6
  <2> QED BY <1>1, <2>4, <2>5, <2>7 DEF Sums
<1> QED BY <1>1, <1>2
-----------------------------------------------------------------------------
(* The ledger. *)

\* What a row holds or was charged is told by its status.
RowsOK ==
  \A r \in Role, c \in Call :
    /\ row[r][c].status # "active" => row[r][c].size = 0
    /\ row[r][c].status \notin {"settled", "expired"} => row[r][c].charge = 0

LedgerInv == LedgerTypeOK /\ RowsOK /\ WithinAllowance

\* The c-th row of role r becomes new, and the counters of r and of the audit move by
\* held, used, heldCalls and usedCalls.
Moves(r, c, new, held, used, heldCalls, usedCalls) ==
  /\ row' = [row EXCEPT ![r][c] = new]
  /\ ledger' \in [Scope -> Counters]
  /\ \A s \in Scope \ {r, Total} : ledger'[s] = ledger[s]
  /\ \A s \in {r, Total} : /\ ledger'[s].held = ledger[s].held + held
                           /\ ledger'[s].used = ledger[s].used + used
                           /\ ledger'[s].heldCalls = ledger[s].heldCalls + heldCalls
                           /\ ledger'[s].usedCalls = ledger[s].usedCalls + usedCalls

LEMMA SumGrows ==
  ASSUME NEW S, IsFiniteSet(S), NEW f \in [S -> Int], NEW g \in [S -> Int], NEW x \in S,
         NEW d \in Int, \A y \in S \ {x} : g[y] = f[y], g[x] = f[x] + d
  PROVE  SumOver(S, f) \in Int /\ SumOver(S, g) = SumOver(S, f) + d
<1>1. SumOver(S, f) \in Int /\ SumOver(S, g) = SumOver(S, f) - f[x] + g[x]
  BY SumChanges
<1>2. f[x] \in Int
  OBVIOUS
<1> QED BY <1>1, <1>2

\* The audit's counters stay the sums of its roles'.
LEMMA TotalsMove ==
  ASSUME LedgerAssumption, LedgerTypeOK, LedgerBalanced, NEW r \in Role, NEW c \in Call, NEW new,
         NEW held \in Int, NEW used \in Int, NEW heldCalls \in Int, NEW usedCalls \in Int,
         Moves(r, c, new, held, used, heldCalls, usedCalls)
  PROVE  ledger'[Total] = [
           held |-> SumOver(Role, [s \in Role |-> ledger'[s].held]),
           used |-> SumOver(Role, [s \in Role |-> ledger'[s].used]),
           heldCalls |-> SumOver(Role, [s \in Role |-> ledger'[s].heldCalls]),
           usedCalls |-> SumOver(Role, [s \in Role |-> ledger'[s].usedCalls])]
<1>1. /\ IsFiniteSet(Role) /\ Role \subseteq Scope /\ Total \in Scope
      /\ \A s \in Role \ {r} : s \in Scope \ {r, Total}
  BY DEF LedgerAssumption, Scope
<1>2. ledger \in [Scope -> Counters] /\ ledger' \in [Scope -> Counters]
  BY DEF LedgerTypeOK, Moves
<1>3. \A s \in Role \ {r} : ledger'[s] = ledger[s]
  BY <1>1 DEF Moves
<1>4. \A s \in {r, Total} : /\ ledger'[s].held = ledger[s].held + held
                            /\ ledger'[s].used = ledger[s].used + used
                            /\ ledger'[s].heldCalls = ledger[s].heldCalls + heldCalls
                            /\ ledger'[s].usedCalls = ledger[s].usedCalls + usedCalls
  BY DEF Moves
<1>5. \A s \in Scope : /\ ledger[s].held \in Int /\ ledger[s].used \in Int
                       /\ ledger[s].heldCalls \in Int /\ ledger[s].usedCalls \in Int
                       /\ ledger'[s].held \in Int /\ ledger'[s].used \in Int
                       /\ ledger'[s].heldCalls \in Int /\ ledger'[s].usedCalls \in Int
  BY <1>2 DEF Counters
<1>6. /\ ledger[Total].held = SumOver(Role, [s \in Role |-> ledger[s].held])
      /\ ledger[Total].used = SumOver(Role, [s \in Role |-> ledger[s].used])
      /\ ledger[Total].heldCalls = SumOver(Role, [s \in Role |-> ledger[s].heldCalls])
      /\ ledger[Total].usedCalls = SumOver(Role, [s \in Role |-> ledger[s].usedCalls])
  BY DEF LedgerBalanced
<1>7. ledger'[Total].held = SumOver(Role, [s \in Role |-> ledger'[s].held])
  <2> DEFINE f == [s \in Role |-> ledger[s].held]
             g == [s \in Role |-> ledger'[s].held]
  <2>1. /\ f \in [Role -> Int] /\ g \in [Role -> Int] /\ g[r] = f[r] + held
        /\ \A s \in Role \ {r} : g[s] = f[s]
    BY <1>1, <1>3, <1>4, <1>5
  <2>2. SumOver(Role, g) = SumOver(Role, f) + held
    <3> HIDE DEF f, g
    <3> QED BY <1>1, <2>1, SumGrows
  <2> QED BY <1>4, <1>6, <2>2
<1>8. ledger'[Total].used = SumOver(Role, [s \in Role |-> ledger'[s].used])
  <2> DEFINE f == [s \in Role |-> ledger[s].used]
             g == [s \in Role |-> ledger'[s].used]
  <2>1. /\ f \in [Role -> Int] /\ g \in [Role -> Int] /\ g[r] = f[r] + used
        /\ \A s \in Role \ {r} : g[s] = f[s]
    BY <1>1, <1>3, <1>4, <1>5
  <2>2. SumOver(Role, g) = SumOver(Role, f) + used
    <3> HIDE DEF f, g
    <3> QED BY <1>1, <2>1, SumGrows
  <2> QED BY <1>4, <1>6, <2>2
<1>9. ledger'[Total].heldCalls = SumOver(Role, [s \in Role |-> ledger'[s].heldCalls])
  <2> DEFINE f == [s \in Role |-> ledger[s].heldCalls]
             g == [s \in Role |-> ledger'[s].heldCalls]
  <2>1. /\ f \in [Role -> Int] /\ g \in [Role -> Int] /\ g[r] = f[r] + heldCalls
        /\ \A s \in Role \ {r} : g[s] = f[s]
    BY <1>1, <1>3, <1>4, <1>5
  <2>2. SumOver(Role, g) = SumOver(Role, f) + heldCalls
    <3> HIDE DEF f, g
    <3> QED BY <1>1, <2>1, SumGrows
  <2> QED BY <1>4, <1>6, <2>2
<1>10. ledger'[Total].usedCalls = SumOver(Role, [s \in Role |-> ledger'[s].usedCalls])
  <2> DEFINE f == [s \in Role |-> ledger[s].usedCalls]
             g == [s \in Role |-> ledger'[s].usedCalls]
  <2>1. /\ f \in [Role -> Int] /\ g \in [Role -> Int] /\ g[r] = f[r] + usedCalls
        /\ \A s \in Role \ {r} : g[s] = f[s]
    BY <1>1, <1>3, <1>4, <1>5
  <2>2. SumOver(Role, g) = SumOver(Role, f) + usedCalls
    <3> HIDE DEF f, g
    <3> QED BY <1>1, <2>1, SumGrows
  <2> QED BY <1>4, <1>6, <2>2
<1>11. ledger'[Total] \in Counters
  BY <1>1, <1>2
<1> QED BY <1>7, <1>8, <1>9, <1>10, <1>11 DEF Counters

LEMMA CallFinite == ASSUME LedgerAssumption PROVE IsFiniteSet(Call)
BY FS_Interval DEF LedgerAssumption, Call

\* One row of a role changes as its counters do.
LEMMA RolesMove ==
  ASSUME LedgerAssumption, LedgerTypeOK, LedgerBalanced, NEW r \in Role, NEW c \in Call,
         NEW new \in Row,
         NEW held \in Int, NEW used \in Int, NEW heldCalls \in Int, NEW usedCalls \in Int,
         Moves(r, c, new, held, used, heldCalls, usedCalls),
         new.size = row[r][c].size + held, new.charge = row[r][c].charge + used,
         Cardinality(ActiveRows(r)') = Cardinality(ActiveRows(r)) + heldCalls,
         Cardinality(Closed(r)') = Cardinality(Closed(r)) + usedCalls
  PROVE  LedgerBalanced'
<1>1. /\ IsFiniteSet(Call) /\ row \in [Role -> [Call -> Row]]
      /\ Role \subseteq Scope /\ \A s \in Role \ {r} : s \in Scope \ {r, Total}
  <2>1. IsFiniteSet(Call)
    BY CallFinite
  <2>2. row \in [Role -> [Call -> Row]]
    BY DEF LedgerTypeOK
  <2> QED BY <2>1, <2>2 DEF LedgerAssumption, Scope
<1>2. /\ row' \in [Role -> [Call -> Row]] /\ row'[r][c] = new
      /\ \A s \in Role \ {r} : row'[s] = row[s]
      /\ \A d \in Call \ {c} : row'[r][d] = row[r][d]
  BY <1>1 DEF Moves
<1>3. Held(r)' = Held(r) + held
  <2> DEFINE f == [d \in Call |-> row[r][d].size]
             g == [d \in Call |-> row'[r][d].size]
  <2>1. /\ f \in [Call -> Int] /\ g \in [Call -> Int] /\ g[c] = f[c] + held
        /\ \A d \in Call \ {c} : g[d] = f[d]
    BY <1>1, <1>2 DEF Row
  <2>2. SumOver(Call, g) = SumOver(Call, f) + held
    <3> HIDE DEF f, g
    <3> QED BY <1>1, <2>1, SumGrows
  <2> QED BY <2>2 DEF Held
<1>4. Used(r)' = Used(r) + used
  <2> DEFINE f == [d \in Call |-> row[r][d].charge]
             g == [d \in Call |-> row'[r][d].charge]
  <2>1. /\ f \in [Call -> Int] /\ g \in [Call -> Int] /\ g[c] = f[c] + used
        /\ \A d \in Call \ {c} : g[d] = f[d]
    BY <1>1, <1>2 DEF Row
  <2>2. SumOver(Call, g) = SumOver(Call, f) + used
    <3> HIDE DEF f, g
    <3> QED BY <1>1, <2>1, SumGrows
  <2> QED BY <2>2 DEF Used
<1>5. ASSUME NEW s \in Role
      PROVE  ledger'[s] = [held |-> Held(s)', used |-> Used(s)',
               heldCalls |-> Cardinality(ActiveRows(s)'), usedCalls |-> Cardinality(Closed(s)')]
  <2>1. /\ ledger[s].held = Held(s) /\ ledger[s].used = Used(s)
        /\ ledger[s].heldCalls = Cardinality(ActiveRows(s))
        /\ ledger[s].usedCalls = Cardinality(Closed(s))
    <3>1. ledger[s] = [held |-> Held(s), used |-> Used(s),
            heldCalls |-> Cardinality(ActiveRows(s)), usedCalls |-> Cardinality(Closed(s))]
      BY DEF LedgerBalanced
    <3> QED BY <3>1
  <2>2. CASE s = r
    <3>1. /\ ledger'[r].held = Held(r)' /\ ledger'[r].used = Used(r)'
          /\ ledger'[r].heldCalls = Cardinality(ActiveRows(r)')
          /\ ledger'[r].usedCalls = Cardinality(Closed(r)')
      BY <1>3, <1>4, <2>1, <2>2 DEF Moves
    <3>2. ledger'[r] \in Counters
      BY <1>1 DEF Moves
    <3> QED BY <2>2, <3>1, <3>2 DEF Counters
  <2>3. CASE s # r
    <3>1. row'[s] = row[s] /\ ledger'[s] = ledger[s]
      BY <1>1, <1>2, <2>3 DEF Moves
    <3>2. /\ Held(s)' = Held(s) /\ Used(s)' = Used(s)
          /\ ActiveRows(s)' = ActiveRows(s) /\ Closed(s)' = Closed(s)
      BY <3>1 DEF Held, Used, ActiveRows, Closed
    <3> QED BY <3>1, <3>2 DEF LedgerBalanced
  <2> QED BY <2>2, <2>3
<1>6. ledger'[Total] = [
           held |-> SumOver(Role, [s \in Role |-> ledger'[s].held]),
           used |-> SumOver(Role, [s \in Role |-> ledger'[s].used]),
           heldCalls |-> SumOver(Role, [s \in Role |-> ledger'[s].heldCalls]),
           usedCalls |-> SumOver(Role, [s \in Role |-> ledger'[s].usedCalls])]
  BY TotalsMove
<1> QED BY <1>5, <1>6 DEF LedgerBalanced

LEMMA TransitionTyped ==
  ASSUME LedgerTypeOK, NEW to \in Level, Transition(to)
  PROVE  level' \in Level /\ degraded' \in BOOLEAN
BY DEF LedgerTypeOK, Transition, Higher, Level

LEMMA ComputeTyped ==
  ASSUME NEW led, NEW before \in Level PROVE Compute(led, before) \in Level
<1> DEFINE found == IF AtLeast(led, Exceeded) THEN Exceeded
                    ELSE IF AtLeast(led, Red) THEN Red
                    ELSE IF AtLeast(led, Yellow) THEN Yellow ELSE 0
<1>1. found \in Level
  BY DEF Level, Exceeded, Red, Yellow
<1>2. Compute(led, before) = Higher(before, found)
  BY DEF Compute
<1> HIDE DEF found
<1> QED BY <1>1, <1>2 DEF Higher

LEMMA CountersReserve ==
  ASSUME NEW k \in Counters, NEW size \in Nat, NEW m, m = [k EXCEPT !.held = @ + size, !.heldCalls = @ + 1]
  PROVE  /\ m \in Counters
         /\ m.held = k.held + size /\ m.used = k.used + 0
         /\ m.heldCalls = k.heldCalls + 1 /\ m.usedCalls = k.usedCalls + 0
<1>1. k \in [held : Int, used : Int, heldCalls : Int, usedCalls : Int]
  BY DEF Counters
<1>2. /\ k.held \in Int /\ k.used \in Int /\ k.heldCalls \in Int /\ k.usedCalls \in Int
      /\ k = [held |-> k.held, used |-> k.used, heldCalls |-> k.heldCalls,
              usedCalls |-> k.usedCalls]
  BY <1>1
<1>3. m = [held |-> k.held + size, used |-> k.used, heldCalls |-> k.heldCalls + 1,
           usedCalls |-> k.usedCalls]
  BY <1>2
<1> QED BY <1>2, <1>3 DEF Counters

\* What a settlement makes of the rows.
SettledTo(r, c, charge, status) ==
  /\ cancelled' = cancelled
  /\ row' \in [Role -> [Call -> Row]]
  /\ row'[r][c] = IF row[r][c].status = "active"
                  THEN [status |-> status, size |-> 0, charge |-> charge] ELSE row[r][c]
  /\ \A s \in Role, d \in Call : s # r \/ d # c => row'[s][d] = row[s][d]

\* Every settlement leaves the ledger in order: it moves the counters as it moves
\* the row, and charges no more than was held.
LEMMA SettleKeeps ==
  ASSUME LedgerAssumption, LedgerInv, NEW r \in Role, NEW c \in Call, NEW charge \in Nat,
         NEW status \in {"settled", "expired"},
         row[r][c].status = "active" => charge <= row[r][c].size,
         Settle(r, c, charge, status)
  PROVE  LedgerInv' /\ SettledTo(r, c, charge, status)
<1>1. row \in [Role -> [Call -> Row]] /\ ledger \in [Scope -> Counters] /\ level \in Level
  BY DEF LedgerInv, LedgerTypeOK
<1>2. CASE row[r][c].status # "active"
  <2>1. UNCHANGED ledgerVars
    BY <1>2 DEF Settle, ledgerVars
  <2>2. LedgerInv'
    BY <2>1, ZenonT(30) DEF LedgerInv, LedgerTypeOK, RowsOK, WithinAllowance, LedgerBalanced, LimitsKept,
                ledgerVars, Held, Used, ActiveRows, Closed
  <2> QED BY <1>1, <1>2, <2>1, <2>2 DEF ledgerVars, SettledTo
<1>3. CASE row[r][c].status = "active"
  <2> DEFINE new == [status |-> status, size |-> 0, charge |-> charge]
  <2>1. /\ row' = [row EXCEPT ![r][c] = new]
        /\ ledger' = [s \in Scope |-> IF s \notin {r, Total} THEN ledger[s]
               ELSE [ledger[s] EXCEPT !.held = @ - row[r][c].size, !.used = @ + charge,
                                      !.heldCalls = @ - 1, !.usedCalls = @ + 1]]
        /\ Transition(Compute(ledger', level)) /\ cancelled' = cancelled
    BY <1>3, Zenon DEF Settle, Released
  <2>2. new \in Row /\ row[r][c] \in Row /\ row[r][c].size \in Nat /\ row[r][c].charge = 0
    BY <1>1, <1>3 DEF Row, LedgerInv, RowsOK
  <2>3. /\ r \in Scope /\ Total \in Scope /\ r # Total /\ IsFiniteSet(Call)
    BY CallFinite DEF Scope, LedgerAssumption
  <2>4. ASSUME NEW s \in Scope
        PROVE  /\ ledger'[s] \in Counters
               /\ s \in {r, Total} => /\ ledger'[s].held = ledger[s].held - row[r][c].size
                                      /\ ledger'[s].used = ledger[s].used + charge
                                      /\ ledger'[s].heldCalls = ledger[s].heldCalls - 1
                                      /\ ledger'[s].usedCalls = ledger[s].usedCalls + 1
    <3>1. PICK k : k = ledger[s]
      OBVIOUS
    <3>2. PICK size : size = row[r][c].size
      OBVIOUS
    <3>3. k \in Counters /\ size \in Nat
      BY <1>1, <2>2, <3>1, <3>2
    <3>4. CASE s \in {r, Total}
      <4>1. ledger'[s] = [k EXCEPT !.held = @ - size, !.used = @ + charge,
                                   !.heldCalls = @ - 1, !.usedCalls = @ + 1]
        BY <2>1, <3>1, <3>2, <3>4
      <4>2. PICK m : m = ledger'[s]
        OBVIOUS
      <4> HIDE DEF new
      <4>3. /\ m \in Counters /\ m.held = k.held - size /\ m.used = k.used + charge
            /\ m.heldCalls = k.heldCalls - 1 /\ m.usedCalls = k.usedCalls + 1
        <5>1. m = [k EXCEPT !.held = @ - size, !.used = @ + charge,
                            !.heldCalls = @ - 1, !.usedCalls = @ + 1]
            BY <4>1, <4>2
          <5>2. k \in [held : Int, used : Int, heldCalls : Int, usedCalls : Int]
            BY <3>3 DEF Counters
          <5>3. /\ k.held \in Int /\ k.used \in Int /\ k.heldCalls \in Int /\ k.usedCalls \in Int
                /\ k = [held |-> k.held, used |-> k.used, heldCalls |-> k.heldCalls,
                        usedCalls |-> k.usedCalls]
            BY <5>2
          <5>4. m = [held |-> k.held - size, used |-> k.used + charge,
                     heldCalls |-> k.heldCalls - 1, usedCalls |-> k.usedCalls + 1]
            BY <5>1, <5>3, ZenonT(30)
          <5> QED BY <3>3, <5>3, <5>4 DEF Counters
      <4> QED BY <3>1, <3>2, <4>2, <4>3
    <3>5. CASE s \notin {r, Total}
      BY <2>1, <3>1, <3>3, <3>5
    <3> QED BY <3>4, <3>5
  <2>5. ASSUME NEW s \in {r, Total}
        PROVE  /\ ledger'[s].held = ledger[s].held - row[r][c].size
               /\ ledger'[s].used = ledger[s].used + charge
               /\ ledger'[s].heldCalls = ledger[s].heldCalls - 1
               /\ ledger'[s].usedCalls = ledger[s].usedCalls + 1
    BY <2>3, <2>4
  <2>6. Moves(r, c, new, -row[r][c].size, charge, -1, 1)
    <3>1. ledger' \in [Scope -> Counters]
      <4>1. DOMAIN ledger' = Scope /\ ledger' = [s \in Scope |-> ledger'[s]]
        BY <2>1
      <4> QED BY <2>4, <4>1
    <3>2. \A s \in Scope \ {r, Total} : ledger'[s] = ledger[s]
      BY <2>1
    <3>3. \A s \in {r, Total} : /\ ledger'[s].held = ledger[s].held + -row[r][c].size
                           /\ ledger'[s].used = ledger[s].used + charge
                           /\ ledger'[s].heldCalls = ledger[s].heldCalls + -1
                           /\ ledger'[s].usedCalls = ledger[s].usedCalls + 1
      <4>1. \A s \in {r, Total} : ledger[s].held \in Int /\ ledger[s].heldCalls \in Int
        BY <1>1, <2>3 DEF Counters
      <4> QED BY <2>2, <2>5, <4>1
    <3> QED BY <2>1, <3>1, <3>2, <3>3, ZenonT(30) DEF Moves
  <2>7. /\ row' \in [Role -> [Call -> Row]] /\ row'[r][c] = new
        /\ \A s \in Role, d \in Call : s # r \/ d # c => row'[s][d] = row[s][d]
    <3> HIDE DEF new
    <3> QED BY <1>1, <2>1, <2>2
  <2>8. /\ IsFiniteSet(ActiveRows(r)) /\ IsFiniteSet(Closed(r))
        /\ ActiveRows(r) \in SUBSET Call /\ Closed(r) \in SUBSET Call
    <3>1. ActiveRows(r) \in SUBSET Call /\ Closed(r) \in SUBSET Call
      BY DEF ActiveRows, Closed
    <3> QED BY <2>3, <3>1, FS_Subset
  <2>9. Cardinality(ActiveRows(r)') = Cardinality(ActiveRows(r)) + -1
    <3>1. ActiveRows(r)' = ActiveRows(r) \ {c} /\ c \in ActiveRows(r)
      BY <1>3, <2>7 DEF ActiveRows
    <3> QED BY <2>8, <3>1, FS_RemoveElement, FS_CardinalityType
  <2>10. Cardinality(Closed(r)') = Cardinality(Closed(r)) + 1
    <3>1. Closed(r)' = Closed(r) \cup {c} /\ c \notin Closed(r)
      BY <1>3, <2>7 DEF Closed
    <3> QED BY <2>8, <3>1, FS_AddElement, FS_CardinalityType
  <2>11. LedgerBalanced'
    <3>1. new.size = row[r][c].size + -row[r][c].size /\ new.charge = row[r][c].charge + charge
      BY <2>2
    <3>2. -row[r][c].size \in Int /\ -1 \in Int /\ LedgerTypeOK /\ LedgerBalanced
      BY <2>2 DEF LedgerInv, WithinAllowance
    <3> HIDE DEF new
    <3> QED BY <2>2, <2>6, <2>9, <2>10, <3>1, <3>2, RolesMove
  <2>12. LimitsKept'
    <3>1. ASSUME NEW s \in Scope
          PROVE  Tokens(ledger'[s]) <= TokenLimit[s] /\ Calls(ledger'[s]) <= CallLimit[s]
      <4>1. /\ ledger[s] \in Counters /\ TokenLimit[s] \in Nat /\ CallLimit[s] \in Nat
            /\ ledger[s].held + ledger[s].used <= TokenLimit[s]
            /\ ledger[s].heldCalls + ledger[s].usedCalls <= CallLimit[s]
        BY <1>1 DEF LedgerInv, WithinAllowance, LimitsKept, Tokens, Calls, LedgerAssumption
      <4>2. CASE s \in {r, Total}
        <5>1. /\ ledger[s].held \in Int /\ ledger[s].used \in Int
              /\ ledger[s].heldCalls \in Int /\ ledger[s].usedCalls \in Int
          BY <4>1 DEF Counters
        <5>2. /\ ledger'[s].held + ledger'[s].used <= TokenLimit[s]
              /\ ledger'[s].heldCalls + ledger'[s].usedCalls <= CallLimit[s]
          BY <1>3, <2>2, <2>5, <4>1, <4>2, <5>1, SMTT(40)
        <5> QED BY <5>2 DEF Tokens, Calls
      <4>3. CASE s \notin {r, Total}
        BY <2>1, <4>1, <4>3 DEF Tokens, Calls
      <4> QED BY <4>2, <4>3
    <3> QED BY <3>1 DEF LimitsKept
  <2>13. LedgerTypeOK'
    <3>1. level' \in Level /\ degraded' \in BOOLEAN
      BY <1>1, <2>1, ComputeTyped, TransitionTyped DEF LedgerInv
    <3> QED BY <2>1, <2>6, <2>7, <3>1 DEF LedgerTypeOK, LedgerInv, Moves
  <2>14. RowsOK'
    <3>1. ASSUME NEW s \in Role, NEW d \in Call
          PROVE  /\ row'[s][d].status # "active" => row'[s][d].size = 0
                 /\ row'[s][d].status \notin {"settled", "expired"} => row'[s][d].charge = 0
      <4>1. CASE s = r /\ d = c
        BY <2>7, <4>1
      <4>2. CASE s # r \/ d # c
        BY <2>7, <4>2 DEF LedgerInv, RowsOK
      <4> QED BY <4>1, <4>2
    <3> QED BY <3>1 DEF RowsOK
  <2> QED BY <1>3, <2>1, <2>7, <2>11, <2>12, <2>13, <2>14 DEF LedgerInv, WithinAllowance, SettledTo
<1> QED BY <1>2, <1>3

\* A reservation is held where it fits, and leaves the ledger in order.
LEMMA ReserveKeeps ==
  ASSUME LedgerAssumption, LedgerInv, NEW r \in Role, NEW c \in Call, NEW size \in Nat,
         Reserve(r, c, size)
  PROVE  /\ LedgerInv' /\ cancelled' = cancelled
         /\ row' \in [Role -> [Call -> Row]]
         /\ row'[r][c] = IF Allowed(r, c, size)
                         THEN [status |-> "active", size |-> size, charge |-> 0] ELSE row[r][c]
         /\ \A s \in Role, d \in Call : s # r \/ d # c => row'[s][d] = row[s][d]
<1>1. row \in [Role -> [Call -> Row]] /\ ledger \in [Scope -> Counters] /\ level \in Level
  BY DEF LedgerInv, LedgerTypeOK
<1>2. CASE ~Allowed(r, c, size)
  <2>1. row' = row /\ ledger' = ledger /\ cancelled' = cancelled
    BY <1>2 DEF Reserve
  <2>2. level' \in Level /\ degraded' \in BOOLEAN
    <3>1. CASE row[r][c].status # "none"
      BY <1>2, <3>1 DEF Reserve, LedgerInv, LedgerTypeOK
    <3>2. CASE row[r][c].status = "none"
      <4>1. Transition(Exceeded) /\ Exceeded \in Level
        BY <1>2, <3>2 DEF Reserve, Exceeded, Level
      <4> QED BY <4>1, TransitionTyped DEF LedgerInv
    <3> QED BY <3>1, <3>2
  <2>3. LedgerInv'
    BY <2>1, <2>2, ZenonT(30) DEF LedgerInv, LedgerTypeOK, RowsOK, WithinAllowance, LedgerBalanced, LimitsKept,
                      Held, Used, ActiveRows, Closed
  <2> QED BY <1>1, <1>2, <2>1, <2>3
<1>3. CASE Allowed(r, c, size)
  <2> DEFINE new == [status |-> "active", size |-> size, charge |-> 0]
  <2>1. /\ row' = [row EXCEPT ![r][c] = new]
        /\ ledger' = [s \in Scope |-> IF s \notin {r, Total} THEN ledger[s]
                          ELSE [ledger[s] EXCEPT !.held = @ + size, !.heldCalls = @ + 1]]
        /\ Transition(Compute(ledger', level)) /\ cancelled' = cancelled
    BY <1>3, Zenon DEF Reserve
  <2>2. /\ new \in Row /\ row[r][c] \in Row /\ row[r][c].status = "none"
        /\ row[r][c].size = 0 /\ row[r][c].charge = 0
    <3>1. row[r][c].status = "none"
      BY <1>3 DEF Allowed
    <3> QED BY <1>1, <3>1 DEF Row, LedgerInv, RowsOK
  <2>3. /\ r \in Scope /\ Total \in Scope /\ r # Total /\ IsFiniteSet(Call)
    BY CallFinite DEF Scope, LedgerAssumption
  <2>4. ASSUME NEW s \in Scope
        PROVE  /\ ledger'[s] \in Counters
               /\ s \in {r, Total} => /\ ledger'[s].held = ledger[s].held + size
                                      /\ ledger'[s].used = ledger[s].used + 0
                                      /\ ledger'[s].heldCalls = ledger[s].heldCalls + 1
                                      /\ ledger'[s].usedCalls = ledger[s].usedCalls + 0
    <3>1. PICK k : k = ledger[s]
      OBVIOUS
    <3>2. k \in Counters
      BY <1>1, <3>1
    <3>3. CASE s \in {r, Total}
      <4>1. ledger'[s] = [k EXCEPT !.held = @ + size, !.heldCalls = @ + 1]
        BY <2>1, <3>1, <3>3
      <4>2. PICK m : m = ledger'[s]
        OBVIOUS
      <4> HIDE DEF new
      <4>3. /\ m \in Counters /\ m.held = k.held + size /\ m.used = k.used + 0
            /\ m.heldCalls = k.heldCalls + 1 /\ m.usedCalls = k.usedCalls + 0
        <5>1. m = [k EXCEPT !.held = @ + size, !.heldCalls = @ + 1]
            BY <4>1, <4>2
          <5> QED BY <3>2, <5>1, CountersReserve, ZenonT(30)
      <4> QED BY <3>1, <4>2, <4>3
    <3>4. CASE s \notin {r, Total}
      BY <2>1, <3>1, <3>2, <3>4
    <3> QED BY <3>3, <3>4
  <2>5. ASSUME NEW s \in {r, Total}
        PROVE  /\ ledger'[s].held = ledger[s].held + size
               /\ ledger'[s].used = ledger[s].used + 0
               /\ ledger'[s].heldCalls = ledger[s].heldCalls + 1
               /\ ledger'[s].usedCalls = ledger[s].usedCalls + 0
    BY <2>3, <2>4
  <2>6. Moves(r, c, new, size, 0, 1, 0)
    <3>1. ledger' \in [Scope -> Counters]
      <4>1. DOMAIN ledger' = Scope /\ ledger' = [s \in Scope |-> ledger'[s]]
        BY <2>1
      <4> QED BY <2>4, <4>1
    <3>2. \A s \in Scope \ {r, Total} : ledger'[s] = ledger[s]
      BY <2>1
    <3> QED BY <2>1, <2>5, <3>1, <3>2 DEF Moves
  <2>7. /\ row' \in [Role -> [Call -> Row]] /\ row'[r][c] = new
        /\ \A s \in Role, d \in Call : s # r \/ d # c => row'[s][d] = row[s][d]
    <3> HIDE DEF new
    <3> QED BY <1>1, <2>1, <2>2
  <2>8. IsFiniteSet(ActiveRows(r))
    <3>1. ActiveRows(r) \in SUBSET Call
      BY DEF ActiveRows
    <3> QED BY <2>3, <3>1, FS_Subset
  <2>9. Cardinality(ActiveRows(r)') = Cardinality(ActiveRows(r)) + 1
    <3>1. ActiveRows(r)' = ActiveRows(r) \cup {c} /\ c \notin ActiveRows(r)
      BY <2>2, <2>7 DEF ActiveRows
    <3> QED BY <2>8, <3>1, FS_AddElement, FS_CardinalityType
  <2>10. Cardinality(Closed(r)') = Cardinality(Closed(r)) + 0
    <3>1. Closed(r)' = Closed(r) /\ Closed(r) \in SUBSET Call
      BY <2>2, <2>7 DEF Closed
    <3>2. Cardinality(Closed(r)) \in Nat
      BY <2>3, <3>1, FS_Subset, FS_CardinalityType
    <3> QED BY <3>1, <3>2
  <2>11. LedgerBalanced'
    <3>1. new.size = row[r][c].size + size /\ new.charge = row[r][c].charge + 0
      BY <2>2
    <3>2. LedgerTypeOK /\ LedgerBalanced
      BY DEF LedgerInv, WithinAllowance
    <3> HIDE DEF new
    <3> QED BY <2>2, <2>6, <2>9, <2>10, <3>1, <3>2, RolesMove
  <2>12. LimitsKept'
    <3>1. ASSUME NEW s \in Scope
          PROVE  Tokens(ledger'[s]) <= TokenLimit[s] /\ Calls(ledger'[s]) <= CallLimit[s]
      <4>1. CASE s \in {r, Total}
        <5>1. /\ ledger[s].held + ledger[s].used + size <= TokenLimit[s]
              /\ ledger[s].heldCalls + ledger[s].usedCalls + 1 <= CallLimit[s]
          BY <1>3, <4>1 DEF Allowed, Fits, Tokens, Calls
        <5>2. /\ ledger[s].held \in Int /\ ledger[s].used \in Int
              /\ ledger[s].heldCalls \in Int /\ ledger[s].usedCalls \in Int
              /\ TokenLimit[s] \in Nat /\ CallLimit[s] \in Nat
          BY <1>1 DEF Counters, LedgerAssumption
        <5>3. /\ ledger'[s].held + ledger'[s].used <= TokenLimit[s]
              /\ ledger'[s].heldCalls + ledger'[s].usedCalls <= CallLimit[s]
          BY <2>5, <4>1, <5>1, <5>2
        <5> QED BY <5>3 DEF Tokens, Calls
      <4>2. CASE s \notin {r, Total}
        BY <2>1, <4>2 DEF Tokens, Calls, LedgerInv, WithinAllowance, LimitsKept
      <4> QED BY <4>1, <4>2
    <3> QED BY <3>1 DEF LimitsKept
  <2>13. LedgerTypeOK'
    <3>1. level' \in Level /\ degraded' \in BOOLEAN
      BY <1>1, <2>1, ComputeTyped, TransitionTyped DEF LedgerInv
    <3> QED BY <2>1, <2>6, <2>7, <3>1 DEF LedgerTypeOK, LedgerInv, Moves
  <2>14. RowsOK'
    <3>1. ASSUME NEW s \in Role, NEW d \in Call
          PROVE  /\ row'[s][d].status # "active" => row'[s][d].size = 0
                 /\ row'[s][d].status \notin {"settled", "expired"} => row'[s][d].charge = 0
      <4>1. CASE s = r /\ d = c
        BY <2>7, <4>1
      <4>2. CASE s # r \/ d # c
        BY <2>7, <4>2 DEF LedgerInv, RowsOK
      <4> QED BY <4>1, <4>2
    <3> QED BY <3>1 DEF RowsOK
  <2> QED BY <1>3, <2>1, <2>7, <2>11, <2>12, <2>13, <2>14 DEF LedgerInv, WithinAllowance
<1> QED BY <1>2, <1>3
-----------------------------------------------------------------------------
(* The loop. *)

RunTypeOK ==
  /\ job \in [Role -> {"queued", "running", "succeeded", "failed"}]
  /\ attempts \in [Role -> Nat] /\ \A r \in Role : attempts[r] <= MaxAttempt[r]
  /\ run \in [Role -> {Missing, "running", "completed", "budget_exhausted", "failed"}]
  /\ DOMAIN transcript = Role
  /\ \A r \in Role : transcript[r] = Missing \/ transcript[r] \in Seq(Message)
  /\ turn \in [Role -> Nat] /\ context \in Nat
  /\ invocation \in [Role -> [Turn -> Invocation \cup {Missing}]]

InCall(m) == m.at \in {"reserved", "replied"}
InTool(m) == m.at \in {"tool", "store", "answer"}

\* What an attempt that is in a call of role r knows of it.
MemoryOK(r, m) ==
  /\ InTool(m) => PendingTool(m.msgs)
  /\ InCall(m) => m.call \in 1..nextCall[r] /\ row[r][m.call].status # "none"
  /\ m.at = "reserved" => sent[r][m.call] = 0

\* Calls are numbered, and no two attempts work on the same one.
CallInv ==
  /\ nextCall \in [Role -> 0..MaxCall] /\ sent \in [Role -> [Call -> Nat]]
  /\ work \in [Role -> [Attempt -> Memory]]
  /\ \A r \in Role, c \in Call : c > nextCall[r] => row[r][c].status = "none"
  /\ \A r \in Role, a \in Attempt : MemoryOK(r, work[r][a])
  /\ \A r \in Role : \A a, b \in Attempt :
       a # b /\ InCall(work[r][a]) /\ InCall(work[r][b]) => work[r][a].call # work[r][b].call
  /\ NothingUncharged

LoopInv == LedgerInv /\ RunTypeOK /\ CallInv

LEMMA Updated ==
  ASSUME work \in [Role -> [Attempt -> Memory]], NEW r \in Role, NEW a \in Attempt,
         NEW m \in Memory, Update(r, a, m)
  PROVE  /\ work' \in [Role -> [Attempt -> Memory]] /\ work'[r][a] = m
         /\ \A s \in Role, b \in Attempt : s # r \/ b # a => work'[s][b] = work[s][b]
BY DEF Update

\* A step of an attempt that leaves it outside a call, while rows are only settled.
LEMMA LeavesCall ==
  ASSUME LedgerAssumption, LedgerInv, CallInv, NEW r \in Role, NEW a \in Attempt, NEW m \in Memory,
         Update(r, a, m), ~InCall(m), InTool(m) => PendingTool(m.msgs),
         nextCall' = nextCall, sent' = sent, NothingUncharged',
         \A s \in Role, c \in Call : row'[s][c].status = "none" <=> row[s][c].status = "none"
  PROVE  CallInv'
<1>1. /\ work' \in [Role -> [Attempt -> Memory]] /\ work'[r][a] = m
      /\ \A s \in Role, b \in Attempt : s # r \/ b # a => work'[s][b] = work[s][b]
  BY Updated DEF CallInv
<1>2. ASSUME NEW s \in Role, NEW b \in Attempt PROVE MemoryOK(s, work[s][b])'
  <2>1. CASE s = r /\ b = a
    BY <1>1, <2>1 DEF MemoryOK, InCall
  <2>2. CASE s # r \/ b # a
    <3>1. work'[s][b] = work[s][b] /\ MemoryOK(s, work[s][b]) /\ nextCall[s] \in 0..MaxCall
      BY <1>1, <2>2 DEF CallInv
    <3>2. InCall(work[s][b]) => work[s][b].call \in Call
      BY <3>1 DEF MemoryOK, Call, LedgerAssumption
    <3> QED BY <3>1, <3>2 DEF MemoryOK
  <2> QED BY <2>1, <2>2
<1>3. ASSUME NEW s \in Role, NEW b \in Attempt, NEW d \in Attempt, b # d,
             InCall(work'[s][b]), InCall(work'[s][d])
      PROVE  work'[s][b].call # work'[s][d].call
  <2>1. (s # r \/ b # a) /\ (s # r \/ d # a)
    BY <1>1, <1>3
  <2> QED BY <1>1, <1>3, <2>1 DEF CallInv
<1>4. \A s \in Role, c \in Call : c > nextCall'[s] => row'[s][c].status = "none"
  BY DEF CallInv
<1>5. nextCall' \in [Role -> 0..MaxCall] /\ sent' \in [Role -> [Call -> Nat]]
  BY DEF CallInv
<1> QED BY <1>1, <1>2, <1>3, <1>4, <1>5 DEF CallInv

\* A step that touches no reservation.
LEMMA QuietStep ==
  ASSUME LedgerAssumption, LedgerInv, CallInv, NEW r \in Role, NEW a \in Attempt, NEW m \in Memory,
         Update(r, a, m), ~InCall(m), InTool(m) => PendingTool(m.msgs),
         UNCHANGED <<nextCall, sent, row>>
  PROVE  CallInv'
<1>1. NothingUncharged'
  BY DEF CallInv, NothingUncharged
<1> QED BY <1>1, LeavesCall

LEMMA QuietLedger ==
  ASSUME LedgerInv, UNCHANGED <<ledger, row>>,
         level' \in Level, degraded' \in BOOLEAN, cancelled' \in BOOLEAN
  PROVE  LedgerInv'
BY DEF LedgerInv, LedgerTypeOK, RowsOK, WithinAllowance, LedgerBalanced, LimitsKept, Held, Used,
       ActiveRows, Closed

\* Expiring a call, or charging it what was sent, leaves nothing uncharged.
LEMMA SettleCharges ==
  ASSUME LedgerAssumption, LedgerInv, CallInv, NEW r \in Role, NEW c \in Call, NEW charge \in Nat,
         NEW status \in {"settled", "expired"}, sent[r][c] <= charge,
         row[r][c].status = "active" => charge <= row[r][c].size,
         Settle(r, c, charge, status), sent' = sent
  PROVE  /\ LedgerInv' /\ NothingUncharged' /\ cancelled' = cancelled
         /\ \A s \in Role, d \in Call : row'[s][d].status = "none" <=> row[s][d].status = "none"
<1>1. /\ LedgerInv' /\ cancelled' = cancelled
      /\ row' \in [Role -> [Call -> Row]]
      /\ row'[r][c] = IF row[r][c].status = "active"
                      THEN [status |-> status, size |-> 0, charge |-> charge] ELSE row[r][c]
      /\ \A s \in Role, d \in Call : s # r \/ d # c => row'[s][d] = row[s][d]
  <2>1. LedgerInv' /\ SettledTo(r, c, charge, status)
    BY SettleKeeps, Zenon
  <2> QED BY <2>1 DEF SettledTo
<1>2. ASSUME NEW s \in Role, NEW d \in Call
      PROVE  /\ row'[s][d].status = "none" <=> row[s][d].status = "none"
             /\ row'[s][d].status = "none" => sent'[s][d] = 0
             /\ row'[s][d].status = "active" => sent'[s][d] <= row'[s][d].size
             /\ row'[s][d].status \in {"settled", "expired"} => sent'[s][d] <= row'[s][d].charge
  <2>1. /\ row[s][d].status = "none" => sent[s][d] = 0
        /\ row[s][d].status = "active" => sent[s][d] <= row[s][d].size
        /\ row[s][d].status \in {"settled", "expired"} => sent[s][d] <= row[s][d].charge
    BY DEF CallInv, NothingUncharged
  <2>2. CASE s = r /\ d = c /\ row[r][c].status = "active"
    <3>1. row'[s][d].status = status /\ row'[s][d].charge = charge
      BY <1>1, <2>2
    <3> QED BY <2>2, <3>1
  <2>3. CASE ~(s = r /\ d = c /\ row[r][c].status = "active")
    <3>1. row'[s][d] = row[s][d]
      BY <1>1, <2>3
    <3> QED BY <2>1, <3>1
  <2> QED BY <2>2, <2>3
<1>3. NothingUncharged'
  BY <1>2 DEF NothingUncharged
<1> QED BY <1>1, <1>2, <1>3

LEMMA ExpireCharges ==
  ASSUME LedgerAssumption, LedgerInv, CallInv, NEW r \in Role, NEW c \in Call,
         ExpireReservation(r, c), sent' = sent
  PROVE  /\ LedgerInv' /\ NothingUncharged' /\ cancelled' = cancelled
         /\ \A s \in Role, d \in Call : row'[s][d].status = "none" <=> row[s][d].status = "none"
<1>1. row[r][c].size \in Nat
  BY DEF LedgerInv, LedgerTypeOK, Row
<1>2. CASE row[r][c].status = "active"
  <2>1. sent[r][c] <= row[r][c].size
    BY <1>2 DEF CallInv, NothingUncharged
  <2> QED BY <1>1, <2>1, SettleCharges DEF ExpireReservation
<1>3. CASE row[r][c].status # "active"
  <2>1. UNCHANGED ledgerVars
    BY <1>3 DEF ExpireReservation, Settle, ledgerVars
  <2>2. LedgerInv'
    BY <2>1, QuietLedger DEF ledgerVars, LedgerInv, LedgerTypeOK
  <2>3. NothingUncharged'
    BY <2>1 DEF CallInv, NothingUncharged, ledgerVars
  <2> QED BY <2>1, <2>2, <2>3 DEF ledgerVars
<1> QED BY <1>2, <1>3

LEMMA IdleTyped ==
  ASSUME LedgerAssumption
  PROVE  /\ Idle \in Memory /\ Idle.at = "none" /\ Idle.msgs = <<>> /\ Idle.call = 0
         /\ Idle.pending = {} /\ Idle.fresh = FALSE /\ Idle.turn = 0 /\ Idle.reply = "text"
<1>1. <<>> \in Seq(Message)
  OBVIOUS
<1> QED BY <1>1 DEF Idle, Memory, Position, LedgerAssumption, Level, Result, Reply, Tool

\* An attempt that drops what it remembers.
LEMMA Drops ==
  ASSUME LedgerAssumption, NEW r, NEW a,
         Leave(r, a) \/ End(r, a) \/ \E permanent \in BOOLEAN : Throw(r, a, permanent)
  PROVE  \E m \in Memory : Update(r, a, m) /\ m.at \in {"dead", "end", "error"}
<1>1. PICK idle : idle = Idle
  OBVIOUS
<1>2. idle \in Memory
  BY <1>1, IdleTyped
<1>3. CASE Leave(r, a)
  <2> DEFINE m == [idle EXCEPT !.at = "dead"]
  <2>1. m \in Memory /\ m.at = "dead"
    BY <1>2 DEF Memory, Position
  <2> QED BY <1>1, <1>3, <2>1 DEF Leave
<1>4. CASE End(r, a)
  <2> DEFINE m == [idle EXCEPT !.at = "end"]
  <2>1. m \in Memory /\ m.at = "end"
    BY <1>2 DEF Memory, Position
  <2> QED BY <1>1, <1>4, <2>1 DEF End
<1>5. ASSUME NEW permanent \in BOOLEAN, Throw(r, a, permanent)
      PROVE  \E m \in Memory : Update(r, a, m) /\ m.at \in {"dead", "end", "error"}
  <2> DEFINE m == [idle EXCEPT !.at = "error", !.permanent = permanent]
  <2>1. m \in Memory /\ m.at = "error"
    BY <1>2 DEF Memory, Position
  <2> QED BY <1>1, <1>5, <2>1 DEF Throw
<1> QED BY <1>3, <1>4, <1>5

\* Such an attempt that touches no reservation.
LEMMA QuietDrop ==
  ASSUME LedgerAssumption, LedgerInv, CallInv, NEW r \in Role, NEW a \in Attempt,
         Leave(r, a) \/ End(r, a) \/ \E permanent \in BOOLEAN : Throw(r, a, permanent),
         UNCHANGED <<nextCall, sent, row>>
  PROVE  CallInv'
<1>1. PICK m \in Memory : Update(r, a, m) /\ m.at \in {"dead", "end", "error"}
  BY Drops
<1> QED BY <1>1, QuietStep DEF InCall, InTool

LEMMA DegradeKeeps ==
  ASSUME LedgerInv, RunTypeOK, NEW r \in Role, NEW reason \in {"budget_exhausted", "failed"},
         Degrade(r, reason)
  PROVE  /\ LedgerInv' /\ row' = row
         /\ run' \in [Role -> {Missing, "running", "completed", "budget_exhausted", "failed"}]
<1>1. LedgerInv'
  BY QuietLedger DEF Degrade, LedgerInv, LedgerTypeOK
<1> QED BY <1>1 DEF Degrade, RunTypeOK

LEMMA AnswerTyped ==
  ASSUME NEW msgs \in Seq(Message), PendingTool(msgs)
  PROVE  Last(msgs).tool \in Tool
<1>1. Len(msgs) \in 1..Len(msgs)
  BY DEF PendingTool
<1>2. Last(msgs) \in Message
  BY <1>1 DEF Last
<1> QED BY <1>2 DEF PendingTool, Message, Answer
-----------------------------------------------------------------------------
LEMMA ClaimKeeps ==
  ASSUME LedgerAssumption, LoopAssumption, LoopInv, NEW r \in Role, Claim(r) PROVE LoopInv'
<1>1. attempts[r] + 1 \in Attempt
  <2>1. attempts[r] + 1 \in 1..MaxAttempt[r]
    BY DEF Claim, LoopInv, RunTypeOK, LoopAssumption
  <2> QED BY <2>1 DEF Attempt
<1>2. PICK idle : idle = Idle
  OBVIOUS
<1> DEFINE m == [idle EXCEPT !.at = "begin"]
<1>3. m \in Memory /\ m.at = "begin"
  BY <1>2, IdleTyped DEF Memory, Position
<1>4. Update(r, attempts[r] + 1, m)
  BY <1>2 DEF Claim
<1> HIDE DEF m
<1>5. CallInv'
  BY <1>1, <1>3, <1>4, QuietStep DEF LoopInv, Claim, ledgerVars, InCall, InTool
<1>6. LedgerInv'
  BY QuietLedger DEF LoopInv, LedgerInv, LedgerTypeOK, Claim, ledgerVars
<1>7. RunTypeOK'
  BY DEF LoopInv, RunTypeOK, Claim, LoopAssumption
<1> QED BY <1>5, <1>6, <1>7 DEF LoopInv

\* The attempts that drop what they remember and let go of the job.
LEMMA EndingKeeps ==
  ASSUME LedgerAssumption, LoopAssumption, LoopInv, NEW r \in Role, NEW a \in Attempt,
         Succeed(r, a) \/ Fail(r, a) \/ Crash(r, a)
  PROVE  LoopInv'
<1>1. CallInv'
  BY QuietDrop DEF LoopInv, Succeed, Fail, Crash, ledgerVars, runVars
<1>2. LedgerInv'
  BY QuietLedger DEF LoopInv, LedgerInv, LedgerTypeOK, Succeed, Fail, Crash, ledgerVars
<1>3. RunTypeOK'
  BY DEF LoopInv, RunTypeOK, Succeed, Fail, Crash, runVars, Requeued
<1> QED BY <1>1, <1>2, <1>3 DEF LoopInv

LEMMA BeginKeeps ==
  ASSUME LedgerAssumption, LoopAssumption, LoopInv, NEW r \in Role, NEW a \in Attempt, Begin(r, a)
  PROVE  LoopInv'
<1>1. CallInv'
  <2>1. CASE run[r] = "completed"
    BY <2>1, QuietDrop DEF LoopInv, Begin, ledgerVars
  <2>2. CASE run[r] # "completed"
    <3>1. PICK m : m = [work[r][a] EXCEPT !.at = "recover", !.pending = ActiveRows(r),
                                          !.fresh = transcript[r] = Missing]
      OBVIOUS
    <3>2. work[r][a] \in Memory /\ ActiveRows(r) \in SUBSET Call
      BY DEF LoopInv, CallInv, ActiveRows
    <3>3. m \in Memory /\ m.at = "recover"
      BY <3>1, <3>2 DEF Memory, Position
    <3>4. Update(r, a, m)
      BY <2>2, <3>1 DEF Begin
    <3> QED BY <3>3, <3>4, QuietStep DEF LoopInv, Begin, ledgerVars, InCall, InTool
  <2> QED BY <2>1, <2>2
<1>2. LedgerInv'
  BY QuietLedger DEF LoopInv, LedgerInv, LedgerTypeOK, Begin, ledgerVars
<1>3. RunTypeOK'
  BY DEF LoopInv, RunTypeOK, Begin
<1> QED BY <1>1, <1>2, <1>3 DEF LoopInv

LEMMA RecoverKeeps ==
  ASSUME LedgerAssumption, LoopAssumption, LoopInv, NEW r \in Role, NEW a \in Attempt,
         RecoverRun(r, a)
  PROVE  LoopInv'
<1>1. work[r][a] \in Memory /\ At(r, a, "recover")
  BY DEF LoopInv, CallInv, RecoverRun
<1>2. PICK c \in work[r][a].pending :
        /\ ExpireReservation(r, c)
        /\ Update(r, a, [work[r][a] EXCEPT !.pending = @ \ {c}])
  BY DEF RecoverRun
<1>3. PICK m : m = [work[r][a] EXCEPT !.pending = @ \ {c}]
  OBVIOUS
<1>4. m \in Memory /\ m.at = "recover" /\ c \in Call
  BY <1>1, <1>3 DEF Memory, At
<1>5. /\ LedgerInv' /\ NothingUncharged'
      /\ \A s \in Role, d \in Call : row'[s][d].status = "none" <=> row[s][d].status = "none"
  BY <1>2, <1>4, ExpireCharges DEF LoopInv, RecoverRun
<1>6. CallInv'
  BY <1>2, <1>3, <1>4, <1>5, LeavesCall DEF LoopInv, RecoverRun, runVars, InCall, InTool
<1>7. RunTypeOK'
  BY DEF LoopInv, RunTypeOK, RecoverRun, runVars
<1> QED BY <1>5, <1>6, <1>7 DEF LoopInv

LEMMA LoadKeeps ==
  ASSUME LedgerAssumption, LoopAssumption, LoopInv, NEW r \in Role, NEW a \in Attempt, Load(r, a)
  PROVE  LoopInv'
<1> DEFINE msgs == LoadMessages(r)
<1>1. msgs \in Seq(Message)
  BY DEF LoopInv, RunTypeOK, LoadMessages
<1>2. PICK idle : idle = Idle
  OBVIOUS
<1>3. PICK m : m = [idle EXCEPT !.at = "loop", !.msgs = msgs]
  OBVIOUS
<1>4. Update(r, a, m)
  BY <1>2, <1>3 DEF Load
<1>5. m \in Memory /\ m.at = "loop"
  <2> HIDE DEF msgs
  <2> QED BY <1>1, <1>2, <1>3, IdleTyped DEF Memory, Position
<1>6. CallInv'
  BY <1>4, <1>5, QuietStep DEF LoopInv, Load, ledgerVars, InCall, InTool
<1>7. LedgerInv'
  BY QuietLedger DEF LoopInv, LedgerInv, LedgerTypeOK, Load, ledgerVars
<1>8. RunTypeOK'
  <2>1. \/ transcript' = [transcript EXCEPT ![r] = msgs] /\ turn' = [turn EXCEPT ![r] = 0]
        \/ UNCHANGED <<transcript, turn>>
    BY DEF Load
  <2> HIDE DEF msgs
  <2>2. /\ DOMAIN transcript' = Role
        /\ \A s \in Role : transcript'[s] = Missing \/ transcript'[s] \in Seq(Message)
    BY <1>1, <2>1 DEF LoopInv, RunTypeOK
  <2>3. turn' \in [Role -> Nat]
    BY <2>1 DEF LoopInv, RunTypeOK
  <2> QED BY <2>2, <2>3 DEF LoopInv, RunTypeOK, Load
<1> QED BY <1>6, <1>7, <1>8 DEF LoopInv

LEMMA LoopTurnKeeps ==
  ASSUME LedgerAssumption, LoopAssumption, LoopInv, NEW r \in Role, NEW a \in Attempt, LoopTurn(r, a)
  PROVE  LoopInv'
<1> DEFINE msgs == work[r][a].msgs
<1>1. work[r][a] \in Memory /\ msgs \in Seq(Message) /\ level \in Level /\ turn[r] \in Nat
  BY DEF LoopInv, CallInv, Memory, LedgerInv, LedgerTypeOK, RunTypeOK
<1>2. PICK idle : idle = Idle
  OBVIOUS
<1>3. PICK start : start = [idle EXCEPT !.msgs = msgs, !.turn = turn[r]]
  OBVIOUS
<1> HIDE DEF msgs
<1>4. start \in Memory /\ start.msgs = msgs
  BY <1>1, <1>2, <1>3, IdleTyped DEF Memory
<1>5. UNCHANGED <<job, attempts, transcript, turn, nextCall, invocation, context, sent>>
  BY DEF LoopTurn
<1>6. CASE Throw(r, a, TRUE) /\ UNCHANGED <<ledgerVars, run>>
  <2>1. CallInv'
    BY <1>5, <1>6, QuietDrop DEF LoopInv, ledgerVars
  <2>2. LedgerInv'
    BY <1>6, QuietLedger DEF LoopInv, LedgerInv, LedgerTypeOK, ledgerVars
  <2> QED BY <1>5, <1>6, <2>1, <2>2 DEF LoopInv, RunTypeOK
<1>7. CASE Update(r, a, [Idle EXCEPT !.at = "complete"]) /\ UNCHANGED <<ledgerVars, run>>
  <2>1. PICK m : m = [idle EXCEPT !.at = "complete"]
    OBVIOUS
  <2>2. m \in Memory /\ m.at = "complete"
    BY <1>2, <2>1, IdleTyped DEF Memory, Position
  <2>3. CallInv'
    BY <1>2, <1>5, <1>7, <2>1, <2>2, QuietStep DEF LoopInv, ledgerVars, InCall, InTool
  <2>4. LedgerInv'
    BY <1>7, QuietLedger DEF LoopInv, LedgerInv, LedgerTypeOK, ledgerVars
  <2> QED BY <1>5, <1>7, <2>3, <2>4 DEF LoopInv, RunTypeOK
<1>8. CASE /\ PendingTool(msgs)
           /\ Update(r, a, [start EXCEPT !.at = "tool", !.level = level])
           /\ UNCHANGED <<ledgerVars, run>>
  <2>1. PICK m : m = [start EXCEPT !.at = "tool", !.level = level]
    OBVIOUS
  <2>2. m \in Memory /\ m.at = "tool" /\ m.msgs = msgs
    BY <1>1, <1>4, <2>1 DEF Memory, Position
  <2>3. CallInv'
    BY <1>5, <1>8, <2>1, <2>2, QuietStep DEF LoopInv, ledgerVars, InCall
  <2>4. LedgerInv'
    BY <1>8, QuietLedger DEF LoopInv, LedgerInv, LedgerTypeOK, ledgerVars
  <2> QED BY <1>5, <1>8, <2>3, <2>4 DEF LoopInv, RunTypeOK
<1>9. CASE End(r, a) /\ Degrade(r, "budget_exhausted")
  <2>1. LedgerInv' /\ row' = row
        /\ run' \in [Role -> {Missing, "running", "completed", "budget_exhausted", "failed"}]
    BY <1>9, DegradeKeeps DEF LoopInv
  <2>2. CallInv'
    BY <1>5, <1>9, <2>1, QuietDrop DEF LoopInv
  <2> QED BY <1>5, <2>1, <2>2 DEF LoopInv, RunTypeOK
<1>10. CASE Update(r, a, [start EXCEPT !.at = "call"]) /\ UNCHANGED <<ledgerVars, run>>
  <2>1. PICK m : m = [start EXCEPT !.at = "call"]
    OBVIOUS
  <2>2. m \in Memory /\ m.at = "call"
    BY <1>4, <2>1 DEF Memory, Position
  <2>3. CallInv'
    BY <1>5, <1>10, <2>1, <2>2, QuietStep DEF LoopInv, ledgerVars, InCall, InTool
  <2>4. LedgerInv'
    BY <1>10, QuietLedger DEF LoopInv, LedgerInv, LedgerTypeOK, ledgerVars
  <2> QED BY <1>5, <1>10, <2>3, <2>4 DEF LoopInv, RunTypeOK
<1> QED BY <1>2, <1>3, <1>6, <1>7, <1>8, <1>9, <1>10, Zenon DEF LoopTurn, msgs

LEMMA ExecuteToolKeeps ==
  ASSUME LedgerAssumption, LoopAssumption, LoopInv, NEW r \in Role, NEW a \in Attempt, ExecuteTool(r, a)
  PROVE  LoopInv'
<1>1. PICK result \in Result :
        /\ Update(r, a, [work[r][a] EXCEPT !.at = "store", !.level = 0, !.outcome = result])
        /\ UNCHANGED degraded \/ degraded' = TRUE
        /\ UNCHANGED run \/ run' = [run EXCEPT ![r] = "failed"]
  BY DEF ExecuteTool
<1>2. PICK m : m = [work[r][a] EXCEPT !.at = "store", !.level = 0, !.outcome = result]
  OBVIOUS
<1>3. work[r][a] \in Memory /\ work[r][a].at = "tool" /\ PendingTool(work[r][a].msgs)
  BY DEF LoopInv, CallInv, MemoryOK, ExecuteTool, At, InTool
<1>4. m \in Memory /\ m.at = "store" /\ m.msgs = work[r][a].msgs
  <2>1. PICK k : k = work[r][a]
    OBVIOUS
  <2>2. 0 \in Level /\ k \in Memory
    BY <1>3, <2>1 DEF Level
  <2> QED BY <1>2, <2>1, <2>2 DEF Memory, Position
<1>5. UNCHANGED <<ledger, row, level, cancelled, job, attempts, transcript, turn, nextCall,
                  invocation, context, sent>>
  BY DEF ExecuteTool
<1>6. CallInv'
  BY <1>1, <1>2, <1>3, <1>4, <1>5, QuietStep DEF LoopInv, InCall
<1>7. LedgerInv'
  BY <1>1, <1>5, QuietLedger DEF LoopInv, LedgerInv, LedgerTypeOK
<1>8. run' \in [Role -> {Missing, "running", "completed", "budget_exhausted", "failed"}]
  BY <1>1 DEF LoopInv, RunTypeOK
<1> QED BY <1>5, <1>6, <1>7, <1>8 DEF LoopInv, RunTypeOK

LEMMA StoreResultKeeps ==
  ASSUME LedgerAssumption, LoopAssumption, LoopInv, NEW r \in Role, NEW a \in Attempt, StoreResult(r, a)
  PROVE  LoopInv'
<1>1. work[r][a] \in Memory /\ work[r][a].at = "store" /\ PendingTool(work[r][a].msgs)
  BY DEF LoopInv, CallInv, MemoryOK, StoreResult, At, InTool
<1>2. work[r][a].outcome \in Result /\ ToolOf(r, a) \in Tool
  BY <1>1, AnswerTyped DEF Memory, ToolOf
<1>3. PICK result \in Result :
        /\ invocation' = [invocation EXCEPT ![r][work[r][a].turn - 1] =
                             [tool |-> ToolOf(r, a), result |-> result]]
        /\ Update(r, a, [work[r][a] EXCEPT !.at = "answer", !.outcome = result])
  BY <1>2 DEF StoreResult, Result
<1>4. PICK m : m = [work[r][a] EXCEPT !.at = "answer", !.outcome = result]
  OBVIOUS
<1>5. m \in Memory /\ m.at = "answer" /\ m.msgs = work[r][a].msgs
  BY <1>1, <1>4 DEF Memory, Position
<1>6. /\ UNCHANGED <<ledger, row, level, cancelled, job, attempts, run, transcript, turn, nextCall, sent>>
      /\ context' = context \/ context' = context + 1
      /\ degraded' \in BOOLEAN
  BY DEF StoreResult, LoopInv, LedgerInv, LedgerTypeOK
<1>7. CallInv'
  BY <1>1, <1>3, <1>4, <1>5, <1>6, QuietStep DEF LoopInv, InCall
<1>8. LedgerInv'
  BY <1>6, QuietLedger DEF LoopInv, LedgerInv, LedgerTypeOK
<1>9. invocation' \in [Role -> [Turn -> Invocation \cup {Missing}]]
  <2>1. [tool |-> ToolOf(r, a), result |-> result] \in Invocation
    BY <1>2 DEF Invocation
  <2> QED BY <1>3, <2>1 DEF LoopInv, RunTypeOK
<1>10. context' \in Nat
  BY <1>6 DEF LoopInv, RunTypeOK
<1> QED BY <1>6, <1>7, <1>8, <1>9, <1>10 DEF LoopInv, RunTypeOK

LEMMA CheckpointKeeps ==
  ASSUME LedgerAssumption, LoopInv, NEW r \in Role, NEW a \in Attempt, NEW message \in Message,
         NEW next \in Nat, NEW pos \in {"loop", "spoken", "complete"},
         Checkpoint(r, a, message, next, pos), UNCHANGED <<nextCall, sent, row>>
  PROVE  /\ CallInv' /\ turn' \in [Role -> Nat] /\ DOMAIN transcript' = Role
         /\ \A s \in Role : transcript'[s] = Missing \/ transcript'[s] \in Seq(Message)
<1>1. PICK msgs : msgs = Append(work[r][a].msgs, message)
  OBVIOUS
<1>2. work[r][a].msgs \in Seq(Message)
  BY DEF LoopInv, CallInv, Memory
<1>3. msgs \in Seq(Message)
  BY <1>1, <1>2
<1>4. PICK idle : idle = Idle
  OBVIOUS
<1>5. PICK m : m = IF pos = "loop" THEN [idle EXCEPT !.at = pos, !.msgs = msgs]
                                   ELSE [idle EXCEPT !.at = pos]
  OBVIOUS
<1>6. m \in Memory /\ m.at = pos
  <2>1. CASE pos = "loop"
    BY <1>3, <1>4, <1>5, <2>1, IdleTyped DEF Memory, Position
  <2>2. CASE pos # "loop"
    BY <1>4, <1>5, <2>2, IdleTyped DEF Memory, Position
  <2> QED BY <2>1, <2>2
<1>7. Update(r, a, m) /\ transcript' = [transcript EXCEPT ![r] = msgs]
      /\ turn' = [turn EXCEPT ![r] = next]
  BY <1>1, <1>4, <1>5 DEF Checkpoint
<1>8. CallInv'
  BY <1>6, <1>7, QuietStep DEF LoopInv, InCall, InTool
<1>9. turn' \in [Role -> Nat]
  BY <1>7 DEF LoopInv, RunTypeOK
<1>10. /\ DOMAIN transcript' = Role
       /\ \A s \in Role : transcript'[s] = Missing \/ transcript'[s] \in Seq(Message)
  BY <1>3, <1>7 DEF LoopInv, RunTypeOK
<1> QED BY <1>8, <1>9, <1>10

LEMMA AnswerToolKeeps ==
  ASSUME LedgerAssumption, LoopAssumption, LoopInv, NEW r \in Role, NEW a \in Attempt, AnswerTool(r, a)
  PROVE  LoopInv'
<1>1. /\ work[r][a].outcome \in Result /\ ToolOf(r, a) \in Tool /\ work[r][a].turn \in Nat
  <2>1. work[r][a] \in Memory /\ work[r][a].at = "answer" /\ PendingTool(work[r][a].msgs)
    BY DEF LoopInv, CallInv, MemoryOK, AnswerTool, At, InTool
  <2> QED BY <2>1, AnswerTyped DEF Memory, ToolOf
<1>2. PICK message : message = [kind |-> "result", tool |-> ToolOf(r, a), outcome |-> work[r][a].outcome]
  OBVIOUS
<1>3. message \in Message
  BY <1>1, <1>2 DEF Message
<1>4. PICK pos \in {"loop", "spoken", "complete"} : Checkpoint(r, a, message, work[r][a].turn, pos)
  BY <1>2 DEF AnswerTool
<1>5. UNCHANGED <<ledgerVars, job, attempts, nextCall, invocation, context, sent>>
      /\ run' = [run EXCEPT ![r] = "running"]
  BY DEF AnswerTool
<1>6. /\ CallInv' /\ turn' \in [Role -> Nat] /\ DOMAIN transcript' = Role
      /\ \A s \in Role : transcript'[s] = Missing \/ transcript'[s] \in Seq(Message)
  BY <1>1, <1>3, <1>4, <1>5, CheckpointKeeps DEF ledgerVars
<1>7. LedgerInv'
  BY <1>5, QuietLedger DEF LoopInv, LedgerInv, LedgerTypeOK, ledgerVars
<1>8. run' \in [Role -> {Missing, "running", "completed", "budget_exhausted", "failed"}]
  BY <1>5 DEF LoopInv, RunTypeOK
<1> QED BY <1>5, <1>6, <1>7, <1>8 DEF LoopInv, RunTypeOK

LEMMA CompleteKeeps ==
  ASSUME LedgerAssumption, LoopAssumption, LoopInv, NEW r \in Role, NEW a \in Attempt,
         Complete(r, a) \/ Spoken(r, a)
  PROVE  LoopInv'
<1>1. End(r, a) /\ UNCHANGED <<job, attempts, transcript, turn, nextCall, invocation, context, sent>>
  BY DEF Complete, Spoken
<1>2. /\ LedgerInv' /\ row' = row
      /\ run' \in [Role -> {Missing, "running", "completed", "budget_exhausted", "failed"}]
  <2>1. CASE Degrade(r, "failed")
    BY <2>1, DegradeKeeps DEF LoopInv
  <2>2. CASE run' = [run EXCEPT ![r] = "completed"] /\ UNCHANGED ledgerVars
    BY <2>2, QuietLedger DEF LoopInv, RunTypeOK, LedgerInv, LedgerTypeOK, ledgerVars
  <2> QED BY <2>1, <2>2 DEF Complete, Spoken
<1>3. CallInv'
  BY <1>1, <1>2, QuietDrop DEF LoopInv
<1> QED BY <1>1, <1>2, <1>3 DEF LoopInv, RunTypeOK

\* The call gets a number of its own and, where it is allowed, a row.
LEMMA ReserveCallKeeps ==
  ASSUME LedgerAssumption, LoopAssumption, LoopInv, NEW r \in Role, NEW a \in Attempt,
         ReserveCall(r, a)
  PROVE  LoopInv'
<1>1. /\ work[r][a] \in Memory /\ nextCall \in [Role -> 0..MaxCall] /\ nextCall[r] < MaxCall
      /\ nextCall' = [nextCall EXCEPT ![r] = @ + 1] /\ MaxCall \in Nat
  BY DEF LoopInv, CallInv, ReserveCall, LedgerAssumption
<1>2. PICK c : c = nextCall[r] + 1
  OBVIOUS
<1>3. /\ c \in Call /\ c > nextCall[r] /\ nextCall'[r] = c
      /\ nextCall' \in [Role -> 0..MaxCall] /\ \A s \in Role \ {r} : nextCall'[s] = nextCall[s]
  BY <1>1, <1>2 DEF Call
<1>4. UNCHANGED <<job, attempts, transcript, turn, invocation, context, sent>>
  BY DEF ReserveCall
<1>5. row[r][c].status = "none" /\ sent[r][c] = 0
  BY <1>3 DEF LoopInv, CallInv, NothingUncharged
<1>6. ASSUME NEW m \in Memory, Update(r, a, m), ~InTool(m),
             InCall(m) => m.at = "reserved" /\ m.call = c /\ row'[r][c].status = "active",
             row'[r][c].status # "active" => row'[r][c] = row[r][c],
             row'[r][c].size \in Nat,
             \A s \in Role, d \in Call : s # r \/ d # c => row'[s][d] = row[s][d]
      PROVE  CallInv'
  <2>1. /\ work' \in [Role -> [Attempt -> Memory]] /\ work'[r][a] = m
        /\ \A s \in Role, b \in Attempt : s # r \/ b # a => work'[s][b] = work[s][b]
    BY <1>6, Updated DEF LoopInv, CallInv
  <2>2. ASSUME NEW s \in Role, NEW b \in Attempt, s # r \/ b # a, InCall(work[s][b])
        PROVE  /\ work[s][b].call \in Call /\ (s = r => work[s][b].call < c)
               /\ work[s][b].call \in 1..nextCall[s] /\ row[s][work[s][b].call].status # "none"
    <3>1. MemoryOK(s, work[s][b])
      BY DEF LoopInv, CallInv
    <3> QED BY <1>1, <1>2, <2>2, <3>1 DEF MemoryOK, Call
  <2>3. ASSUME NEW s \in Role, NEW b \in Attempt PROVE MemoryOK(s, work[s][b])'
    <3>1. CASE s = r /\ b = a
      <4>1. c \in 1..nextCall'[r]
        BY <1>3 DEF Call
      <4> QED BY <1>4, <1>5, <1>6, <2>1, <3>1, <4>1 DEF MemoryOK, InCall
    <3>2. CASE s # r \/ b # a
      <4>1. work'[s][b] = work[s][b] /\ MemoryOK(s, work[s][b])
        BY <2>1, <3>2 DEF LoopInv, CallInv
      <4>2. CASE ~InCall(work[s][b])
        BY <4>1, <4>2 DEF MemoryOK, InCall
      <4>3. CASE InCall(work[s][b])
        <5>1. PICK d : d = work[s][b].call
          OBVIOUS
        <5>2. d \in Call /\ (s = r => d < c) /\ d \in 1..nextCall[s] /\ row[s][d].status # "none"
          BY <2>2, <3>2, <4>3, <5>1
        <5>3. d \in 1..nextCall'[s] /\ row'[s][d] = row[s][d]
          <6>1. s = r => d # c
            BY <1>3, <5>2 DEF Call
          <6>2. row'[s][d] = row[s][d]
            BY <1>6, <5>2, <6>1
          <6>3. nextCall[s] \in Nat /\ nextCall'[s] \in Nat /\ nextCall[s] <= nextCall'[s]
            BY <1>1, <1>2, <1>3
          <6> QED BY <5>2, <6>2, <6>3
        <5> QED BY <1>4, <4>1, <5>1, <5>2, <5>3 DEF MemoryOK
      <4> QED BY <4>2, <4>3
    <3> QED BY <3>1, <3>2
  <2>4. ASSUME NEW s \in Role, NEW b \in Attempt, NEW d \in Attempt, b # d,
               InCall(work'[s][b]), InCall(work'[s][d])
        PROVE  work'[s][b].call # work'[s][d].call
    <3>1. CASE s = r /\ b = a
      <4>1. work'[s][b].call = c /\ work'[s][d] = work[s][d]
        BY <1>6, <2>1, <2>4, <3>1
      <4>2. work[s][d].call < c /\ work[s][d].call \in Call
        BY <2>2, <2>4, <3>1, <4>1
      <4> QED BY <1>3, <4>1, <4>2 DEF Call
    <3>2. CASE s = r /\ d = a
      <4>1. work'[s][d].call = c /\ work'[s][b] = work[s][b]
        BY <1>6, <2>1, <2>4, <3>2
      <4>2. work[s][b].call < c /\ work[s][b].call \in Call
        BY <2>2, <2>4, <3>2, <4>1
      <4> QED BY <1>3, <4>1, <4>2 DEF Call
    <3>3. CASE (s # r \/ b # a) /\ (s # r \/ d # a)
      BY <2>1, <2>4, <3>3 DEF LoopInv, CallInv
    <3> QED BY <3>1, <3>2, <3>3
  <2>5. ASSUME NEW s \in Role, NEW d \in Call, d > nextCall'[s] PROVE row'[s][d].status = "none"
    <3>1. nextCall[s] \in Nat /\ nextCall'[s] \in Nat /\ nextCall[s] <= nextCall'[s]
      BY <1>1, <1>2, <1>3
    <3>2. d > nextCall[s] /\ (s # r \/ d # c)
      BY <1>3, <2>5, <3>1 DEF Call
    <3> QED BY <1>6, <3>2, SMTT(30) DEF LoopInv, CallInv
  <2>6. ASSUME NEW s \in Role, NEW d \in Call
        PROVE  /\ row'[s][d].status = "none" => sent[s][d] = 0
               /\ row'[s][d].status = "active" => sent[s][d] <= row'[s][d].size
               /\ row'[s][d].status \in {"settled", "expired"} => sent[s][d] <= row'[s][d].charge
    <3>1. CASE s = r /\ d = c
      BY <1>5, <1>6, <3>1
    <3>2. CASE s # r \/ d # c
      BY <1>6, <3>2 DEF LoopInv, CallInv, NothingUncharged
    <3> QED BY <3>1, <3>2
  <2>7. NothingUncharged'
    BY <1>4, <2>6 DEF NothingUncharged
  <2>8. sent' \in [Role -> [Call -> Nat]]
    BY <1>4 DEF LoopInv, CallInv
  <2> QED BY <1>3, <2>1, <2>3, <2>4, <2>5, <2>7, <2>8 DEF CallInv
<1>7. PICK size \in Size :
        \/ End(r, a) /\ Degrade(r, "failed")
        \/ /\ Reserve(r, c, size)
           /\ IF Allowed(r, c, size)
              THEN /\ Update(r, a, [work[r][a] EXCEPT !.at = "reserved", !.call = c])
                   /\ UNCHANGED run
              ELSE End(r, a) /\ run' = [run EXCEPT ![r] = "budget_exhausted"]
  <2>1. nextCall'[r] = c
    BY <1>3
  <2> QED BY <2>1 DEF ReserveCall
<1>8. CASE End(r, a) /\ Degrade(r, "failed")
  <2>1. /\ LedgerInv' /\ row' = row
        /\ run' \in [Role -> {Missing, "running", "completed", "budget_exhausted", "failed"}]
    BY <1>8, DegradeKeeps DEF LoopInv
  <2>2. PICK m \in Memory : Update(r, a, m) /\ m.at \in {"dead", "end", "error"}
    BY <1>8, Drops
  <2>3. row[r][c].size \in Nat
    BY <1>3 DEF LoopInv, LedgerInv, LedgerTypeOK, Row
  <2>4. CallInv'
    BY <1>6, <2>1, <2>2, <2>3 DEF InCall, InTool
  <2> QED BY <1>4, <2>1, <2>4 DEF LoopInv, RunTypeOK
<1>9. CASE Reserve(r, c, size)
  <2>1. size \in Nat
    BY DEF LoopAssumption
  <2>2. /\ LedgerInv' /\ cancelled' = cancelled
        /\ row' \in [Role -> [Call -> Row]]
        /\ row'[r][c] = IF Allowed(r, c, size)
                        THEN [status |-> "active", size |-> size, charge |-> 0] ELSE row[r][c]
        /\ \A s \in Role, d \in Call : s # r \/ d # c => row'[s][d] = row[s][d]
    BY <1>3, <1>9, <2>1, ReserveKeeps DEF LoopInv
  <2>3. CASE Allowed(r, c, size)
    <3>1. CASE Update(r, a, [work[r][a] EXCEPT !.at = "reserved", !.call = c]) /\ UNCHANGED run
      <4>1. PICK m : m = [work[r][a] EXCEPT !.at = "reserved", !.call = c]
        OBVIOUS
      <4>2. c \in 0..MaxCall
        BY <1>1, <1>3 DEF Call
      <4>3. m \in Memory /\ m.at = "reserved" /\ m.call = c
        BY <1>1, <4>1, <4>2 DEF Memory, Position
      <4>4. row'[r][c].status = "active" /\ row'[r][c].size \in Nat
        BY <2>1, <2>2, <2>3
      <4>5. CallInv'
        BY <1>6, <2>2, <3>1, <4>1, <4>3, <4>4 DEF InTool
      <4> QED BY <1>4, <2>2, <3>1, <4>5 DEF LoopInv, RunTypeOK
    <3>2. CASE End(r, a) /\ Degrade(r, "failed")
      BY <1>8, <3>2
    <3> QED BY <1>7, <2>3, <3>1, <3>2
  <2>4. CASE ~Allowed(r, c, size)
    <3>1. CASE End(r, a) /\ run' = [run EXCEPT ![r] = "budget_exhausted"]
      <4>1. PICK m \in Memory : Update(r, a, m) /\ m.at \in {"dead", "end", "error"}
        BY <3>1, Drops
      <4>2. row'[r][c] = row[r][c] /\ row[r][c].size \in Nat
        BY <1>3, <2>2, <2>4 DEF LoopInv, LedgerInv, LedgerTypeOK, Row
      <4>3. CallInv'
        BY <1>6, <2>2, <4>1, <4>2 DEF InCall, InTool
      <4>4. run' \in [Role -> {Missing, "running", "completed", "budget_exhausted", "failed"}]
        BY <3>1 DEF LoopInv, RunTypeOK
      <4> QED BY <1>4, <2>2, <4>3, <4>4 DEF LoopInv, RunTypeOK
    <3>2. CASE End(r, a) /\ Degrade(r, "failed")
      BY <1>8, <3>2
    <3> QED BY <1>7, <2>4, <3>1, <3>2
  <2> QED BY <2>3, <2>4
<1> QED BY <1>7, <1>8, <1>9

\* The provider bills a call once, and at most what it was reserved for.
LEMMA AskProviderKeeps ==
  ASSUME LedgerAssumption, LoopAssumption, ReplyAssumption, LoopInv, NEW r \in Role, NEW a \in Attempt,
         AskProvider(r, a)
  PROVE  LoopInv'
<1>1. PICK c : c = work[r][a].call
  OBVIOUS
<1>2. /\ work[r][a] \in Memory /\ work[r][a].at = "reserved" /\ MemoryOK(r, work[r][a])
      /\ nextCall[r] \in 0..MaxCall /\ MaxCall \in Nat
  BY DEF LoopInv, CallInv, AskProvider, At, LedgerAssumption
<1>3. c \in Call /\ c \in 1..nextCall[r] /\ row[r][c].status # "none" /\ sent[r][c] = 0
  BY <1>1, <1>2 DEF MemoryOK, InCall, Call
<1>4. PICK reply \in Replies[r], cost \in 1..CallSize(r, a) :
        /\ Update(r, a, [work[r][a] EXCEPT !.at = "replied", !.reply = reply])
        /\ sent' = [sent EXCEPT ![r][c] = @ + cost]
  BY <1>1 DEF AskProvider
<1>5. UNCHANGED <<ledgerVars, runVars>>
  BY DEF AskProvider
<1>6. row[r][c] \in Row
  BY <1>3 DEF LoopInv, LedgerInv, LedgerTypeOK
<1>7. /\ cost \in Nat
      /\ row[r][c].status = "active" => cost <= row[r][c].size
      /\ row[r][c].status \in {"settled", "expired"} => cost <= row[r][c].charge
  <2>1. CallSize(r, a) = IF row[r][c].status = "active" THEN row[r][c].size ELSE row[r][c].charge
    BY <1>1 DEF CallSize
  <2>2. CallSize(r, a) \in Nat
    BY <1>6, <2>1 DEF Row
  <2> QED BY <2>1, <2>2
<1>8. PICK m : m = [work[r][a] EXCEPT !.at = "replied", !.reply = reply]
  OBVIOUS
<1>9. m \in Memory /\ m.at = "replied" /\ m.call = c
  <2>1. reply \in Reply
    BY DEF ReplyAssumption
  <2> QED BY <1>1, <1>2, <1>8, <2>1 DEF Memory, Position
<1>10. /\ work' \in [Role -> [Attempt -> Memory]] /\ work'[r][a] = m
       /\ \A s \in Role, b \in Attempt : s # r \/ b # a => work'[s][b] = work[s][b]
  BY <1>4, <1>8, <1>9, Updated DEF LoopInv, CallInv
<1>11. /\ sent' \in [Role -> [Call -> Nat]] /\ sent'[r][c] = cost
       /\ \A s \in Role, d \in Call : s # r \/ d # c => sent'[s][d] = sent[s][d]
  BY <1>3, <1>4, <1>7 DEF LoopInv, CallInv
<1>12. UNCHANGED <<row, nextCall>>
  BY <1>5 DEF ledgerVars, runVars
<1>13. ASSUME NEW s \in Role, NEW b \in Attempt, NEW d \in Attempt, b # d,
              InCall(work'[s][b]), InCall(work'[s][d])
       PROVE  work'[s][b].call # work'[s][d].call
  <2>1. \A e \in Attempt : /\ InCall(work'[s][e]) => InCall(work[s][e])
                           /\ work'[s][e].call = work[s][e].call
    BY <1>1, <1>2, <1>9, <1>10 DEF InCall
  <2> QED BY <1>13, <2>1 DEF LoopInv, CallInv
<1>14. ASSUME NEW s \in Role, NEW b \in Attempt PROVE MemoryOK(s, work[s][b])'
  <2>1. CASE s = r /\ b = a
    BY <1>3, <1>9, <1>10, <1>12, <2>1 DEF MemoryOK, InTool
  <2>2. CASE s # r \/ b # a
    <3>1. work'[s][b] = work[s][b] /\ MemoryOK(s, work[s][b]) /\ nextCall[s] \in 0..MaxCall
      BY <1>10, <2>2 DEF LoopInv, CallInv
    <3>2. InCall(work[s][b]) => /\ work[s][b].call \in Call
                                /\ s = r => work[s][b].call # c
      <4>1. InCall(work[r][a])
        BY <1>2 DEF InCall
      <4>2. InCall(work[s][b]) => work[s][b].call \in Call
        BY <1>2, <3>1 DEF MemoryOK, Call
      <4> QED BY <1>1, <2>2, <4>1, <4>2 DEF LoopInv, CallInv
    <3>3. CASE ~InCall(work[s][b])
      BY <3>1, <3>3 DEF MemoryOK, InCall
    <3>4. CASE InCall(work[s][b])
      BY <1>11, <1>12, <3>1, <3>2, <3>4 DEF MemoryOK
    <3> QED BY <3>3, <3>4
  <2> QED BY <2>1, <2>2
<1>15. ASSUME NEW s \in Role, NEW d \in Call
       PROVE  /\ row[s][d].status = "none" => sent'[s][d] = 0
              /\ row[s][d].status = "active" => sent'[s][d] <= row[s][d].size
              /\ row[s][d].status \in {"settled", "expired"} => sent'[s][d] <= row[s][d].charge
  <2>1. CASE s = r /\ d = c
    BY <1>3, <1>7, <1>11, <2>1
  <2>2. CASE s # r \/ d # c
    BY <1>11, <2>2 DEF LoopInv, CallInv, NothingUncharged
  <2> QED BY <2>1, <2>2
<1>16. CallInv'
  <2>1. NothingUncharged'
    BY <1>12, <1>15 DEF NothingUncharged
  <2>2. /\ nextCall' \in [Role -> 0..MaxCall]
        /\ \A s \in Role, d \in Call : d > nextCall'[s] => row'[s][d].status = "none"
    BY <1>12 DEF LoopInv, CallInv
  <2> QED BY <1>10, <1>11, <1>13, <1>14, <2>1, <2>2 DEF CallInv
<1>17. LedgerInv'
  BY <1>5, QuietLedger DEF LoopInv, LedgerInv, LedgerTypeOK, ledgerVars
<1>18. RunTypeOK'
  BY <1>5 DEF LoopInv, RunTypeOK, runVars
<1> QED BY <1>16, <1>17, <1>18 DEF LoopInv

LEMMA InCallTyped ==
  ASSUME LedgerAssumption, LoopInv, NEW r \in Role, NEW a \in Attempt, InCall(work[r][a])
  PROVE  work[r][a].call \in Call
<1>1. MemoryOK(r, work[r][a]) /\ nextCall[r] \in 0..MaxCall /\ MaxCall \in Nat
  BY DEF LoopInv, CallInv, LedgerAssumption
<1> QED BY <1>1 DEF MemoryOK, Call

LEMMA SettleCallKeeps ==
  ASSUME LedgerAssumption, LoopAssumption, LoopInv, NEW r \in Role, NEW a \in Attempt,
         SettleCall(r, a)
  PROVE  LoopInv'
<1>1. PICK c : c = work[r][a].call
  OBVIOUS
<1>2. work[r][a] \in Memory /\ InCall(work[r][a])
  BY DEF LoopInv, CallInv, SettleCall, At, InCall
<1>3. c \in Call
  BY <1>1, <1>2, InCallTyped
<1>4. PICK m : m = [work[r][a] EXCEPT !.at = "judge", !.call = 0]
  OBVIOUS
<1>5. m \in Memory /\ m.at = "judge"
  <2>1. 0 \in 0..MaxCall
    BY DEF LedgerAssumption
  <2> QED BY <1>2, <1>4, <2>1 DEF Memory, Position
<1>6. /\ Update(r, a, m) /\ UNCHANGED <<runVars, sent>>
      /\ Settle(r, c, sent[r][c], "settled") \/ ExpireReservation(r, c)
  BY <1>1, <1>4 DEF SettleCall
<1>7. /\ LedgerInv' /\ NothingUncharged'
      /\ \A s \in Role, d \in Call : row'[s][d].status = "none" <=> row[s][d].status = "none"
  <2>1. CASE ExpireReservation(r, c)
    BY <1>3, <1>6, <2>1, ExpireCharges DEF LoopInv
  <2>2. CASE Settle(r, c, sent[r][c], "settled")
    <3>1. PICK charge : charge = sent[r][c]
      OBVIOUS
    <3>2. /\ charge \in Nat /\ sent[r][c] <= charge
          /\ row[r][c].status = "active" => charge <= row[r][c].size
      BY <1>3, <3>1 DEF LoopInv, CallInv, NothingUncharged
    <3>3. Settle(r, c, charge, "settled") /\ sent' = sent
      BY <1>6, <2>2, <3>1
    <3> QED BY <1>3, <3>2, <3>3, SettleCharges DEF LoopInv
  <2> QED BY <1>6, <2>1, <2>2
<1>8. CallInv'
  BY <1>5, <1>6, <1>7, LeavesCall DEF LoopInv, runVars, InCall, InTool
<1>9. RunTypeOK'
  BY <1>6 DEF LoopInv, RunTypeOK, runVars
<1> QED BY <1>7, <1>8, <1>9 DEF LoopInv

\* A call that is cut short is charged in full, or its row stays.
LEMMA CutShortKeeps ==
  ASSUME LedgerAssumption, LoopAssumption, LoopInv, NEW r \in Role, NEW a \in Attempt,
         NEW permanent \in BOOLEAN, Throw(r, a, permanent),
         \/ UNCHANGED ledgerVars
         \/ InCall(work[r][a]) /\ ExpireReservation(r, work[r][a].call),
         UNCHANGED <<runVars, sent>>
  PROVE  LoopInv'
<1>1. PICK m \in Memory : Update(r, a, m) /\ m.at \in {"dead", "end", "error"}
  BY Drops
<1>2. /\ LedgerInv' /\ NothingUncharged'
      /\ \A s \in Role, d \in Call : row'[s][d].status = "none" <=> row[s][d].status = "none"
  <2>1. CASE UNCHANGED ledgerVars
    <3>1. LedgerInv'
      BY <2>1, QuietLedger DEF LoopInv, LedgerInv, LedgerTypeOK, ledgerVars
    <3> QED BY <2>1, <3>1 DEF LoopInv, CallInv, NothingUncharged, ledgerVars
  <2>2. CASE InCall(work[r][a]) /\ ExpireReservation(r, work[r][a].call)
    BY <2>2, InCallTyped, ExpireCharges DEF LoopInv
  <2> QED BY <2>1, <2>2
<1>3. CallInv'
  BY <1>1, <1>2, LeavesCall DEF LoopInv, runVars, InCall, InTool
<1>4. RunTypeOK'
  BY DEF LoopInv, RunTypeOK, runVars
<1> QED BY <1>2, <1>3, <1>4 DEF LoopInv

LEMMA SettleFailsKeeps ==
  ASSUME LedgerAssumption, LoopAssumption, LoopInv, NEW r \in Role, NEW a \in Attempt,
         SettleFails(r, a)
  PROVE  LoopInv'
<1>1. InCall(work[r][a]) /\ Throw(r, a, FALSE) /\ UNCHANGED <<runVars, sent>>
  BY DEF SettleFails, At, InCall
<1>2. \/ UNCHANGED ledgerVars
      \/ InCall(work[r][a]) /\ ExpireReservation(r, work[r][a].call)
  BY <1>1, Zenon DEF SettleFails
<1> QED BY <1>1, <1>2, CutShortKeeps

LEMMA AbortKeeps ==
  ASSUME LedgerAssumption, LoopAssumption, LoopInv, NEW r \in Role, NEW a \in Attempt, Abort(r, a)
  PROVE  LoopInv'
<1>1. PICK permanent : permanent = cancelled
  OBVIOUS
<1>2. permanent \in BOOLEAN /\ Throw(r, a, permanent) /\ UNCHANGED <<runVars, sent>>
  BY <1>1 DEF Abort, LoopInv, LedgerInv, LedgerTypeOK
<1>3. \/ UNCHANGED ledgerVars
      \/ InCall(work[r][a]) /\ ExpireReservation(r, work[r][a].call)
  BY Zenon DEF Abort, InCall
<1> QED BY <1>2, <1>3, CutShortKeeps

LEMMA JudgeKeeps ==
  ASSUME LedgerAssumption, LoopAssumption, LoopInv, NEW r \in Role, NEW a \in Attempt, Judge(r, a)
  PROVE  LoopInv'
<1> DEFINE reply == work[r][a].reply
           again == Retryable(reply) /\ work[r][a].retry < MaxRetries
<1>1. work[r][a] \in Memory
  BY DEF LoopInv, CallInv
<1>2. UNCHANGED <<job, attempts, nextCall, invocation, context, sent>>
  BY DEF Judge
<1>3. CASE /\ Update(r, a, [work[r][a] EXCEPT !.at = "call", !.retry = @ + 1, !.reply = Idle.reply])
           /\ UNCHANGED <<ledgerVars, run, transcript, turn>>
  <2>1. PICK m : m = [work[r][a] EXCEPT !.at = "call", !.retry = @ + 1, !.reply = Idle.reply]
    OBVIOUS
  <2>2. Idle.reply \in Reply
    BY IdleTyped DEF Reply
  <2>3. m \in Memory /\ m.at = "call"
    <3>1. PICK k, other, retry : /\ k = work[r][a] /\ other = Idle.reply
                                 /\ retry = work[r][a].retry + 1
      OBVIOUS
    <3>2. k \in Memory /\ other \in Reply /\ retry \in Nat
      BY <1>1, <2>2, <3>1 DEF Memory
    <3>3. m = [k EXCEPT !.at = "call", !.retry = retry, !.reply = other]
      BY <2>1, <3>1
    <3> QED BY <3>2, <3>3 DEF Memory, Position
  <2>4. CallInv'
    BY <1>2, <1>3, <2>1, <2>3, QuietStep DEF LoopInv, ledgerVars, InCall, InTool
  <2>5. LedgerInv'
    BY <1>3, QuietLedger DEF LoopInv, LedgerInv, LedgerTypeOK, ledgerVars
  <2> QED BY <1>2, <1>3, <2>4, <2>5 DEF LoopInv, RunTypeOK
<1>4. CASE Throw(r, a, TRUE) /\ UNCHANGED <<ledgerVars, run, transcript, turn>>
  <2>1. CallInv'
    BY <1>2, <1>4, QuietDrop DEF LoopInv, ledgerVars
  <2>2. LedgerInv'
    BY <1>4, QuietLedger DEF LoopInv, LedgerInv, LedgerTypeOK, ledgerVars
  <2> QED BY <1>2, <1>4, <2>1, <2>2 DEF LoopInv, RunTypeOK
<1>5. CASE End(r, a) /\ Degrade(r, "failed") /\ UNCHANGED <<transcript, turn>>
  <2>1. /\ LedgerInv' /\ row' = row
        /\ run' \in [Role -> {Missing, "running", "completed", "budget_exhausted", "failed"}]
    BY <1>5, DegradeKeeps DEF LoopInv
  <2>2. CallInv'
    BY <1>2, <1>5, <2>1, QuietDrop DEF LoopInv
  <2> QED BY <1>2, <1>5, <2>1, <2>2 DEF LoopInv, RunTypeOK
<1>6. ASSUME NEW tool \in Tool \cup {"none"}, NEW pos \in {"loop", "spoken"},
             Checkpoint(r, a, [kind |-> "assistant", tool |-> tool], work[r][a].turn + 1, pos),
             UNCHANGED <<ledgerVars, run>>
      PROVE  LoopInv'
  <2>1. PICK message : message = [kind |-> "assistant", tool |-> tool]
    OBVIOUS
  <2>2. message \in Message /\ work[r][a].turn + 1 \in Nat
    BY <1>1, <2>1, SMTT(30) DEF Message, Answer, Memory
  <2>3. Checkpoint(r, a, message, work[r][a].turn + 1, pos)
    BY <1>6, <2>1
  <2>4. UNCHANGED <<nextCall, sent, row>> /\ pos \in {"loop", "spoken", "complete"}
    BY <1>2, <1>6 DEF ledgerVars
  <2>5. /\ CallInv' /\ turn' \in [Role -> Nat] /\ DOMAIN transcript' = Role
        /\ \A s \in Role : transcript'[s] = Missing \/ transcript'[s] \in Seq(Message)
    BY <2>2, <2>3, <2>4, CheckpointKeeps
  <2>6. LedgerInv'
    BY <1>6, QuietLedger DEF LoopInv, LedgerInv, LedgerTypeOK, ledgerVars
  <2> QED BY <1>2, <1>6, <2>5, <2>6 DEF LoopInv, RunTypeOK
<1>7. \/ /\ Update(r, a, [work[r][a] EXCEPT !.at = "call", !.retry = @ + 1, !.reply = Idle.reply])
         /\ UNCHANGED <<ledgerVars, run, transcript, turn>>
      \/ Throw(r, a, TRUE) /\ UNCHANGED <<ledgerVars, run, transcript, turn>>
      \/ End(r, a) /\ Degrade(r, "failed") /\ UNCHANGED <<transcript, turn>>
      \/ /\ reply \in Tool
         /\ Checkpoint(r, a, [kind |-> "assistant", tool |-> reply], work[r][a].turn + 1, "loop")
         /\ UNCHANGED <<ledgerVars, run>>
      \/ /\ Checkpoint(r, a, [kind |-> "assistant", tool |-> "none"], work[r][a].turn + 1, "spoken")
         /\ UNCHANGED <<ledgerVars, run>>
  BY Zenon DEF Judge
<1> QED BY <1>3, <1>4, <1>5, <1>6, <1>7
-----------------------------------------------------------------------------
LEMMA JobKeeps ==
  ASSUME LedgerAssumption, LoopAssumption, LoopInv,
         Cancel \/ (\E r \in Role : RecoverJob(r)) \/ UNCHANGED vars
  PROVE  LoopInv'
<1>1. UNCHANGED <<ledger, row, level, degraded, attempts, run, transcript, turn, nextCall,
                  invocation, context, work, sent>> /\ cancelled' \in BOOLEAN
  BY DEF Cancel, RecoverJob, vars, ledgerVars, runVars, LoopInv, LedgerInv, LedgerTypeOK
<1>2. job' \in [Role -> {"queued", "running", "succeeded", "failed"}]
  BY DEF Cancel, RecoverJob, Requeued, vars, runVars, LoopInv, RunTypeOK
<1>3. LedgerInv'
  BY <1>1, QuietLedger DEF LoopInv, LedgerInv, LedgerTypeOK
<1>4. CallInv'
  BY <1>1 DEF LoopInv, CallInv, MemoryOK, NothingUncharged
<1>5. RunTypeOK'
  BY <1>1, <1>2 DEF LoopInv, RunTypeOK
<1> QED BY <1>3, <1>4, <1>5 DEF LoopInv

LEMMA LoopNext ==
  ASSUME LedgerAssumption, LoopAssumption, ReplyAssumption, LoopInv, [Next]_vars PROVE LoopInv'
<1>1. CASE Cancel \/ (\E r \in Role : RecoverJob(r)) \/ UNCHANGED vars
  BY <1>1, JobKeeps
<1>2. ASSUME NEW r \in Role, Claim(r) PROVE LoopInv'
  BY <1>2, ClaimKeeps
<1>3. ASSUME NEW r \in Role, NEW a \in Attempt,
             Step(r, a) \/ Crash(r, a) \/ SettleFails(r, a) \/ Abort(r, a)
      PROVE  LoopInv'
  <2>1. CASE Succeed(r, a) \/ Fail(r, a) \/ Crash(r, a)
    BY <2>1, EndingKeeps
  <2>2. CASE Begin(r, a)
    BY <2>2, BeginKeeps
  <2>3. CASE RecoverRun(r, a)
    BY <2>3, RecoverKeeps
  <2>4. CASE Load(r, a)
    BY <2>4, LoadKeeps
  <2>5. CASE LoopTurn(r, a)
    BY <2>5, LoopTurnKeeps
  <2>6. CASE ExecuteTool(r, a)
    BY <2>6, ExecuteToolKeeps
  <2>7. CASE StoreResult(r, a)
    BY <2>7, StoreResultKeeps
  <2>8. CASE AnswerTool(r, a)
    BY <2>8, AnswerToolKeeps
  <2>9. CASE Complete(r, a) \/ Spoken(r, a)
    BY <2>9, CompleteKeeps
  <2>10. CASE ReserveCall(r, a)
    BY <2>10, ReserveCallKeeps
  <2>11. CASE AskProvider(r, a)
    BY <2>11, AskProviderKeeps
  <2>12. CASE SettleCall(r, a)
    BY <2>12, SettleCallKeeps
  <2>13. CASE Judge(r, a)
    BY <2>13, JudgeKeeps
  <2>14. CASE SettleFails(r, a)
    BY <2>14, SettleFailsKeeps
  <2>15. CASE Abort(r, a)
    BY <2>15, AbortKeeps
  <2> QED BY <1>3, <2>1, <2>2, <2>3, <2>4, <2>5, <2>6, <2>7, <2>8, <2>9, <2>10, <2>11, <2>12,
             <2>13, <2>14, <2>15 DEF Step
<1> QED BY <1>1, <1>2, <1>3 DEF Next

LEMMA LoopInit == ASSUME LedgerAssumption, LoopAssumption, Init PROVE LoopInv
<1>1. row = [r \in Role |-> [c \in Call |-> NoRow]] /\ ledger = [s \in Scope |-> Zero]
  BY DEF Init, LedgerInit
<1>2. LedgerTypeOK /\ RowsOK
  <2>1. NoRow \in Row /\ NoRow.size = 0 /\ NoRow.charge = 0
    BY DEF Row, NoRow
  <2>2. Zero \in Counters
    BY DEF Counters, Zero
  <2>3. level \in Level /\ degraded \in BOOLEAN /\ cancelled \in BOOLEAN
    <3>1. level \in Level
      BY DEF Init, LedgerInit, Level
    <3>2. degraded \in BOOLEAN /\ cancelled \in BOOLEAN
      BY Zenon DEF Init, LedgerInit
    <3> QED BY <3>1, <3>2
  <2> QED BY <1>1, <2>1, <2>2, <2>3 DEF LedgerTypeOK, RowsOK
<1>3. LimitsKept
  <2>1. ASSUME NEW s \in Scope PROVE ledger[s].held = 0 /\ ledger[s].used = 0
                                  /\ ledger[s].heldCalls = 0 /\ ledger[s].usedCalls = 0
    BY <1>1 DEF Zero
  <2> QED BY <2>1 DEF LimitsKept, Tokens, Calls, LedgerAssumption
<1>4. LedgerBalanced
  <2>1. IsFiniteSet(Role) /\ IsFiniteSet(Call)
    BY CallFinite DEF LedgerAssumption
  <2>2. ASSUME NEW r \in Role
        PROVE  /\ Held(r) = 0 /\ Used(r) = 0
               /\ Cardinality(ActiveRows(r)) = 0 /\ Cardinality(Closed(r)) = 0
    <3>1. [c \in Call |-> row[r][c].size] = [c \in Call |-> 0]
      BY <1>1 DEF NoRow
    <3>2. [c \in Call |-> row[r][c].charge] = [c \in Call |-> 0]
      BY <1>1 DEF NoRow
    <3>3. ActiveRows(r) = {} /\ Closed(r) = {}
      BY <1>1 DEF ActiveRows, Closed, NoRow
    <3> QED BY <2>1, <3>1, <3>2, <3>3, SumOfZeros, FS_EmptySet DEF Held, Used
  <2>3. \A s \in Scope : ledger[s] = [held |-> 0, used |-> 0, heldCalls |-> 0, usedCalls |-> 0]
    BY <1>1 DEF Zero
  <2>4. Role \subseteq Scope /\ Total \in Scope
    BY DEF Scope
  <2>5. SumOver(Role, [r \in Role |-> 0]) = 0
    BY <2>1, SumOfZeros
  <2>6. /\ [r \in Role |-> ledger[r].held] = [r \in Role |-> 0]
        /\ [r \in Role |-> ledger[r].used] = [r \in Role |-> 0]
        /\ [r \in Role |-> ledger[r].heldCalls] = [r \in Role |-> 0]
        /\ [r \in Role |-> ledger[r].usedCalls] = [r \in Role |-> 0]
    BY <2>3, <2>4
  <2> QED BY <2>2, <2>3, <2>4, <2>5, <2>6 DEF LedgerBalanced
<1>5. RunTypeOK
  BY DEF Init, RunTypeOK, LoopAssumption
<1>6. CallInv
  <2>1. work = [r \in Role |-> [a \in Attempt |-> Idle]] /\ Idle \in Memory /\ Idle.at = "none"
    BY IdleTyped DEF Init
  <2>2. NothingUncharged
    BY <1>1 DEF NothingUncharged, Init, NoRow
  <2>3. nextCall \in [Role -> 0..MaxCall] /\ sent \in [Role -> [Call -> Nat]]
    BY DEF Init, LedgerAssumption
  <2>4. \A r \in Role, c \in Call : row[r][c].status = "none"
    BY <1>1 DEF NoRow
  <2> QED BY <2>1, <2>2, <2>3, <2>4 DEF CallInv, MemoryOK, InCall, InTool
<1> QED BY <1>2, <1>3, <1>4, <1>5, <1>6 DEF LoopInv, LedgerInv, WithinAllowance

LEMMA LoopInvariant ==
  ASSUME LedgerAssumption, LoopAssumption, ReplyAssumption PROVE Spec => []LoopInv
<1>1. Init => LoopInv
  BY LoopInit
<1>2. LoopInv /\ [Next]_vars => LoopInv'
  BY LoopNext
<1> QED BY <1>1, <1>2, PTL DEF Spec

\* The variables of the loop and its budget keep their types.
THEOREM LoopTyped ==
  ASSUME LedgerAssumption, LoopAssumption, ReplyAssumption PROVE Spec => []TypeOK
<1>1. LoopInv => TypeOK
  BY DEF LoopInv, LedgerInv, RunTypeOK, CallInv, TypeOK
<1> QED BY <1>1, LoopInvariant, PTL

\* Whatever the agents of an audit reserve, settle and leave behind, no role and no audit
\* goes past its tokens or its calls, and the counters agree with the rows.
THEOREM AllowancesHold ==
  ASSUME LedgerAssumption, LoopAssumption, ReplyAssumption PROVE Spec => []WithinAllowance
<1>1. LoopInv => WithinAllowance
  BY DEF LoopInv, LedgerInv
<1> QED BY <1>1, LoopInvariant, PTL

\* Each call is charged at least what the provider billed for it.
THEOREM CallsAreCharged ==
  ASSUME LedgerAssumption, LoopAssumption, ReplyAssumption PROVE Spec => []NothingUncharged
<1>1. LoopInv => NothingUncharged
  BY DEF LoopInv, CallInv
<1> QED BY <1>1, LoopInvariant, PTL
-----------------------------------------------------------------------------
(* Transcripts. *)

\* Where an attempt holds the transcript, and where it holds the next turn.
Looping == {"loop", "tool", "store", "answer", "call", "reserved", "replied", "judge"}
Turning == Looping \ {"loop"}

\* What attempt a of role r remembers is what the database holds: no other attempt
\* of r is at work.
Remembers(r, a, m) ==
  /\ m.at \notin {"none", "dead"} => job[r] = "running" /\ attempts[r] = a
  /\ m.at = "recover" => (m.fresh <=> transcript[r] = Missing)
  /\ m.at \in Looping => transcript[r] # Missing /\ m.msgs = transcript[r]
  /\ m.at \in Turning => m.turn = turn[r]

ResumeOK(r) == \A a \in Attempt : Remembers(r, a, work[r][a])
ResumeInv == \A r \in Role : <<"stall", r>> \notin Faults => ResumeOK(r)

Continues(r) ==
  transcript[r] # Missing =>
    /\ turn'[r] >= turn[r]
    /\ transcript'[r] # Missing
    /\ Len(transcript'[r]) >= Len(transcript[r])
    /\ SubSeq(transcript'[r], 1, Len(transcript[r])) = transcript[r]

LEMMA SameContinues ==
  ASSUME RunTypeOK, NEW r \in Role, transcript'[r] = transcript[r], turn'[r] = turn[r]
  PROVE  Continues(r)
<1>1. turn[r] \in Nat
  BY DEF RunTypeOK
<1>2. ASSUME transcript[r] \in Seq(Message)
      PROVE  /\ Len(transcript[r]) >= Len(transcript[r])
             /\ SubSeq(transcript[r], 1, Len(transcript[r])) = transcript[r]
  BY <1>2
<1>3. transcript[r] # Missing => transcript[r] \in Seq(Message)
  BY DEF RunTypeOK
<1> QED BY <1>1, <1>2, <1>3 DEF Continues

\* An attempt that works is alone, so that what it remembers decides.
LEMMA AloneAtWork ==
  ASSUME CallInv, NEW r \in Role, ResumeOK(r), NEW a \in Attempt, Busy(r, a),
         NEW m, Update(r, a, m),
         m.at = "dead" \/ (job'[r] = job[r] /\ attempts'[r] = attempts[r]),
         m.at = "recover" => (m.fresh <=> transcript'[r] = Missing),
         m.at \in Looping => transcript'[r] # Missing /\ m.msgs = transcript'[r],
         m.at \in Turning => m.turn = turn'[r]
  PROVE  ResumeOK(r)'
<1>1. /\ work'[r][a] = m
      /\ \A b \in Attempt : b # a => work'[r][b] = work[r][b]
  BY DEF CallInv, Update
<1>2. job[r] = "running" /\ attempts[r] = a
  BY DEF ResumeOK, Remembers, Busy
<1>3. ASSUME NEW b \in Attempt PROVE Remembers(r, b, work[r][b])'
  <2>1. CASE b = a
    BY <1>1, <1>2, <2>1 DEF Remembers, Looping, Turning
  <2>2. CASE b # a
    <3>1. work'[r][b] = work[r][b] /\ work[r][b].at \in {"none", "dead"}
      BY <1>1, <1>2, <2>2 DEF ResumeOK, Remembers
    <3> QED BY <3>1 DEF Remembers, Looping, Turning
  <2> QED BY <2>1, <2>2
<1> QED BY <1>3 DEF ResumeOK

\* The steps of one role are its own.
LEMMA OthersKept ==
  ASSUME LoopInv, NEW r \in Role, NEW a \in Attempt,
         Step(r, a) \/ Crash(r, a) \/ SettleFails(r, a) \/ Abort(r, a), NEW s \in Role, s # r
  PROVE  /\ job'[s] = job[s] /\ attempts'[s] = attempts[s] /\ work'[s] = work[s]
         /\ transcript'[s] = transcript[s] /\ turn'[s] = turn[s]
<1>1. \A m : Update(r, a, m) => work'[s] = work[s]
  BY DEF LoopInv, CallInv, Update
<1>2. UNCHANGED <<runVars>> => /\ job'[s] = job[s] /\ attempts'[s] = attempts[s]
                               /\ transcript'[s] = transcript[s] /\ turn'[s] = turn[s]
  BY DEF runVars
<1>3. CASE Succeed(r, a) \/ Fail(r, a) \/ Crash(r, a)
  BY <1>1, <1>3 DEF Succeed, Fail, Crash, Leave, LoopInv, RunTypeOK, runVars
<1>4. CASE Begin(r, a)
  BY <1>1, <1>4 DEF Begin, End
<1>5. CASE RecoverRun(r, a)
  BY <1>1, <1>2, <1>5 DEF RecoverRun
<1>6. CASE Load(r, a)
  BY <1>1, <1>6 DEF Load, LoopInv, RunTypeOK
<1>7. CASE LoopTurn(r, a)
  BY <1>1, <1>7, SMTT(30) DEF LoopTurn, End, Throw
<1>8. CASE ExecuteTool(r, a) \/ StoreResult(r, a)
  BY <1>1, <1>8 DEF ExecuteTool, StoreResult
<1>9. CASE AnswerTool(r, a)
  BY <1>1, <1>9 DEF AnswerTool, Checkpoint, LoopInv, RunTypeOK
<1>10. CASE Complete(r, a) \/ Spoken(r, a)
  BY <1>1, <1>10 DEF Complete, Spoken, End
<1>11. CASE ReserveCall(r, a)
  BY <1>1, <1>11 DEF ReserveCall, End
<1>12. CASE AskProvider(r, a)
  BY <1>1, <1>2, <1>12 DEF AskProvider
<1>13. CASE SettleCall(r, a) \/ SettleFails(r, a) \/ Abort(r, a)
  BY <1>1, <1>2, <1>13 DEF SettleCall, SettleFails, Abort, Throw
<1>14. CASE Judge(r, a)
  BY <1>1, <1>14 DEF Judge, Throw, End, Checkpoint, LoopInv, RunTypeOK
<1> QED BY <1>3, <1>4, <1>5, <1>6, <1>7, <1>8, <1>9, <1>10, <1>11, <1>12, <1>13, <1>14 DEF Step

LEMMA OtherJobsKept ==
  ASSUME LoopInv, NEW r \in Role, Claim(r) \/ RecoverJob(r), NEW s \in Role, s # r
  PROVE  /\ job'[s] = job[s] /\ attempts'[s] = attempts[s] /\ work'[s] = work[s]
         /\ transcript'[s] = transcript[s] /\ turn'[s] = turn[s]
BY DEF Claim, RecoverJob, Update, LoopInv, CallInv, RunTypeOK

Resumes(r) == ResumeOK(r)' /\ Continues(r)

\* The value for what is not there is no transcript.
NoTranscript == Missing \notin Seq(Message)

LEMMA DropResumes ==
  ASSUME LedgerAssumption, LoopInv, NEW r \in Role, ResumeOK(r), NEW a \in Attempt, Busy(r, a),
         \/ Leave(r, a)
         \/ /\ End(r, a) \/ \E permanent \in BOOLEAN : Throw(r, a, permanent)
            /\ job' = job /\ attempts' = attempts,
         transcript' = transcript, turn' = turn
  PROVE  Resumes(r)
<1>1. PICK m \in Memory : /\ Update(r, a, m) /\ m.at \in {"dead", "end", "error"}
                          /\ m.at = "dead" \/ (job' = job /\ attempts' = attempts)
  <2>1. CASE Leave(r, a)
    <3>1. PICK idle : idle = Idle
      OBVIOUS
    <3>2. PICK m : m = [idle EXCEPT !.at = "dead"]
      OBVIOUS
    <3>3. m \in Memory /\ m.at = "dead"
      BY <3>1, <3>2, IdleTyped DEF Memory, Position
    <3> QED BY <2>1, <3>1, <3>2, <3>3 DEF Leave
  <2>2. CASE ~Leave(r, a)
    BY <2>2, Drops
  <2> QED BY <2>1, <2>2
<1>2. ResumeOK(r)'
  BY <1>1, AloneAtWork DEF LoopInv, Looping, Turning
<1>3. Continues(r)
  BY SameContinues DEF LoopInv
<1> QED BY <1>2, <1>3 DEF Resumes

\* A step that neither ends the attempt nor writes the transcript.
LEMMA GoesOn ==
  ASSUME LoopInv, NEW r \in Role, ResumeOK(r), NEW a \in Attempt, Busy(r, a),
         NEW m, Update(r, a, m), UNCHANGED <<job, attempts, transcript, turn>>,
         m.at = "recover" => (m.fresh <=> transcript[r] = Missing),
         m.at \in Looping => transcript[r] # Missing /\ m.msgs = transcript[r],
         m.at \in Turning => m.turn = turn[r]
  PROVE  Resumes(r)
<1>1. ResumeOK(r)'
  BY AloneAtWork DEF LoopInv
<1>2. Continues(r)
  BY SameContinues DEF LoopInv
<1> QED BY <1>1, <1>2 DEF Resumes

LEMMA ClaimResumes ==
  ASSUME LedgerAssumption, LoopInv, NEW r \in Role, ResumeOK(r), Claim(r) PROVE Resumes(r)
<1>1. PICK m : m = [Idle EXCEPT !.at = "begin"]
  OBVIOUS
<1>2. m.at = "begin"
  BY <1>1 DEF Idle
<1>3. /\ job'[r] = "running" /\ attempts'[r] = attempts[r] + 1
      /\ transcript' = transcript /\ turn' = turn /\ Update(r, attempts[r] + 1, m)
  BY <1>1 DEF Claim, LoopInv, RunTypeOK
<1>4. ASSUME NEW b \in Attempt PROVE Remembers(r, b, work[r][b])'
  <2>1. CASE b = attempts[r] + 1
    <3>1. work'[r][b] = m
      BY <1>3, <2>1 DEF Update, LoopInv, CallInv
    <3> QED BY <1>2, <1>3, <2>1, <3>1 DEF Remembers, Looping, Turning
  <2>2. CASE b # attempts[r] + 1
    <3>1. work'[r][b] = work[r][b]
      BY <1>3, <2>2 DEF Update, LoopInv, CallInv
    <3>2. work[r][b].at \in {"none", "dead"}
      BY DEF Claim, ResumeOK, Remembers
    <3> QED BY <3>1, <3>2 DEF Remembers, Looping, Turning
  <2> QED BY <2>1, <2>2
<1>5. Continues(r)
  BY <1>3, SameContinues DEF LoopInv
<1> QED BY <1>4, <1>5 DEF Resumes, ResumeOK

\* Without a stall a job is recovered when its attempt is dead; a cancellation ends
\* a job that nobody works on.
LEMMA JobResumes ==
  ASSUME LoopInv, NEW r \in Role, ResumeOK(r), <<"stall", r>> \notin Faults,
         RecoverJob(r) \/ Cancel \/ UNCHANGED vars
  PROVE  Resumes(r)
<1>1. attempts' = attempts /\ transcript' = transcript /\ turn' = turn /\ work' = work
  BY DEF RecoverJob, Cancel, vars, runVars
<1>2. ASSUME NEW b \in Attempt PROVE Remembers(r, b, work[r][b])'
  <2>1. Remembers(r, b, work[r][b])
    BY DEF ResumeOK
  <2>2. work[r][b].at \in {"none", "dead"} \/ job'[r] = job[r]
    <3>1. CASE RecoverJob(r)
      BY <2>1, <3>1 DEF RecoverJob, At, Remembers
    <3>2. CASE Cancel
      BY <2>1, <3>2 DEF Cancel, Remembers
    <3>3. CASE UNCHANGED vars
      BY <3>3 DEF vars, runVars
    <3> QED BY <3>1, <3>2, <3>3
  <2> QED BY <1>1, <2>1, <2>2 DEF Remembers, Looping, Turning
<1>3. Continues(r)
  BY <1>1, SameContinues DEF LoopInv
<1> QED BY <1>2, <1>3 DEF Resumes, ResumeOK

LEMMA BeginResumes ==
  ASSUME LedgerAssumption, LoopInv, NEW r \in Role, ResumeOK(r), NEW a \in Attempt, Begin(r, a)
  PROVE  Resumes(r)
<1>1. Busy(r, a) /\ UNCHANGED <<job, attempts, transcript, turn>>
  BY DEF Begin, At, Busy
<1>2. CASE End(r, a)
  BY <1>1, <1>2, DropResumes
<1>3. CASE ~End(r, a)
  <2>1. PICK k : k = work[r][a]
    OBVIOUS
  <2>2. PICK m : m = [k EXCEPT !.at = "recover", !.pending = ActiveRows(r),
                               !.fresh = transcript[r] = Missing]
    OBVIOUS
  <2>3. k \in Memory
    BY <2>1 DEF LoopInv, CallInv
  <2>4. m.at = "recover" /\ (m.fresh <=> transcript[r] = Missing)
    BY <2>2, <2>3 DEF Memory
  <2>5. Update(r, a, m)
    BY <1>3, <2>1, <2>2 DEF Begin
  <2> QED BY <1>1, <2>4, <2>5, GoesOn DEF Looping, Turning
<1> QED BY <1>2, <1>3

LEMMA RecoverResumes ==
  ASSUME LedgerAssumption, LoopInv, NEW r \in Role, ResumeOK(r), NEW a \in Attempt, RecoverRun(r, a)
  PROVE  Resumes(r)
<1>1. Busy(r, a) /\ work[r][a].at = "recover" /\ UNCHANGED <<job, attempts, transcript, turn>>
  BY DEF RecoverRun, At, Busy, runVars
<1>2. PICK k : k = work[r][a]
  OBVIOUS
<1>3. k \in Memory /\ k.at = "recover" /\ (k.fresh <=> transcript[r] = Missing)
  BY <1>1, <1>2 DEF LoopInv, CallInv, ResumeOK, Remembers
<1>4. PICK c \in k.pending : Update(r, a, [k EXCEPT !.pending = @ \ {c}])
  BY <1>2 DEF RecoverRun
<1>5. PICK m : m = [k EXCEPT !.pending = @ \ {c}]
  OBVIOUS
<1>6. m.at = "recover" /\ m.fresh = k.fresh
  BY <1>3, <1>5 DEF Memory
<1> QED BY <1>1, <1>3, <1>4, <1>5, <1>6, GoesOn DEF Looping, Turning

LEMMA LoadResumes ==
  ASSUME LedgerAssumption, LoopInv, NoTranscript, NEW r \in Role, ResumeOK(r), NEW a \in Attempt,
         Load(r, a)
  PROVE  Resumes(r)
<1>1. /\ Busy(r, a) /\ job' = job /\ attempts' = attempts
      /\ work[r][a].fresh <=> transcript[r] = Missing
  BY DEF Load, At, Busy, ResumeOK, Remembers
<1>2. PICK msgs : msgs = LoadMessages(r)
  OBVIOUS
<1>3. msgs \in Seq(Message)
  BY <1>2 DEF LoopInv, RunTypeOK, LoadMessages
<1>4. PICK idle, m : idle = Idle /\ m = [idle EXCEPT !.at = "loop", !.msgs = msgs]
  OBVIOUS
<1>5. m.at = "loop" /\ m.msgs = msgs /\ Update(r, a, m)
  <2>1. m.at = "loop" /\ m.msgs = msgs
    BY <1>4, IdleTyped DEF Memory
  <2> QED BY <1>2, <1>4, <2>1 DEF Load
<1>6. transcript'[r] = msgs /\ (transcript[r] # Missing => transcript' = transcript /\ turn' = turn)
  BY <1>1, <1>2 DEF Load, LoadMessages, LoopInv, RunTypeOK
<1>7. transcript'[r] # Missing
  BY <1>3, <1>6 DEF NoTranscript
<1>8. ResumeOK(r)'
  BY <1>1, <1>5, <1>6, <1>7, AloneAtWork DEF LoopInv, Turning
<1>9. Continues(r)
  BY <1>6, SameContinues DEF LoopInv, Continues
<1> QED BY <1>8, <1>9 DEF Resumes

LEMMA LoopTurnResumes ==
  ASSUME LedgerAssumption, LoopInv, NEW r \in Role, ResumeOK(r), NEW a \in Attempt, LoopTurn(r, a)
  PROVE  Resumes(r)
<1>1. /\ Busy(r, a) /\ UNCHANGED <<job, attempts, transcript, turn>>
      /\ transcript[r] # Missing /\ work[r][a].msgs = transcript[r]
  BY DEF LoopTurn, At, Busy, ResumeOK, Remembers, Looping
<1>2. PICK idle, msgs : idle = Idle /\ msgs = work[r][a].msgs
  OBVIOUS
<1>3. PICK start : start = [idle EXCEPT !.msgs = msgs, !.turn = turn[r]]
  OBVIOUS
<1>4. start \in Memory /\ start.msgs = msgs /\ start.turn = turn[r]
  <2>1. msgs \in Seq(Message) /\ turn[r] \in Nat
    BY <1>2 DEF LoopInv, CallInv, Memory, RunTypeOK
  <2> QED BY <1>2, <1>3, <2>1, IdleTyped DEF Memory
<1>5. CASE End(r, a) \/ Throw(r, a, TRUE)
  BY <1>1, <1>5, DropResumes
<1>6. CASE Update(r, a, [Idle EXCEPT !.at = "complete"])
  <2>1. PICK m : m = [idle EXCEPT !.at = "complete"]
    OBVIOUS
  <2>2. m.at = "complete"
    BY <1>2, <2>1, IdleTyped DEF Memory
  <2> QED BY <1>1, <1>2, <1>6, <2>1, <2>2, GoesOn DEF Looping, Turning
<1>7. CASE Update(r, a, [start EXCEPT !.at = "tool", !.level = level])
  <2>1. PICK m : m = [start EXCEPT !.at = "tool", !.level = level]
    OBVIOUS
  <2>2. m.at = "tool" /\ m.msgs = msgs /\ m.turn = turn[r]
    BY <1>4, <2>1 DEF Memory
  <2> QED BY <1>1, <1>2, <1>7, <2>1, <2>2, GoesOn
<1>8. CASE Update(r, a, [start EXCEPT !.at = "call"])
  <2>1. PICK m : m = [start EXCEPT !.at = "call"]
    OBVIOUS
  <2>2. m.at = "call" /\ m.msgs = msgs /\ m.turn = turn[r]
    BY <1>4, <2>1 DEF Memory
  <2> QED BY <1>1, <1>2, <1>8, <2>1, <2>2, GoesOn
<1> QED BY <1>2, <1>3, <1>5, <1>6, <1>7, <1>8, Zenon DEF LoopTurn

\* The steps that only move on: what the attempt holds stays.
LEMMA HoldingResumes ==
  ASSUME LoopInv, NEW r \in Role, ResumeOK(r), NEW a \in Attempt, work[r][a].at \in Turning,
         NEW m, Update(r, a, m), m.at \in Turning, m.msgs = work[r][a].msgs, m.turn = work[r][a].turn,
         UNCHANGED <<job, attempts, transcript, turn>>
  PROVE  Resumes(r)
<1>1. Busy(r, a) /\ transcript[r] # Missing /\ m.msgs = transcript[r] /\ m.turn = turn[r]
  BY DEF ResumeOK, Remembers, Looping, Turning, Busy
<1> QED BY <1>1, GoesOn DEF Looping, Turning

LEMMA ToolResumes ==
  ASSUME LoopInv, NEW r \in Role, ResumeOK(r), NEW a \in Attempt,
         ExecuteTool(r, a) \/ StoreResult(r, a)
  PROVE  Resumes(r)
<1>1. PICK k : k = work[r][a]
  OBVIOUS
<1>2. k \in Memory /\ k.at \in Turning /\ UNCHANGED <<job, attempts, transcript, turn>>
  BY <1>1, ZenonT(30) DEF LoopInv, CallInv, ExecuteTool, StoreResult, At, Turning, Looping
<1>3. CASE ExecuteTool(r, a)
  <2>1. PICK result \in Result :
          Update(r, a, [k EXCEPT !.at = "store", !.level = 0, !.outcome = result])
    BY <1>1, <1>3 DEF ExecuteTool
  <2>2. PICK m : m = [k EXCEPT !.at = "store", !.level = 0, !.outcome = result]
    OBVIOUS
  <2>3. m.at = "store" /\ m.msgs = k.msgs /\ m.turn = k.turn
    BY <1>2, <2>2 DEF Memory
  <2>4. m.at \in Turning
    BY <2>3 DEF Turning, Looping
  <2> QED BY <1>1, <1>2, <2>1, <2>2, <2>3, <2>4, HoldingResumes
<1>4. CASE StoreResult(r, a)
  <2>1. PICK result : Update(r, a, [k EXCEPT !.at = "answer", !.outcome = result])
    BY <1>1, <1>4 DEF StoreResult
  <2>2. PICK m : m = [k EXCEPT !.at = "answer", !.outcome = result]
    OBVIOUS
  <2>3. m.at = "answer" /\ m.msgs = k.msgs /\ m.turn = k.turn
    BY <1>2, <2>2 DEF Memory
  <2>4. m.at \in Turning
    BY <2>3 DEF Turning, Looping
  <2> QED BY <1>1, <1>2, <2>1, <2>2, <2>3, <2>4, HoldingResumes
<1> QED BY <1>3, <1>4

\* A checkpoint appends to the transcript that the attempt loaded.
LEMMA CheckpointResumes ==
  ASSUME LedgerAssumption, LoopInv, NoTranscript, NEW r \in Role, ResumeOK(r), NEW a \in Attempt,
         work[r][a].at \in Turning, NEW message \in Message,
         NEW next \in Nat, next >= turn[r], NEW pos \in {"loop", "spoken", "complete"},
         Checkpoint(r, a, message, next, pos), job' = job, attempts' = attempts
  PROVE  Resumes(r)
<1>1. Busy(r, a) /\ transcript[r] # Missing /\ work[r][a].msgs = transcript[r]
  BY DEF ResumeOK, Remembers, Looping, Turning, Busy
<1>2. PICK msgs : msgs = transcript[r]
  OBVIOUS
<1>3. PICK longer : longer = Append(msgs, message)
  OBVIOUS
<1>4. /\ msgs \in Seq(Message) /\ longer \in Seq(Message)
      /\ Len(longer) >= Len(msgs) /\ SubSeq(longer, 1, Len(msgs)) = msgs
  <2>1. msgs \in Seq(Message)
    BY <1>1, <1>2 DEF LoopInv, RunTypeOK
  <2>2. longer \in Seq(Message) /\ Len(longer) = Len(msgs) + 1
    BY <1>3, <2>1
  <2>3. SubSeq(longer, 1, Len(msgs)) = msgs
    BY <1>3, <2>1
  <2>4. Len(msgs) \in Nat
    BY <2>1
  <2> QED BY <2>1, <2>2, <2>3, <2>4
<1>5. PICK idle : idle = Idle
  OBVIOUS
<1>6. PICK m : m = IF pos = "loop" THEN [idle EXCEPT !.at = pos, !.msgs = longer]
                                   ELSE [idle EXCEPT !.at = pos]
  OBVIOUS
<1>7. m.at = pos /\ (pos = "loop" => m.msgs = longer)
  BY <1>5, <1>6, IdleTyped DEF Memory
<1>8. /\ Update(r, a, m) /\ transcript' = [transcript EXCEPT ![r] = longer]
      /\ turn' = [turn EXCEPT ![r] = next]
  BY <1>1, <1>2, <1>3, <1>5, <1>6 DEF Checkpoint
<1>9. transcript'[r] = longer /\ longer # Missing /\ turn'[r] = next
  BY <1>4, <1>8 DEF NoTranscript, LoopInv, RunTypeOK
<1>10. ResumeOK(r)'
  BY <1>1, <1>7, <1>8, <1>9, AloneAtWork DEF LoopInv, Looping, Turning
<1>11. Continues(r)
  BY <1>2, <1>4, <1>9 DEF Continues
<1> QED BY <1>10, <1>11 DEF Resumes

LEMMA AnswerResumes ==
  ASSUME LedgerAssumption, LoopInv, NoTranscript, NEW r \in Role, ResumeOK(r), NEW a \in Attempt,
         AnswerTool(r, a)
  PROVE  Resumes(r)
<1>1. /\ work[r][a].outcome \in Result /\ ToolOf(r, a) \in Tool /\ work[r][a].at \in Turning
  <2>1. work[r][a] \in Memory /\ work[r][a].at = "answer" /\ PendingTool(work[r][a].msgs)
    BY DEF LoopInv, CallInv, MemoryOK, AnswerTool, At, InTool
  <2> QED BY <2>1, AnswerTyped DEF Memory, ToolOf, Turning, Looping
<1>2. PICK message : message = [kind |-> "result", tool |-> ToolOf(r, a), outcome |-> work[r][a].outcome]
  OBVIOUS
<1>3. message \in Message
  BY <1>1, <1>2 DEF Message
<1>4. PICK pos \in {"loop", "spoken", "complete"} : Checkpoint(r, a, message, work[r][a].turn, pos)
  BY <1>2 DEF AnswerTool
<1>5. work[r][a].turn = turn[r] /\ turn[r] \in Nat /\ job' = job /\ attempts' = attempts
  BY <1>1 DEF ResumeOK, Remembers, LoopInv, RunTypeOK, AnswerTool
<1> QED BY <1>1, <1>3, <1>4, <1>5, CheckpointResumes

LEMMA CallResumes ==
  ASSUME LedgerAssumption, LoopInv, NEW r \in Role, ResumeOK(r), NEW a \in Attempt,
         ReserveCall(r, a) \/ AskProvider(r, a) \/ SettleCall(r, a)
  PROVE  Resumes(r)
<1>1. PICK k : k = work[r][a]
  BY SMTT(30)
<1>2. /\ k \in Memory /\ k.at \in Turning /\ Busy(r, a)
      /\ UNCHANGED <<job, attempts, transcript, turn>>
  BY <1>1, ZenonT(30) DEF LoopInv, CallInv, ReserveCall, AskProvider, SettleCall, At, Turning, Looping, runVars, Busy
<1>3. CASE End(r, a)
  BY <1>2, <1>3, DropResumes
<1>4. ASSUME NEW c, Update(r, a, [k EXCEPT !.at = "reserved", !.call = c]) PROVE Resumes(r)
  <2>1. PICK m : m = [k EXCEPT !.at = "reserved", !.call = c]
    OBVIOUS
  <2>2. m.at = "reserved" /\ m.msgs = k.msgs /\ m.turn = k.turn
    BY <1>2, <2>1 DEF Memory
  <2>3. m.at \in Turning
    BY <2>2 DEF Turning, Looping
  <2> QED BY <1>1, <1>2, <1>4, <2>1, <2>2, <2>3, HoldingResumes
<1>5. ASSUME NEW reply, Update(r, a, [k EXCEPT !.at = "replied", !.reply = reply]) PROVE Resumes(r)
  <2>1. PICK m : m = [k EXCEPT !.at = "replied", !.reply = reply]
    OBVIOUS
  <2>2. m.at = "replied" /\ m.msgs = k.msgs /\ m.turn = k.turn
    BY <1>2, <2>1 DEF Memory
  <2>3. m.at \in Turning
    BY <2>2 DEF Turning, Looping
  <2> QED BY <1>1, <1>2, <1>5, <2>1, <2>2, <2>3, HoldingResumes
<1>6. CASE Update(r, a, [k EXCEPT !.at = "judge", !.call = 0])
  <2>1. PICK m : m = [k EXCEPT !.at = "judge", !.call = 0]
    OBVIOUS
  <2>2. m.at = "judge" /\ m.msgs = k.msgs /\ m.turn = k.turn
    BY <1>2, <2>1 DEF Memory
  <2>3. m.at \in Turning
    BY <2>2 DEF Turning, Looping
  <2> QED BY <1>1, <1>2, <1>6, <2>1, <2>2, <2>3, HoldingResumes
<1>7. CASE ReserveCall(r, a)
  BY <1>1, <1>3, <1>4, <1>7 DEF ReserveCall
<1>8. CASE AskProvider(r, a)
  BY <1>1, <1>5, <1>8 DEF AskProvider
<1>9. CASE SettleCall(r, a)
  BY <1>1, <1>6, <1>9 DEF SettleCall
<1> QED BY <1>7, <1>8, <1>9

LEMMA JudgeResumes ==
  ASSUME LedgerAssumption, LoopInv, NoTranscript, NEW r \in Role, ResumeOK(r), NEW a \in Attempt,
         Judge(r, a)
  PROVE  Resumes(r)
<1>1. PICK k : k = work[r][a]
  OBVIOUS
<1>2. /\ k \in Memory /\ k.at \in Turning /\ Busy(r, a) /\ job' = job /\ attempts' = attempts
  BY <1>1 DEF LoopInv, CallInv, Judge, At, Turning, Looping, Busy
<1>3. CASE /\ Update(r, a, [work[r][a] EXCEPT !.at = "call", !.retry = @ + 1, !.reply = Idle.reply])
           /\ UNCHANGED <<transcript, turn>>
  <2>1. PICK m, retry, reply : /\ retry = k.retry + 1 /\ reply = Idle.reply
                               /\ m = [k EXCEPT !.at = "call", !.retry = retry, !.reply = reply]
    OBVIOUS
  <2>2. m.at = "call" /\ m.msgs = k.msgs /\ m.turn = k.turn
    BY <1>2, <2>1 DEF Memory
  <2>3. m.at \in Turning
    BY <2>2 DEF Turning, Looping
  <2>4. Update(r, a, m)
    BY <1>1, <1>3, <2>1
  <2> QED BY <1>1, <1>2, <1>3, <2>2, <2>3, <2>4, HoldingResumes
<1>4. CASE (Throw(r, a, TRUE) \/ End(r, a)) /\ UNCHANGED <<transcript, turn>>
  BY <1>2, <1>4, DropResumes
<1>5. ASSUME NEW tool \in Tool \cup {"none"}, NEW pos \in {"loop", "spoken"},
             Checkpoint(r, a, [kind |-> "assistant", tool |-> tool], work[r][a].turn + 1, pos)
      PROVE  Resumes(r)
  <2>1. PICK message : message = [kind |-> "assistant", tool |-> tool]
    OBVIOUS
  <2>2. PICK next : next = work[r][a].turn + 1
    OBVIOUS
  <2>3. message \in Message /\ next \in Nat /\ next >= turn[r]
    BY <1>1, <1>2, <2>1, <2>2 DEF Message, Answer, ResumeOK, Remembers, LoopInv, RunTypeOK
  <2>4. Checkpoint(r, a, message, next, pos) /\ pos \in {"loop", "spoken", "complete"}
    BY <1>5, <2>1, <2>2
  <2> QED BY <1>1, <1>2, <2>3, <2>4, CheckpointResumes
<1>6. \/ /\ Update(r, a, [work[r][a] EXCEPT !.at = "call", !.retry = @ + 1, !.reply = Idle.reply])
         /\ UNCHANGED <<transcript, turn>>
      \/ (Throw(r, a, TRUE) \/ End(r, a)) /\ UNCHANGED <<transcript, turn>>
      \/ /\ work[r][a].reply \in Tool
         /\ Checkpoint(r, a, [kind |-> "assistant", tool |-> work[r][a].reply], work[r][a].turn + 1, "loop")
      \/ Checkpoint(r, a, [kind |-> "assistant", tool |-> "none"], work[r][a].turn + 1, "spoken")
  BY Zenon DEF Judge
<1> QED BY <1>3, <1>4, <1>5, <1>6

LEMMA ResumeStep ==
  ASSUME LedgerAssumption, LoopInv, NoTranscript, NEW r \in Role, ResumeOK(r),
         <<"stall", r>> \notin Faults, [Next]_vars
  PROVE  Resumes(r)
<1>1. CASE Cancel \/ RecoverJob(r) \/ UNCHANGED vars
  BY <1>1, JobResumes
<1>2. CASE Claim(r)
  BY <1>2, ClaimResumes
<1>3. ASSUME NEW s \in Role, s # r,
             \/ Claim(s) \/ RecoverJob(s)
             \/ \E a \in Attempt : Step(s, a) \/ Crash(s, a) \/ SettleFails(s, a) \/ Abort(s, a)
      PROVE  Resumes(r)
  <2>1. /\ job'[r] = job[r] /\ attempts'[r] = attempts[r] /\ work'[r] = work[r]
        /\ transcript'[r] = transcript[r] /\ turn'[r] = turn[r]
    <3>1. CASE Claim(s) \/ RecoverJob(s)
      BY <1>3, <3>1, OtherJobsKept
    <3>2. ASSUME NEW a \in Attempt,
                 Step(s, a) \/ Crash(s, a) \/ SettleFails(s, a) \/ Abort(s, a)
          PROVE  /\ job'[r] = job[r] /\ attempts'[r] = attempts[r] /\ work'[r] = work[r]
                 /\ transcript'[r] = transcript[r] /\ turn'[r] = turn[r]
      BY <1>3, <3>2, OthersKept
    <3> QED BY <1>3, <3>1, <3>2
  <2>2. ResumeOK(r)'
    BY <2>1 DEF ResumeOK, Remembers
  <2> QED BY <2>1, <2>2, SameContinues DEF Resumes, LoopInv
<1>4. ASSUME NEW a \in Attempt, Step(r, a) \/ Crash(r, a) \/ SettleFails(r, a) \/ Abort(r, a)
      PROVE  Resumes(r)
  <2>1. CASE Succeed(r, a) \/ Fail(r, a) \/ Crash(r, a)
    BY <2>1, DropResumes DEF Succeed, Fail, Crash, At, Busy, runVars
  <2>2. CASE Begin(r, a)
    BY <2>2, BeginResumes
  <2>3. CASE RecoverRun(r, a)
    BY <2>3, RecoverResumes
  <2>4. CASE Load(r, a)
    BY <2>4, LoadResumes
  <2>5. CASE LoopTurn(r, a)
    BY <2>5, LoopTurnResumes
  <2>6. CASE ExecuteTool(r, a) \/ StoreResult(r, a)
    BY <2>6, ToolResumes
  <2>7. CASE AnswerTool(r, a)
    BY <2>7, AnswerResumes
  <2>8. CASE Complete(r, a) \/ Spoken(r, a)
    BY <2>8, DropResumes DEF Complete, Spoken, At, Busy
  <2>9. CASE ReserveCall(r, a) \/ AskProvider(r, a) \/ SettleCall(r, a)
    BY <2>9, CallResumes
  <2>10. CASE Judge(r, a)
    BY <2>10, JudgeResumes
  <2>11. CASE SettleFails(r, a)
    BY <2>11, DropResumes DEF SettleFails, At, Busy, runVars
  <2>12. CASE Abort(r, a)
    <3>1. Busy(r, a) /\ cancelled \in BOOLEAN /\ Throw(r, a, cancelled) /\ UNCHANGED runVars
      BY <2>12 DEF Abort, Busy, LoopInv, LedgerInv, LedgerTypeOK
    <3> QED BY <3>1, DropResumes DEF runVars
  <2> QED BY <1>4, <2>1, <2>2, <2>3, <2>4, <2>5, <2>6, <2>7, <2>8, <2>9, <2>10, <2>11, <2>12 DEF Step
<1> QED BY <1>1, <1>2, <1>3, <1>4 DEF Next

\* A resumed agent goes on from the transcript that the last attempt left.
THEOREM TranscriptsContinue ==
  ASSUME LedgerAssumption, LoopAssumption, ReplyAssumption, NoTranscript
  PROVE  Spec => TranscriptContinues
<1>1. LoopInv /\ ResumeInv /\ [Next]_vars => ResumeInv'
  <2> SUFFICES ASSUME LoopInv, ResumeInv, [Next]_vars PROVE ResumeInv'
    OBVIOUS
  <2> QED BY ResumeStep DEF ResumeInv, Resumes
<1>2. LoopInv /\ ResumeInv /\ [Next]_vars =>
        [\A r \in Role : transcript[r] # Missing /\ <<"stall", r>> \notin Faults =>
           /\ turn'[r] >= turn[r]
           /\ transcript'[r] # Missing
           /\ Len(transcript'[r]) >= Len(transcript[r])
           /\ SubSeq(transcript'[r], 1, Len(transcript[r])) = transcript[r]]_vars
  <2> SUFFICES ASSUME LoopInv, ResumeInv, [Next]_vars,
                      NEW r \in Role, transcript[r] # Missing, <<"stall", r>> \notin Faults
               PROVE  /\ turn'[r] >= turn[r]
                      /\ transcript'[r] # Missing
                      /\ Len(transcript'[r]) >= Len(transcript[r])
                      /\ SubSeq(transcript'[r], 1, Len(transcript[r])) = transcript[r]
    OBVIOUS
  <2>1. Resumes(r)
    BY ResumeStep DEF ResumeInv
  <2> QED BY <2>1 DEF Resumes, Continues
<1>3. Init => ResumeInv
  <2> SUFFICES ASSUME Init, NEW r \in Role, NEW a \in Attempt PROVE Remembers(r, a, work[r][a])
    BY DEF ResumeInv, ResumeOK
  <2>1. work[r][a].at = "none"
    BY DEF Init, Idle
  <2> QED BY <2>1 DEF Remembers, Looping, Turning
<1> QED BY <1>1, <1>2, <1>3, LoopInvariant, PTL DEF Spec, TranscriptContinues
=============================================================================
