------------------------------ MODULE AiBudget ------------------------------
(***************************************************************************)
(* The token and call budget that the two agents of one audit share         *)
(* (agent-runtime/budget): reserve before a model call, settle after it,    *)
(* expire what an agent left behind, and the degradation level that only    *)
(* rises. Each transaction holds the audit's row and is one step.           *)
(*                                                                         *)
(* ledger[r] are the counters of role r, ledger[Total] those of the audit;  *)
(* row[r][c] is the reservation of the c-th call of r.                      *)
(***************************************************************************)
EXTENDS Integers, FiniteSets

CONSTANTS
  Role,          \* blackbox, whitebox
  Total,         \* the scope of the audit's own counters
  TokenLimit,    \* tokens allowed in each scope
  CallLimit,     \* calls allowed in each scope
  MaxCall        \* bound on the calls of one role, refused ones included

Scope == Role \cup {Total}
Call == 1..MaxCall

ASSUME LedgerAssumption ==
  /\ IsFiniteSet(Role) /\ Total \notin Role /\ MaxCall \in Nat
  /\ TokenLimit \in [Scope -> Nat \ {0}] /\ CallLimit \in [Scope -> Nat \ {0}]

VARIABLES
  ledger, row,       \* AuditAiBudget, AiBudgetReservation
  level, degraded,   \* AuditAiBudget.degradationState, Audit.degraded
  cancelled          \* Audit.cancellationRequestedAt

ledgerVars == <<ledger, row, level, degraded, cancelled>>

\* size: tokens reserved (estimated input and maximal output), which matter while
\* the row is active; charge: tokens settled.
NoRow == [status |-> "none", size |-> 0, charge |-> 0]
Row == [status : {"none", "active", "settled", "expired"}, size : Nat, charge : Nat]
Counters == [held : Int, used : Int, heldCalls : Int, usedCalls : Int]
Zero == [held |-> 0, used |-> 0, heldCalls |-> 0, usedCalls |-> 0]

\* Degradation levels: green, yellow, red, exceeded.
Level == 0..3
Yellow == 1
Red == 2
Exceeded == 3

LedgerTypeOK ==
  /\ ledger \in [Scope -> Counters]
  /\ row \in [Role -> [Call -> Row]]
  /\ level \in Level /\ degraded \in BOOLEAN /\ cancelled \in BOOLEAN

LedgerInit ==
  /\ ledger = [s \in Scope |-> Zero]
  /\ row = [r \in Role |-> [c \in Call |-> NoRow]]
  /\ level = 0 /\ degraded = FALSE /\ cancelled = FALSE

Tokens(k) == k.held + k.used
Calls(k) == k.heldCalls + k.usedCalls
Higher(m, n) == IF m < n THEN n ELSE m

\* degradationStateFor: half, four fifths and all of a limit.
LevelFor(spent, limit) ==
  IF spent >= limit THEN Exceeded
  ELSE IF 5 * spent >= 4 * limit THEN Red
  ELSE IF 2 * spent >= limit THEN Yellow ELSE 0

\* compute: the largest fraction decides, and the level never falls.
AtLeast(led, l) ==
  \E s \in Scope : \/ LevelFor(Tokens(led[s]), TokenLimit[s]) >= l
                  \/ LevelFor(Calls(led[s]), CallLimit[s]) >= l
Compute(led, before) ==
  Higher(before, IF AtLeast(led, Exceeded) THEN Exceeded
                 ELSE IF AtLeast(led, Red) THEN Red
                 ELSE IF AtLeast(led, Yellow) THEN Yellow ELSE 0)

\* transition: every level above green marks the audit degraded.
Transition(to) ==
  /\ level' = Higher(level, to)
  /\ degraded' = (degraded \/ to > level)

-----------------------------------------------------------------------------
\* Mutant: what other calls hold is not counted.
FitsUnheld(r, size) ==
  \A s \in {r, Total} : /\ ledger[s].used + size <= TokenLimit[s]
                        /\ Calls(ledger[s]) + 1 <= CallLimit[s]

Fits(r, size) ==
  \A s \in {r, Total} : /\ Tokens(ledger[s]) + size <= TokenLimit[s]
                        /\ Calls(ledger[s]) + 1 <= CallLimit[s]

\* The outcome of reserve is read off the row: it is active exactly if allowed.
Allowed(r, c, size) ==
  row[r][c].status = "none" /\ ~cancelled /\ level # Exceeded /\ Fits(r, size)

\* reserve: an existing reservation never authorises a second call; whatever
\* else refuses one exceeds the budget of the whole audit.
Reserve(r, c, size) ==
  /\ IF Allowed(r, c, size)
     THEN /\ row' = [row EXCEPT ![r][c] = [status |-> "active", size |-> size, charge |-> 0]]
          /\ ledger' = [s \in Scope |-> IF s \notin {r, Total} THEN ledger[s]
                          ELSE [ledger[s] EXCEPT !.held = @ + size, !.heldCalls = @ + 1]]
          /\ Transition(Compute(ledger', level))
     ELSE /\ UNCHANGED <<row, ledger>>
          /\ IF row[r][c].status # "none" THEN UNCHANGED <<level, degraded>>
             ELSE Transition(Exceeded)
  /\ UNCHANGED cancelled

\* Mutant: what was used is released, not what was held.
ReleasedUsed(r, c, charge) == charge
Released(r, c, charge) == row[r][c].size

\* settle: the estimate goes back, what was used is charged, once.
Settle(r, c, charge, status) ==
  /\ IF row[r][c].status = "active"
     THEN /\ row' = [row EXCEPT ![r][c] = [status |-> status, size |-> 0, charge |-> charge]]
          /\ ledger' = [s \in Scope |-> IF s \notin {r, Total} THEN ledger[s]
               ELSE [ledger[s] EXCEPT !.held = @ - Released(r, c, charge), !.used = @ + charge,
                                      !.heldCalls = @ - 1, !.usedCalls = @ + 1]]
          /\ Transition(Compute(ledger', level))
     ELSE UNCHANGED <<row, ledger, level, degraded>>
  /\ UNCHANGED cancelled

\* Mutant: a call whose cost nobody knows is free.
ExpireFree(r, c) == Settle(r, c, 0, "expired")

\* expireReservation: a call whose cost nobody knows costs its estimate.
ExpireReservation(r, c) == Settle(r, c, row[r][c].size, "expired")

ActiveRows(r) == {c \in Call : row[r][c].status = "active"}
-----------------------------------------------------------------------------
SumOver(S, f) ==
  LET sum[T \in SUBSET S] == IF T = {} THEN 0
                             ELSE LET x == CHOOSE x \in T : TRUE IN f[x] + sum[T \ {x}]
  IN  sum[S]

Held(r) == SumOver(Call, [c \in Call |-> row[r][c].size])
Used(r) == SumOver(Call, [c \in Call |-> row[r][c].charge])
Closed(r) == {c \in Call : row[r][c].status \in {"settled", "expired"}}

\* The denormalised counters of both roles agree with the reservation rows, and
\* the audit's with the roles', whoever settles, expires or repeats a settlement.
LedgerBalanced ==
  /\ \A r \in Role : ledger[r] = [held |-> Held(r), used |-> Used(r),
       heldCalls |-> Cardinality(ActiveRows(r)), usedCalls |-> Cardinality(Closed(r))]
  /\ ledger[Total] = [
       held |-> SumOver(Role, [r \in Role |-> ledger[r].held]),
       used |-> SumOver(Role, [r \in Role |-> ledger[r].used]),
       heldCalls |-> SumOver(Role, [r \in Role |-> ledger[r].heldCalls]),
       usedCalls |-> SumOver(Role, [r \in Role |-> ledger[r].usedCalls])]

LimitsKept ==
  \A s \in Scope : Tokens(ledger[s]) <= TokenLimit[s] /\ Calls(ledger[s]) <= CallLimit[s]

\* No interleaving of two agents' reservations and settlements takes a role or
\* the audit past its tokens or its calls, by counters that agree with the rows.
WithinAllowance == LedgerBalanced /\ LimitsKept
=============================================================================
