-------------------------- MODULE ReconBudgetProofs --------------------------
(***************************************************************************)
(* Proofs about ReconBudget, for every limit, every number of attempts and  *)
(* every set of faults the statements allow.                                *)
(***************************************************************************)
EXTENDS ReconBudget, FiniteSetTheorems, TLAPS

\* What the rows of the three stages must be for the balance to be inductive.
RowsOK == row \in [ReconStage -> Row]

LEMMA BalanceInit == Init => RowsOK /\ BudgetBalanced
  BY BudgetAssumption DEF Init, RowsOK, BudgetBalanced, Counts, CountOf, Active, NoReservation, Row, ReconStage

\* A reservation granted, renewed or replaced keeps the two tables equal.
LEMMA GrantBalances ==
  ASSUME RowsOK, BudgetBalanced, NEW s \in ReconStage, NEW requested, NEW granted \in Nat,
         NEW live \in BOOLEAN, Grant(s, requested, granted, live)
  PROVE  RowsOK' /\ BudgetBalanced'
<1>1. CASE Active(s) /\ row[s].live
  BY <1>1 DEF Grant, RowsOK, BudgetBalanced, Counts, CountOf, Active
<1>2. CASE ~(Active(s) /\ row[s].live)
  <2> DEFINE new == IF granted > 0
                    THEN [status |-> "active", count |-> granted, live |-> live]
                    ELSE IF Active(s) THEN [NoReservation EXCEPT !.status = "reclaimed"] ELSE row[s]
             lost == IF Active(s) THEN row[s].count ELSE 0
  <2>1. row' = [row EXCEPT ![s] = new] /\ reserved' = reserved - lost + granted
    BY <1>2 DEF Grant, RowsOK
  <2>2. new \in Row
    BY DEF RowsOK, Row, NoReservation
  <2>3. RowsOK'
    BY <2>1, <2>2 DEF RowsOK
  <2>4. IF new.status = "active" THEN new.count = granted ELSE granted = 0
    BY DEF NoReservation, Active
  <2>5. \A r \in ReconStage : r # s => row'[r] = row[r]
    BY <2>1 DEF RowsOK
  <2>6. row'[s] = new
    BY <2>1 DEF RowsOK
  <2>7. BudgetBalanced'
    <3>1. CASE s = "katana"
      BY <2>1, <2>2, <2>4, <2>5, <2>6, <3>1 DEF BudgetBalanced, Counts, CountOf, Active, ReconStage, RowsOK, Row
    <3>2. CASE s = "httpx"
      BY <2>1, <2>2, <2>4, <2>5, <2>6, <3>2 DEF BudgetBalanced, Counts, CountOf, Active, ReconStage, RowsOK, Row
    <3>3. CASE s = "httpx_redirect"
      BY <2>1, <2>2, <2>4, <2>5, <2>6, <3>3 DEF BudgetBalanced, Counts, CountOf, Active, ReconStage, RowsOK, Row
    <3> QED BY <3>1, <3>2, <3>3 DEF ReconStage
  <2> QED BY <2>3, <2>7
<1> QED BY <1>1, <1>2

\* A settlement gives back what the row holds, whoever settles it and with
\* whatever count.
LEMMA SettleBalances ==
  ASSUME RowsOK, BudgetBalanced, NEW s \in ReconStage, NEW charge, SettleRow(s, charge)
  PROVE  RowsOK' /\ BudgetBalanced'
<1>1. CASE Active(s)
  <2>1. /\ row' = [row EXCEPT ![s] = [NoReservation EXCEPT !.status = "settled"]]
        /\ reserved' = reserved - row[s].count
    BY <1>1 DEF SettleRow
  <2>2. RowsOK'
    BY <2>1 DEF RowsOK, Row, NoReservation
  <2>3. \A r \in ReconStage : row'[r] = IF r = s THEN [NoReservation EXCEPT !.status = "settled"] ELSE row[r]
    BY <2>1 DEF RowsOK
  <2>4. BudgetBalanced'
    BY <1>1, <2>1, <2>3 DEF BudgetBalanced, Counts, CountOf, Active, ReconStage, RowsOK, Row, NoReservation
  <2> QED BY <2>2, <2>4
<1>2. CASE ~Active(s)
  BY <1>2 DEF SettleRow, RowsOK, BudgetBalanced, Counts, CountOf, Active
<1> QED BY <1>1, <1>2

\* What expired leaves both tables at once.
LEMMA ReclaimBalances ==
  ASSUME RowsOK, BudgetBalanced, Reclaim(ExpiredRows)
  PROVE  RowsOK' /\ BudgetBalanced'
<1>1. \A s \in ReconStage : row'[s] = IF Expired(s) THEN [NoReservation EXCEPT !.status = "reclaimed"] ELSE row[s]
  BY DEF Reclaim, ExpiredRows
<1>2. RowsOK'
  BY <1>1 DEF Reclaim, RowsOK, Row, NoReservation
<1>3. BudgetBalanced'
  BY <1>1 DEF Reclaim, ExpiredRows, BudgetBalanced, Counts, CountOf, Expired, Active, ReconStage, RowsOK, Row, NoReservation
<1> QED BY <1>2, <1>3

\* Leases come and go without a change of what is reserved.
LEMMA LeaseBalances ==
  ASSUME RowsOK, BudgetBalanced, UNCHANGED reserved,
         NEW live \in [ReconStage -> BOOLEAN],
         row' = [s \in ReconStage |-> [row[s] EXCEPT !.live = live[s]]]
  PROVE  RowsOK' /\ BudgetBalanced'
<1>1. \A s \in ReconStage : /\ row'[s] \in Row
                            /\ row'[s].status = row[s].status /\ row'[s].count = row[s].count
  BY DEF RowsOK, Row
<1>2. RowsOK'
  BY <1>1 DEF RowsOK
<1>3. BudgetBalanced'
  BY <1>1 DEF BudgetBalanced, Counts, CountOf, Active, ReconStage
<1> QED BY <1>2, <1>3

LEMMA BalanceUnchanged ==
  ASSUME RowsOK, BudgetBalanced, UNCHANGED <<reserved, row>>
  PROVE  RowsOK' /\ BudgetBalanced'
  BY DEF RowsOK, BudgetBalanced, Counts, CountOf, Active

\* One lemma for each action that touches the tables, and all others.
LEMMA BalanceStep == RowsOK /\ BudgetBalanced /\ [Next]_vars => RowsOK' /\ BudgetBalanced'
<1> SUFFICES ASSUME RowsOK, BudgetBalanced, [Next]_vars PROVE RowsOK' /\ BudgetBalanced'
  OBVIOUS
<1> USE DEF budgetVars
<1>1. CASE UNCHANGED vars
  BY <1>1, BalanceUnchanged DEF vars
<1>2. CASE ReclaimExpired
  BY <1>2, ReclaimBalances DEF ReclaimExpired
<1>3. ASSUME NEW j \in Job, RecoverJob(j) PROVE RowsOK' /\ BudgetBalanced'
  BY <1>3, ReclaimBalances DEF RecoverJob
<1>4. ASSUME NEW j \in Job, ClaimRecon(j) PROVE RowsOK' /\ BudgetBalanced'
  BY <1>4, BalanceUnchanged DEF ClaimRecon
<1>5. CASE KeyExpires \/ ProbeRequest \/ OtherAcquires \/ OtherEnds
  BY <1>5, BalanceUnchanged DEF KeyExpires, ProbeRequest, OtherAcquires, OtherEnds
<1>6. ASSUME NEW s \in ReconStage, RowExpires(s) PROVE RowsOK' /\ BudgetBalanced'
  <2> DEFINE live == [r \in ReconStage |-> IF r = s THEN FALSE ELSE row[r].live]
  <2>1. live \in [ReconStage -> BOOLEAN] /\ row' = [r \in ReconStage |-> [row[r] EXCEPT !.live = live[r]]]
    BY <1>6 DEF RowExpires, RowsOK, Row
  <2>2. UNCHANGED reserved
    BY <1>6 DEF RowExpires
  <2> HIDE DEF live
  <2> QED BY <2>1, <2>2, LeaseBalances
<1>7. ASSUME NEW j \in Job, RenewForJob(j) PROVE RowsOK' /\ BudgetBalanced'
  <2> DEFINE live == [r \in ReconStage |-> IF r \in Rows(j) /\ Active(r) THEN TRUE ELSE row[r].live]
  <2>1. live \in [ReconStage -> BOOLEAN] /\ row' = [r \in ReconStage |-> [row[r] EXCEPT !.live = live[r]]]
    BY <1>7 DEF RenewForJob, RowsOK, Row
  <2>2. UNCHANGED reserved
    BY <1>7 DEF RenewForJob
  <2> HIDE DEF live
  <2> QED BY <2>1, <2>2, LeaseBalances
<1>8. ASSUME NEW j \in Job, NEW a \in AttemptNumber, Progress(j, a) PROVE RowsOK' /\ BudgetBalanced'
  <2>1. CASE Reserve(j, a)
    <3>1. PICK requested \in 1..MaxRequested, granted \in 0..ReconShare :
            Grant(StageOf(j), requested, granted, TRUE)
      BY <2>1 DEF Reserve
    <3>2. StageOf(j) \in ReconStage /\ granted \in Nat
      BY BudgetAssumption DEF StageOf, ReconStage
    <3> QED BY <3>1, <3>2, GrantBalances
  <2>2. CASE FollowRedirects(j, a)
    <3>1. PICK redirects \in 1..MaxRequested, granted \in 0..ReconShare, live \in BOOLEAN :
            Grant("httpx_redirect", redirects, granted, live)
      BY <2>2 DEF FollowRedirects
    <3>2. "httpx_redirect" \in ReconStage /\ granted \in Nat
      BY BudgetAssumption DEF ReconStage
    <3> QED BY <3>1, <3>2, GrantBalances
  <2>3. CASE RedirectsEnd(j, a)
    BY <2>3, SettleBalances DEF RedirectsEnd, ReconStage
  <2>4. CASE Settle(j, a)
    <3>1. SettleRow(StageOf(j), work[j][a].charge) /\ StageOf(j) \in ReconStage
      BY <2>4 DEF Settle, StageOf, ReconStage
    <3> QED BY <3>1, SettleBalances
  <2>5. CASE EvidenceIsLive(j, a) \/ Acquire(j, a) \/ AcquireFails(j, a) \/ StartTool(j, a)
    BY <2>5, BalanceUnchanged DEF EvidenceIsLive, Acquire, AcquireFails, StartTool
  <2>6. CASE ToolSucceeds(j, a) \/ StageFails(j, a) \/ NoRedirects(j, a) \/ RedirectsUnsettled(j, a)
    BY <2>6, BalanceUnchanged DEF ToolSucceeds, StageFails, NoRedirects, RedirectsUnsettled
  <2>7. CASE Persist(j, a) \/ Release(j, a) \/ SettleFails(j, a) \/ End(j, a)
    BY <2>7, BalanceUnchanged DEF Persist, Release, SettleFails, End
  <2> QED BY <1>8, <2>1, <2>2, <2>3, <2>4, <2>5, <2>6, <2>7 DEF Progress
<1>9. ASSUME NEW j \in Job, NEW a \in AttemptNumber, Disturbance(j, a) PROVE RowsOK' /\ BudgetBalanced'
  BY <1>9, BalanceUnchanged DEF Disturbance, Abort, TimeLimit, WorkerCrash, RenewalFails
<1> QED BY <1>1, <1>2, <1>3, <1>4, <1>5, <1>6, <1>7, <1>8, <1>9 DEF Next, Scheduler, Clock

\* The budget row and the reservation rows agree in every reachable state, under
\* every fault the model knows, stalled workers and failing settlements included.
THEOREM BudgetAlwaysBalanced == Spec => []BudgetBalanced
<1>1. Init => RowsOK /\ BudgetBalanced
  BY BalanceInit
<1>2. RowsOK /\ BudgetBalanced /\ [Next]_vars => RowsOK' /\ BudgetBalanced'
  BY BalanceStep
<1> QED BY <1>1, <1>2, PTL DEF Spec
-----------------------------------------------------------------------------
(* The limit. *)

MemoriesOK == work \in [Job -> [AttemptNumber -> StageMemory]]

LEMMA MemoriesInit == Init => MemoriesOK
  BY DEF Init, MemoriesOK, Unstarted, StageMemory, StagePosition, Executing, Leased, Tooling

\* The memory of one attempt is replaced by another memory.
LEMMA MemoryMoves ==
  ASSUME MemoriesOK, NEW j \in Job, NEW a, NEW m \in StageMemory,
         work' = [work EXCEPT ![j] = [work[j] EXCEPT ![a] = m]]
  PROVE  MemoriesOK'
  BY DEF MemoriesOK

LEMMA MemoryGoto ==
  ASSUME MemoriesOK, NEW j \in Job, NEW a \in AttemptNumber, NEW pos \in StagePosition,
         Goto(j, a, pos) \/ FailTo(j, a, pos)
  PROVE  MemoriesOK'
<1>1. work[j][a] \in StageMemory
  BY DEF MemoriesOK
<1>2. [work[j][a] EXCEPT !.pos = pos] \in StageMemory /\ [work[j][a] EXCEPT !.pos = pos, !.failed = TRUE] \in StageMemory
  BY <1>1 DEF StageMemory
<1>3. CASE Goto(j, a, pos)
  BY <1>2, <1>3, MemoryMoves DEF Goto
<1>4. CASE FailTo(j, a, pos)
  BY <1>2, <1>4, MemoryMoves DEF FailTo
<1> QED BY <1>3, <1>4

\* What an attempt counts are numbers, whatever it does and whatever befalls it.
LEMMA MemoriesStep == MemoriesOK /\ [Next]_vars => MemoriesOK'
<1> SUFFICES ASSUME MemoriesOK, [Next]_vars PROVE MemoriesOK'
  OBVIOUS
<1> USE DEF Stands
<1>1. CASE UNCHANGED work
  BY <1>1 DEF MemoriesOK
<1>2. CASE Scheduler \/ Clock \/ ProbeRequest \/ OtherAcquires \/ OtherEnds
  <2>1. ASSUME NEW j \in Job, ClaimRecon(j) PROVE MemoriesOK'
    <3>1. [Unstarted EXCEPT !.pos = "started"] \in StageMemory
      BY DEF Unstarted, StageMemory, StagePosition, Executing
    <3> QED BY <2>1, <3>1, MemoryMoves DEF ClaimRecon
  <2> QED BY <1>1, <1>2, <2>1 DEF Scheduler, Clock, ProbeRequest, OtherAcquires, OtherEnds,
         ReclaimExpired, RecoverJob, KeyExpires, RowExpires
<1>3. ASSUME NEW j \in Job, RenewForJob(j) PROVE MemoriesOK'
  BY <1>1, <1>3 DEF RenewForJob
<1>4. ASSUME NEW j \in Job, NEW a \in AttemptNumber, Progress(j, a) PROVE MemoriesOK'
  <2>0. work[j][a] \in StageMemory
    BY DEF MemoriesOK
  <2>1. CASE Reserve(j, a)
    <3>1. PICK granted \in 0..ReconShare :
            \/ FailTo(j, a, "ended")
            \/ work' = [work EXCEPT ![j][a] = [@ EXCEPT !.pos = "granted", !.held = granted]]
      BY <2>1 DEF Reserve
    <3>2. granted \in Nat /\ "granted" \in StagePosition
      BY BudgetAssumption DEF StagePosition, Executing
    <3>3. [work[j][a] EXCEPT !.pos = "granted", !.held = granted] \in StageMemory
      BY <2>0, <3>2 DEF StageMemory
    <3> QED BY <3>1, <3>3, MemoryMoves, MemoryGoto DEF StagePosition, Executing
  <2>2. CASE StartTool(j, a)
    <3>1. PICK n \in 0..work[j][a].held :
            work' = [work EXCEPT ![j][a] = [@ EXCEPT
                      !.pos = "running", !.held = 0, !.charge = work[j][a].held,
                      !.used = IF j = "discover" THEN n ELSE 0]]
      BY <2>2 DEF StartTool
    <3>2. n \in Nat /\ "running" \in StagePosition
      BY <2>0 DEF StageMemory, StagePosition, Executing, Leased, Tooling
    <3>3. [work[j][a] EXCEPT !.pos = "running", !.held = 0, !.charge = work[j][a].held,
                             !.used = IF j = "discover" THEN n ELSE 0] \in StageMemory
      BY <2>0, <3>2 DEF StageMemory
    <3> QED BY <3>1, <3>3, MemoryMoves
  <2>3. CASE ToolSucceeds(j, a)
    <3>1. [work[j][a] EXCEPT !.pos = "persisting", !.charge = work[j][a].used, !.used = 0] \in StageMemory
      BY <2>0 DEF StageMemory, StagePosition, Executing, Leased
    <3> QED BY <2>3, <3>1, MemoryMoves, MemoryGoto DEF ToolSucceeds, StagePosition, Executing, Leased
  <2>4. CASE FollowRedirects(j, a)
    <3>1. PICK redirects \in 1..MaxRequested, granted \in 0..ReconShare :
            LET follow == Smaller(redirects, granted)
                pos == IF follow = 0 THEN "persisting"
                       ELSE IF work[j][a].aborted THEN "refused" ELSE "following"
            IN  work' = [work EXCEPT ![j][a] = [@ EXCEPT !.pos = pos, !.held = follow]]
      BY <2>4 DEF FollowRedirects
    <3>2. Smaller(redirects, granted) \in Nat
      BY BudgetAssumption DEF Smaller
    <3>3. \A pos \in {"persisting", "refused", "following"} :
            [work[j][a] EXCEPT !.pos = pos, !.held = Smaller(redirects, granted)] \in StageMemory
      BY <2>0, <3>2 DEF StageMemory, StagePosition, Executing, Leased, Tooling
    <3> QED BY <3>1, <3>3, MemoryMoves
  <2>5. CASE End(j, a)
    <3>1. Unstarted \in StageMemory
      BY DEF Unstarted, StageMemory, StagePosition
    <3> QED BY <2>5, <3>1, MemoryMoves DEF End
  <2>6. CASE EvidenceIsLive(j, a) \/ Acquire(j, a) \/ AcquireFails(j, a) \/ StageFails(j, a) \/ NoRedirects(j, a)
    BY <2>6, MemoryGoto DEF EvidenceIsLive, Acquire, AcquireFails, StageFails, NoRedirects,
       StagePosition, Executing, Leased
  <2>7. CASE RedirectsEnd(j, a) \/ RedirectsUnsettled(j, a) \/ Persist(j, a)
    BY <2>7, MemoryGoto DEF RedirectsEnd, RedirectsUnsettled, Persist, StagePosition, Executing, Leased
  <2>8. CASE Release(j, a) \/ Settle(j, a) \/ SettleFails(j, a)
    BY <2>8, MemoryGoto DEF Release, Settle, SettleFails, StagePosition, Executing
  <2> QED BY <1>4, <2>1, <2>2, <2>3, <2>4, <2>5, <2>6, <2>7, <2>8 DEF Progress
<1>5. ASSUME NEW j \in Job, NEW a \in AttemptNumber, Disturbance(j, a) PROVE MemoriesOK'
  <2>0. work[j][a] \in StageMemory
    BY DEF MemoriesOK
  <2>1. [work[j][a] EXCEPT !.aborted = TRUE] \in StageMemory
    BY <2>0 DEF StageMemory
  <2>2. [Unstarted EXCEPT !.pos = "dead"] \in StageMemory
    BY DEF Unstarted, StageMemory, StagePosition
  <2> QED BY <1>5, <2>1, <2>2, MemoryMoves DEF Disturbance, Abort, TimeLimit, WorkerCrash, RenewalFails
<1> QED BY <1>1, <1>2, <1>3, <1>4, <1>5 DEF Next, vars

\* The limit is kept by each step on its own, of numbers that are numbers.
LimitInv == RowsOK /\ BudgetBalanced /\ MemoriesOK /\ consumed \in Int /\ WithinLimit

LEMMA CountsAreNumbers == ASSUME RowsOK, NEW S PROVE Counts(S) \in Nat
  BY DEF RowsOK, Counts, CountOf, Row, ReconStage

LEMMA GrantWithin ==
  ASSUME LimitInv, NEW s \in ReconStage, NEW requested \in Nat, NEW granted, NEW live,
         Grant(s, requested, granted, live)
  PROVE  consumed' \in Int /\ WithinLimit'
<1>1. reserved \in Int
  BY CountsAreNumbers DEF LimitInv, BudgetBalanced
<1>2. row[s].count \in Int
  BY DEF LimitInv, RowsOK, Row
<1>3. CASE Active(s) /\ row[s].live
  BY <1>3 DEF Grant, LimitInv, WithinLimit
<1>4. CASE ~(Active(s) /\ row[s].live)
  <2>1. /\ granted = Smaller(requested, Available)
        /\ \E lost \in Int : reserved' = reserved - lost + granted /\ consumed' = consumed + lost
    BY <1>2, <1>4 DEF Grant
  <2>2. Available \in Nat /\ reserved + consumed + Available <= ReconShare
    BY <1>1, BudgetAssumption DEF Available, LimitInv, WithinLimit
  <2>3. granted \in Nat /\ granted <= Available
    BY <2>1, <2>2 DEF Smaller
  <2> QED BY <1>1, <2>1, <2>2, <2>3, BudgetAssumption DEF LimitInv, WithinLimit
<1> QED BY <1>3, <1>4

LEMMA SettleWithin ==
  ASSUME LimitInv, NEW s \in ReconStage, NEW charge \in Nat, ~Refused(s, charge), SettleRow(s, charge)
  PROVE  consumed' \in Int /\ WithinLimit'
<1>1. reserved \in Int /\ row[s].count \in Int
  BY CountsAreNumbers DEF LimitInv, BudgetBalanced, RowsOK, Row
<1> QED BY <1>1, BudgetAssumption DEF SettleRow, Refused, LimitInv, WithinLimit

LEMMA ReclaimWithin ==
  ASSUME LimitInv, Reclaim(ExpiredRows)
  PROVE  consumed' \in Int /\ WithinLimit'
<1>1. reserved \in Int /\ Counts(ExpiredRows) \in Int
  BY CountsAreNumbers DEF LimitInv, BudgetBalanced
<1> QED BY <1>1, BudgetAssumption DEF Reclaim, LimitInv, WithinLimit

LEMMA LimitStep == LimitInv /\ [Next]_vars => LimitInv'
<1> SUFFICES ASSUME LimitInv, [Next]_vars PROVE LimitInv'
  OBVIOUS
<1>0. RowsOK' /\ BudgetBalanced' /\ MemoriesOK'
  BY BalanceStep, MemoriesStep DEF LimitInv
<1> USE DEF budgetVars
<1>1. CASE UNCHANGED <<reserved, consumed>>
  BY <1>0, <1>1 DEF LimitInv, WithinLimit
<1>2. CASE ReclaimExpired \/ \E j \in Job : RecoverJob(j)
  BY <1>0, <1>2, ReclaimWithin DEF ReclaimExpired, RecoverJob, LimitInv
<1>3. CASE ProbeRequest
  <2>1. reserved \in Int
    BY CountsAreNumbers DEF LimitInv, BudgetBalanced
  <2> QED BY <1>0, <1>3, <2>1, BudgetAssumption DEF ProbeRequest, BudgetFits, LimitInv, WithinLimit
<1>4. ASSUME NEW j \in Job, NEW a \in AttemptNumber, Progress(j, a) PROVE LimitInv'
  <2>0. work[j][a] \in StageMemory
    BY DEF LimitInv, MemoriesOK
  <2>1. CASE Reserve(j, a)
    <3>1. PICK requested \in 1..MaxRequested, granted \in 0..ReconShare :
            Grant(StageOf(j), requested, granted, TRUE)
      BY <2>1 DEF Reserve
    <3>2. StageOf(j) \in ReconStage /\ requested \in Nat
      BY BudgetAssumption DEF StageOf, ReconStage
    <3> QED BY <1>0, <3>1, <3>2, GrantWithin DEF LimitInv
  <2>2. CASE FollowRedirects(j, a)
    <3>1. PICK redirects \in 1..MaxRequested, granted \in 0..ReconShare, live \in BOOLEAN :
            Grant("httpx_redirect", redirects, granted, live)
      BY <2>2 DEF FollowRedirects
    <3>2. "httpx_redirect" \in ReconStage /\ redirects \in Nat
      BY BudgetAssumption DEF ReconStage
    <3> QED BY <1>0, <3>1, <3>2, GrantWithin DEF LimitInv
  <2>3. CASE RedirectsEnd(j, a)
    <3>1. work[j][a].held \in Nat /\ "httpx_redirect" \in ReconStage
      BY <2>0 DEF StageMemory, ReconStage
    <3> QED BY <1>0, <2>3, <3>1, SettleWithin DEF RedirectsEnd, LimitInv
  <2>4. CASE Settle(j, a)
    <3>1. work[j][a].charge \in Nat /\ StageOf(j) \in ReconStage
      BY <2>0 DEF StageMemory, StageOf, ReconStage
    <3>2. ~Refused(StageOf(j), work[j][a].charge) /\ SettleRow(StageOf(j), work[j][a].charge)
      BY <2>4 DEF Settle
    <3> QED BY <1>0, <3>1, <3>2, SettleWithin DEF LimitInv
  <2>5. CASE EvidenceIsLive(j, a) \/ Acquire(j, a) \/ AcquireFails(j, a) \/ StartTool(j, a)
    BY <1>1, <2>5 DEF EvidenceIsLive, Acquire, AcquireFails, StartTool
  <2>6. CASE ToolSucceeds(j, a) \/ StageFails(j, a) \/ NoRedirects(j, a) \/ RedirectsUnsettled(j, a)
    BY <1>1, <2>6 DEF ToolSucceeds, StageFails, NoRedirects, RedirectsUnsettled
  <2>7. CASE Persist(j, a) \/ Release(j, a) \/ SettleFails(j, a) \/ End(j, a)
    BY <1>1, <2>7 DEF Persist, Release, SettleFails, End
  <2> QED BY <1>4, <2>1, <2>2, <2>3, <2>4, <2>5, <2>6, <2>7 DEF Progress
<1>5. ASSUME NEW j \in Job, ClaimRecon(j) \/ RenewForJob(j) PROVE LimitInv'
  BY <1>1, <1>5 DEF ClaimRecon, RenewForJob
<1>6. ASSUME NEW j \in Job, NEW a \in AttemptNumber, Disturbance(j, a) PROVE LimitInv'
  BY <1>1, <1>6 DEF Disturbance, Abort, TimeLimit, WorkerCrash, RenewalFails
<1>7. CASE Clock \/ OtherAcquires \/ OtherEnds
  BY <1>1, <1>7 DEF Clock, KeyExpires, RowExpires, OtherAcquires, OtherEnds
<1>8. CASE UNCHANGED vars
  BY <1>1, <1>8 DEF vars
<1> QED BY <1>2, <1>3, <1>4, <1>5, <1>6, <1>7, <1>8 DEF Next, Scheduler

\* What is reserved and what is consumed fit recon's share in every reachable
\* state, under every fault, stalled workers and late settlements included.
THEOREM ShareKept == Spec => []WithinLimit
<1>1. Init => LimitInv
  BY BalanceInit, MemoriesInit, BudgetAssumption DEF Init, LimitInv, WithinLimit
<1>2. LimitInv /\ [Next]_vars => LimitInv'
  BY LimitStep
<1>3. LimitInv => WithinLimit
  BY DEF LimitInv
<1> QED BY <1>1, <1>2, <1>3, PTL DEF Spec
-----------------------------------------------------------------------------
(* The host lease. *)

\* An attempt that sends requests holds the lease, and so does one that may
\* start to: its signal has not aborted.
MustHold(j, a) ==
  \/ work[j][a].pos \in Tooling
  \/ work[j][a].pos \in Leased /\ ~work[j][a].aborted

Holders ==
  /\ work \in [Job -> [AttemptNumber -> StageMemory]]
  /\ \A j \in Job, a \in AttemptNumber : MustHold(j, a) => host = <<j, a>>
  /\ other = "running" => host = OtherAudit

LEMMA HoldersInit == Init => Holders
<1> SUFFICES ASSUME Init PROVE Holders
  OBVIOUS
<1>1. Unstarted \in StageMemory
  BY DEF Unstarted, StageMemory, StagePosition, Executing, Leased, Tooling
<1>2. \A j \in Job, a \in AttemptNumber : work[j][a] = Unstarted
  BY DEF Init
<1>3. \A j \in Job, a \in AttemptNumber : ~MustHold(j, a)
  BY <1>2 DEF MustHold, Unstarted, Leased, Tooling
<1> QED BY <1>1, <1>3 DEF Holders, Init

\* An attempt moves and the lease does not: enough that it needs the lease only
\* if it needed it before.
LEMMA HoldersMove ==
  ASSUME Holders, NEW j \in Job, NEW a \in AttemptNumber, NEW m \in StageMemory,
         work' = [work EXCEPT ![j] = [work[j] EXCEPT ![a] = m]],
         m.pos \in Tooling \/ (m.pos \in Leased /\ ~m.aborted) => MustHold(j, a),
         UNCHANGED hostVars
  PROVE  Holders'
<1>1. work' \in [Job -> [AttemptNumber -> StageMemory]]
  BY DEF Holders
<1>2. ASSUME NEW k \in Job, NEW b \in AttemptNumber, MustHold(k, b)' PROVE host' = <<k, b>>
  <2>1. work'[k][b] = IF k = j /\ b = a THEN m ELSE work[k][b]
    BY DEF Holders
  <2>2. MustHold(k, b)
    BY <1>2, <2>1 DEF MustHold
  <2> QED BY <2>2 DEF Holders, hostVars
<1> QED BY <1>1, <1>2 DEF Holders, hostVars

LEMMA HoldersUnchanged == ASSUME Holders, UNCHANGED <<work, hostVars>> PROVE Holders'
  BY DEF Holders, MustHold, hostVars

\* A move that is a change of position and perhaps a failure.
LEMMA HoldersGoto ==
  ASSUME Holders, NEW j \in Job, NEW a \in AttemptNumber, NEW pos \in StagePosition,
         Goto(j, a, pos) \/ FailTo(j, a, pos),
         pos \in Leased => pos \notin Tooling /\ work[j][a].pos \in Leased,
         UNCHANGED hostVars
  PROVE  Holders'
<1>0. work[j][a] \in StageMemory /\ work \in [Job -> [AttemptNumber -> StageMemory]]
  BY DEF Holders
<1>1. PICK failed \in BOOLEAN :
        work' = [work EXCEPT ![j] = [work[j] EXCEPT ![a] =
                   [work[j][a] EXCEPT !.pos = pos, !.failed = failed]]]
  <2>1. CASE Goto(j, a, pos)
    <3>1. [work[j][a] EXCEPT !.pos = pos, !.failed = work[j][a].failed]
            = [work[j][a] EXCEPT !.pos = pos]
      BY <1>0 DEF StageMemory
    <3>2. work[j][a].failed \in BOOLEAN
      BY <1>0 DEF StageMemory
    <3> QED BY <2>1, <3>1, <3>2 DEF Goto
  <2>2. CASE FailTo(j, a, pos)
    <3>1. work' = [work EXCEPT ![j] = [work[j] EXCEPT ![a] =
                     [work[j][a] EXCEPT !.pos = pos, !.failed = TRUE]]]
      BY <2>2 DEF FailTo
    <3> QED BY <3>1
  <2> QED BY <2>1, <2>2
<1> DEFINE m == [work[j][a] EXCEPT !.pos = pos, !.failed = failed]
<1>2. m \in StageMemory /\ m.pos = pos /\ m.aborted = work[j][a].aborted
  BY <1>0 DEF StageMemory
<1>3. m.pos \in Tooling \/ (m.pos \in Leased /\ ~m.aborted) => MustHold(j, a)
  BY <1>2 DEF MustHold, Leased
<1> QED BY <1>1, <1>2, <1>3, HoldersMove

\* The steps of a stage of its own accord.
LEMMA HoldersProgress ==
  ASSUME Holders, NEW j \in Job, NEW a \in AttemptNumber, Progress(j, a)
  PROVE  Holders'
<1> USE DEF Stands
<1>0. work[j][a] \in StageMemory /\ work \in [Job -> [AttemptNumber -> StageMemory]]
  BY DEF Holders
<1> DEFINE Moved(m) == work' = [work EXCEPT ![j] = [work[j] EXCEPT ![a] = m]]
<1>1. CASE EvidenceIsLive(j, a) \/ SettleFails(j, a)
  BY <1>1, HoldersGoto DEF EvidenceIsLive, SettleFails, StagePosition, Executing, Leased, Tooling
<1>2. CASE Reserve(j, a)
  <2>1. PICK granted \in 0..ReconShare :
          IF granted = 0 THEN FailTo(j, a, "ended")
          ELSE Moved([work[j][a] EXCEPT !.pos = "granted", !.held = granted])
    BY <1>2 DEF Reserve
  <2>2. UNCHANGED hostVars
    BY <1>2 DEF Reserve
  <2>3. CASE granted = 0
    BY <2>1, <2>2, <2>3, HoldersGoto DEF StagePosition, Executing, Leased, Tooling
  <2>4. CASE granted # 0
    <3> DEFINE m == [work[j][a] EXCEPT !.pos = "granted", !.held = granted]
    <3>1. Moved(m)
      BY <1>0, <2>1, <2>4
    <3>2. granted \in Nat /\ "granted" \in StagePosition
      BY BudgetAssumption DEF StagePosition, Executing
    <3>3. m \in StageMemory /\ m.pos = "granted"
      BY <1>0, <3>2 DEF StageMemory
    <3> QED BY <2>2, <3>1, <3>3, HoldersMove DEF Leased, Tooling
  <2> QED BY <2>3, <2>4
<1>3. CASE Acquire(j, a)
  <2> DEFINE m == [work[j][a] EXCEPT !.pos = "leased"]
  <2>1. Moved(m) /\ m \in StageMemory /\ host = NoHolder /\ host' = <<j, a>> /\ other' = other
    BY <1>0, <1>3 DEF Acquire, Goto, StageMemory, StagePosition, Executing, Leased
  <2>2. work' \in [Job -> [AttemptNumber -> StageMemory]]
    BY <1>0, <2>1
  <2>3. ASSUME NEW k \in Job, NEW b \in AttemptNumber, MustHold(k, b)' PROVE host' = <<k, b>>
    <3>1. CASE k = j /\ b = a
      BY <2>1, <3>1
    <3>2. CASE ~(k = j /\ b = a)
      <4>1. work'[k][b] = work[k][b]
        BY <1>0, <2>1, <3>2
      <4>2. MustHold(k, b)
        BY <2>3, <4>1 DEF MustHold
      <4>3. host = <<k, b>>
        BY <4>2 DEF Holders
      <4> QED BY <2>1, <4>3 DEF NoHolder, Job
    <3> QED BY <3>1, <3>2
  <2>4. other # "running"
    BY <2>1 DEF Holders, NoHolder, OtherAudit
  <2> QED BY <2>1, <2>2, <2>3, <2>4 DEF Holders
<1>4. CASE AcquireFails(j, a)
  BY <1>4, HoldersGoto DEF AcquireFails, StagePosition, Executing, Leased, Tooling
<1>5. CASE StartTool(j, a)
  <2>1. PICK n \in 0..work[j][a].held :
          Moved([work[j][a] EXCEPT !.pos = "running", !.held = 0, !.charge = work[j][a].held,
                                   !.used = IF j = "discover" THEN n ELSE 0])
    BY <1>5 DEF StartTool
  <2> DEFINE m == [work[j][a] EXCEPT !.pos = "running", !.held = 0, !.charge = work[j][a].held,
                                     !.used = IF j = "discover" THEN n ELSE 0]
  <2>2. n \in Nat /\ "running" \in StagePosition
    BY <1>0 DEF StageMemory, StagePosition, Executing, Leased, Tooling
  <2>3. m \in StageMemory
    BY <1>0, <2>2 DEF StageMemory
  <2>4. MustHold(j, a) /\ UNCHANGED hostVars
    BY <1>5 DEF StartTool, MustHold, Leased
  <2> QED BY <2>1, <2>3, <2>4, HoldersMove
<1>6. CASE ToolSucceeds(j, a)
  <2>1. CASE j = "discover"
    <3> DEFINE m == [work[j][a] EXCEPT !.pos = "persisting", !.charge = work[j][a].used, !.used = 0]
    <3>1. Moved(m)
      BY <1>6, <2>1 DEF ToolSucceeds
    <3>2. m \in StageMemory
      BY <1>0 DEF StageMemory, StagePosition, Executing, Leased
    <3>3. MustHold(j, a) /\ UNCHANGED hostVars
      BY <1>6 DEF ToolSucceeds, MustHold, Tooling
    <3> QED BY <3>1, <3>2, <3>3, HoldersMove
  <2>2. CASE j # "discover"
    BY <1>6, <2>2, HoldersGoto DEF ToolSucceeds, StagePosition, Executing, Leased, Tooling
  <2> QED BY <2>1, <2>2
<1>7. CASE StageFails(j, a)
  BY <1>7, HoldersGoto DEF StageFails, StagePosition, Executing, Leased, Tooling
<1>8. CASE FollowRedirects(j, a)
  <2>1. PICK redirects \in 1..MaxRequested, granted \in 0..ReconShare :
          LET follow == Smaller(redirects, granted)
              pos == IF follow = 0 THEN "persisting"
                     ELSE IF work[j][a].aborted THEN "refused" ELSE "following"
          IN  Moved([work[j][a] EXCEPT !.pos = pos, !.held = follow])
    BY <1>8 DEF FollowRedirects
  <2> DEFINE follow == Smaller(redirects, granted)
             pos == IF follow = 0 THEN "persisting"
                    ELSE IF work[j][a].aborted THEN "refused" ELSE "following"
             m == [work[j][a] EXCEPT !.pos = pos, !.held = follow]
  <2>2. Moved(m)
    BY <1>0, <2>1
  <2>3. follow \in Nat
    BY BudgetAssumption DEF Smaller
  <2>4. pos \in {"persisting", "refused", "following"}
    OBVIOUS
  <2>5. m \in StageMemory /\ m.aborted = work[j][a].aborted /\ m.pos = pos
    BY <1>0, <2>3, <2>4 DEF StageMemory, StagePosition, Executing, Leased, Tooling
  <2>6. work[j][a].pos = "ran" /\ UNCHANGED hostVars
    BY <1>8 DEF FollowRedirects
  <2>7. m.pos \in Tooling \/ (m.pos \in Leased /\ ~m.aborted) => MustHold(j, a)
    BY <1>0, <2>5, <2>6 DEF MustHold, Leased, Tooling, StageMemory
  <2> QED BY <2>2, <2>5, <2>6, <2>7, HoldersMove
<1>9. CASE NoRedirects(j, a)
  BY <1>9, HoldersGoto DEF NoRedirects, StagePosition, Executing, Leased, Tooling
<1>10. CASE RedirectsEnd(j, a) \/ RedirectsUnsettled(j, a)
  BY <1>10, HoldersGoto DEF RedirectsEnd, RedirectsUnsettled, StagePosition, Executing, Leased, Tooling
<1>11. CASE Persist(j, a) \/ Settle(j, a)
  BY <1>11, HoldersGoto DEF Persist, Settle, StagePosition, Executing, Leased, Tooling
<1>12. CASE Release(j, a)
  <2>1. CASE UNCHANGED host
    BY <1>12, <2>1, HoldersGoto DEF Release, hostVars, StagePosition, Executing, Leased, Tooling
  <2>2. CASE ~ UNCHANGED host
    <3>1. host = <<j, a>> /\ host' = NoHolder /\ Goto(j, a, "settling") /\ other' = other
      BY <1>12, <2>2 DEF Release
    <3> DEFINE m == [work[j][a] EXCEPT !.pos = "settling"]
    <3>2. Moved(m) /\ m \in StageMemory /\ m.pos = "settling"
      BY <1>0, <3>1 DEF Goto, StageMemory, StagePosition, Executing
    <3>3. work' \in [Job -> [AttemptNumber -> StageMemory]]
      BY <1>0, <3>2
    <3>4. ASSUME NEW k \in Job, NEW b \in AttemptNumber, MustHold(k, b)' PROVE FALSE
      <4>1. work'[k][b] = IF k = j /\ b = a THEN m ELSE work[k][b]
        BY <1>0, <3>2
      <4>2. ~(k = j /\ b = a)
        BY <3>2, <3>4, <4>1 DEF MustHold, Leased, Tooling
      <4>3. MustHold(k, b)
        BY <3>4, <4>1, <4>2 DEF MustHold
      <4>4. host = <<k, b>>
        BY <4>3 DEF Holders
      <4> QED BY <3>1, <4>2, <4>4
    <3>5. other # "running"
      BY <3>1 DEF Holders, OtherAudit, Job
    <3> QED BY <3>1, <3>3, <3>4, <3>5 DEF Holders
  <2> QED BY <2>1, <2>2
<1>13. CASE End(j, a)
  <2>1. Moved(Unstarted) /\ Unstarted \in StageMemory /\ UNCHANGED hostVars
    BY <1>0, <1>13 DEF End, Unstarted, StageMemory, StagePosition
  <2>2. Unstarted.pos \notin Leased /\ Unstarted.pos \notin Tooling
    BY DEF Unstarted, Leased, Tooling
  <2> QED BY <2>1, <2>2, HoldersMove
<1> QED BY <1>1, <1>2, <1>3, <1>4, <1>5, <1>6, <1>7, <1>8, <1>9, <1>10, <1>11, <1>12, <1>13 DEF Progress

\* What the world does to an attempt: an abort keeps a sending tool's need of
\* the lease and ends that of a tool that has not started.
LEMMA HoldersDisturbed ==
  ASSUME Holders, NEW j \in Job, NEW a \in AttemptNumber, Disturbance(j, a)
  PROVE  Holders'
<1>0. work[j][a] \in StageMemory /\ UNCHANGED hostVars
  BY DEF Holders, Disturbance, Abort, TimeLimit, WorkerCrash, RenewalFails
<1>1. CASE WorkerCrash(j, a)
  <2> DEFINE m == [Unstarted EXCEPT !.pos = "dead"]
  <2>1. m \in StageMemory /\ m.pos = "dead"
    BY DEF Unstarted, StageMemory, StagePosition
  <2>2. work' = [work EXCEPT ![j] = [work[j] EXCEPT ![a] = m]]
    BY <1>1 DEF WorkerCrash
  <2> QED BY <1>0, <2>1, <2>2, HoldersMove DEF Leased, Tooling
<1>2. CASE Abort(j, a) \/ TimeLimit(j, a) \/ RenewalFails(j, a)
  <2> DEFINE m == [work[j][a] EXCEPT !.aborted = TRUE]
  <2>1. m \in StageMemory /\ m.pos = work[j][a].pos /\ m.aborted
    BY <1>0 DEF StageMemory
  <2>2. work' = [work EXCEPT ![j] = [work[j] EXCEPT ![a] = m]]
    BY <1>2 DEF Abort, TimeLimit, RenewalFails
  <2> QED BY <1>0, <2>1, <2>2, HoldersMove DEF MustHold
<1> QED BY <1>1, <1>2 DEF Disturbance

LEMMA HoldersStep == "stall" \notin Faults /\ Holders /\ [Next]_vars => Holders'
<1> SUFFICES ASSUME "stall" \notin Faults, Holders, [Next]_vars PROVE Holders'
  OBVIOUS
<1>1. CASE UNCHANGED vars
  BY <1>1, HoldersUnchanged DEF vars
<1>2. CASE ReclaimExpired \/ ProbeRequest
  BY <1>2, HoldersUnchanged DEF ReclaimExpired, ProbeRequest
<1>3. ASSUME NEW j \in Job, RecoverJob(j) \/ RenewForJob(j) PROVE Holders'
  BY <1>3, HoldersUnchanged DEF RecoverJob, RenewForJob
<1>4. ASSUME NEW s \in ReconStage, RowExpires(s) PROVE Holders'
  BY <1>4, HoldersUnchanged DEF RowExpires
<1>5. ASSUME NEW j \in Job, ClaimRecon(j) PROVE Holders'
  <2> DEFINE a == attempts[j] + 1
             m == [Unstarted EXCEPT !.pos = "started"]
  <2>1. m \in StageMemory /\ m.pos = "started"
    BY DEF Unstarted, StageMemory, StagePosition, Executing
  <2>2. work' = [work EXCEPT ![j] = [work[j] EXCEPT ![a] = m]] /\ UNCHANGED hostVars
    BY <1>5 DEF ClaimRecon
  <2>3. CASE a \in AttemptNumber
    BY <2>1, <2>2, <2>3, HoldersMove DEF Leased, Tooling
  <2>4. CASE a \notin AttemptNumber
    <3>1. [work[j] EXCEPT ![a] = m] = work[j]
      BY <2>4 DEF Holders
    <3>2. work' = work
      BY <2>2, <3>1 DEF Holders
    <3> QED BY <2>2, <3>2, HoldersUnchanged
  <2> QED BY <2>3, <2>4
<1>6. CASE KeyExpires
  <2>1. ASSUME NEW k \in Job, NEW b \in AttemptNumber, MustHold(k, b)' PROVE FALSE
    <3>1. MustHold(k, b) /\ host = <<k, b>>
      BY <1>6, <2>1 DEF KeyExpires, MustHold, Holders
    <3>2. work[k][b].pos \notin Tooling /\ (work[k][b].pos \in Leased => work[k][b].aborted)
      BY <1>6, <3>1 DEF KeyExpires
    <3> QED BY <3>1, <3>2 DEF MustHold
  <2>2. other # "running"
    BY <1>6 DEF KeyExpires, Holders
  <2> QED BY <1>6, <2>1, <2>2 DEF KeyExpires, Holders
<1>7. CASE OtherAcquires
  <2>1. ASSUME NEW k \in Job, NEW b \in AttemptNumber, MustHold(k, b)' PROVE FALSE
    BY <1>7, <2>1 DEF OtherAcquires, MustHold, Holders, NoHolder, Job
  <2> QED BY <1>7, <2>1 DEF OtherAcquires, Holders
<1>8. CASE OtherEnds
  <2>1. ASSUME NEW k \in Job, NEW b \in AttemptNumber, MustHold(k, b)' PROVE FALSE
    BY <1>8, <2>1 DEF OtherEnds, MustHold, Holders, OtherAudit, Job
  <2>2. other' # "running"
    BY <1>8 DEF OtherEnds
  <2> QED BY <1>8, <2>1, <2>2 DEF OtherEnds, Holders
<1>9. ASSUME NEW j \in Job, NEW a \in AttemptNumber, Progress(j, a) \/ Disturbance(j, a) PROVE Holders'
  BY <1>9, HoldersProgress, HoldersDisturbed
<1> QED BY <1>1, <1>2, <1>3, <1>4, <1>5, <1>6, <1>7, <1>8, <1>9 DEF Next, Scheduler, Clock

LEMMA HoldersExclude == Holders => OneToolPerHost
<1> SUFFICES ASSUME Holders PROVE OneToolPerHost
  OBVIOUS
<1>1. ASSUME NEW w \in Senders PROVE w = host
  <2>1. PICK j \in Job, a \in AttemptNumber : w = <<j, a>>
    BY DEF Senders
  <2>2. MustHold(j, a)
    BY <2>1 DEF Senders, MustHold
  <2> QED BY <2>1, <2>2 DEF Holders
<1>2. Senders \subseteq {host}
  BY <1>1
<1>3. Cardinality(Senders) <= 1
  <2>1. IsFiniteSet({host}) /\ Cardinality({host}) = 1
    BY FS_Singleton
  <2> QED BY <1>2, <2>1, FS_Subset
<1>4. other = "running" => Senders = {}
  <2> SUFFICES ASSUME other = "running", NEW w \in Senders PROVE FALSE
    OBVIOUS
  <2>1. PICK j \in Job, a \in AttemptNumber : w = <<j, a>>
    BY DEF Senders
  <2>2. w = host /\ host = OtherAudit
    BY <1>1 DEF Holders
  <2> QED BY <2>1, <2>2 DEF OtherAudit, Job
<1> QED BY <1>3, <1>4 DEF OneToolPerHost

\* While no worker stalls past its leases, at most one tool sends requests to
\* the host, whatever dies, times out, is aborted or cannot reach Redis.
THEOREM HostExclusive == "stall" \notin Faults /\ Spec => []OneToolPerHost
<1>1. Init => Holders
  BY HoldersInit
<1>2. Holders => OneToolPerHost
  BY HoldersExclude
<1> SUFFICES ASSUME "stall" \notin Faults PROVE Spec => []OneToolPerHost
  OBVIOUS
<1>3. Holders /\ [Next]_vars => Holders'
  BY HoldersStep
<1> QED BY <1>1, <1>2, <1>3, PTL DEF Spec
-----------------------------------------------------------------------------
(* The charge. *)

\* Where an attempt works with its stage's reservation.
Holding == Leased \cup {"granted", "releasing", "settling"}

\* What the stage would be charged with for what it has sent so far.
Spent(j, a) ==
  IF j = "discover" /\ work[j][a].pos = "running" THEN work[j][a].used ELSE work[j][a].charge

CountersOK ==
  /\ consumed \in Int /\ requests \in Int
  /\ jobState \in [Job -> {"queued", "running", "succeeded", "failed"}]
  /\ attempts \in [Job -> 0..MaxAttempt]

\* Only the attempt its job counts executes, and verify follows discover.
InTurn ==
  /\ \A j \in Job, a \in AttemptNumber : work[j][a].pos \in Executing => Counted(j, a)
  /\ attempts["verify"] # 0 => jobState["discover"] = "succeeded"

\* A row is active while the attempt of its job holds it or lies dead: whoever
\* ends, settles it first, and whoever is recovered, is charged first.
RowsHeld ==
  /\ \A j \in Job : Active(StageOf(j)) =>
       jobState[j] = "running" /\ work[j][attempts[j]].pos \in Holding \cup {"dead"}
  /\ Active("httpx_redirect") =>
       jobState["verify"] = "running" /\ work["verify"][attempts["verify"]].pos \in {"following", "refused", "dead"}
  /\ \A j \in Job, a \in AttemptNumber :
       work[j][a].pos \in Holding => Active(StageOf(j)) /\ row[StageOf(j)].live

\* What an attempt remembers fits the rows it holds.
Fitting(j, a) ==
  /\ work[j][a].pos \in {"granted", "leased"} => work[j][a].held = row[StageOf(j)].count /\ work[j][a].charge = 0
  /\ work[j][a].charge <= row[StageOf(j)].count
  /\ work[j][a].used <= work[j][a].charge
  /\ work[j][a].pos \in {"following", "refused"} /\ Active("httpx_redirect")
       => row["httpx_redirect"].count = work[j][a].held

\* What an attempt holds beyond what it would be charged with is still unsent.
Accounts ==
  \A j \in Job, a \in AttemptNumber : work[j][a].pos \in Holding =>
    Fitting(j, a) /\ requests + row[StageOf(j)].count - Spent(j, a) <= consumed + reserved

\* An attempt that begins has spent nothing, and only verify follows redirects.
PlacesOK ==
  \A j \in Job, a \in AttemptNumber :
    /\ work[j][a].pos = "started" => work[j][a].charge = 0 /\ work[j][a].used = 0
    /\ work[j][a].pos \in {"following", "refused"} => j = "verify"

ChargeInv ==
  /\ LimitInv /\ CountersOK
  /\ InTurn /\ RowsHeld /\ Accounts /\ PlacesOK /\ RequestsCharged

LEMMA ChargeInit == Init => ChargeInv
<1> SUFFICES ASSUME Init PROVE ChargeInv
  OBVIOUS
<1>1. LimitInv
  BY BalanceInit, MemoriesInit, BudgetAssumption DEF Init, LimitInv, WithinLimit
<1>2. \A j \in Job, a \in AttemptNumber : work[j][a].pos \notin Executing
  BY DEF Init, Unstarted, Executing, Leased, Tooling
<1>3. Holding \subseteq Executing
  BY DEF Holding, Executing
<1>4. \A s \in ReconStage : ~Active(s)
  BY DEF Init, NoReservation, Active
<1>5. CountersOK /\ RequestsCharged
  BY BudgetAssumption DEF Init, CountersOK, RequestsCharged, Job
<1>6. InTurn
  BY <1>2 DEF InTurn, Init, Job
<1>7. RowsHeld /\ Accounts
  BY <1>2, <1>3, <1>4 DEF RowsHeld, Accounts, StageOf, ReconStage
<1>8. PlacesOK
  BY <1>2 DEF PlacesOK, Executing, Leased, Tooling
<1> QED BY <1>1, <1>5, <1>6, <1>7, <1>8 DEF ChargeInv

\* Who executes is the only one who does, of all attempts of both jobs.
LEMMA OneExecutes ==
  ASSUME ChargeInv, NEW j \in Job, NEW a \in AttemptNumber, work[j][a].pos \in Executing,
         NEW k \in Job, NEW b \in AttemptNumber, work[k][b].pos \in Executing
  PROVE  k = j /\ b = a
<1>1. Counted(j, a) /\ Counted(k, b)
  BY DEF ChargeInv, InTurn
<1>2. k = j
  BY <1>1 DEF Counted, ChargeInv, InTurn, AttemptNumber, Job
<1> QED BY <1>1, <1>2 DEF Counted

\* The counters stay numbers and states.
LEMMA CountersStep == ChargeInv /\ [Next]_vars => CountersOK'
<1> SUFFICES ASSUME ChargeInv, [Next]_vars PROVE CountersOK'
  OBVIOUS
<1>1. consumed' \in Int
  BY LimitStep DEF ChargeInv, LimitInv
<1>2. CountersOK /\ MemoriesOK
  BY DEF ChargeInv, LimitInv
<1>3. requests' \in Int
  <2>1. ASSUME NEW j \in Job, NEW a \in AttemptNumber, StartTool(j, a) PROVE requests' \in Int
    <3>1. work[j][a].held \in Nat
      BY <1>2 DEF MemoriesOK, StageMemory
    <3> QED BY <1>2, <2>1, <3>1 DEF StartTool, CountersOK
  <2>2. ASSUME NEW j \in Job, NEW a \in AttemptNumber, FollowRedirects(j, a) PROVE requests' \in Int
    <3>1. PICK redirects \in 1..MaxRequested, granted \in 0..ReconShare :
            \E n \in 0..Smaller(redirects, granted) : requests' = requests + n
      BY <2>2 DEF FollowRedirects
    <3> QED BY <1>2, <3>1, BudgetAssumption DEF CountersOK, Smaller
  <2>3. CASE ProbeRequest
    BY <1>2, <2>3 DEF ProbeRequest, CountersOK
  <2>4. CASE UNCHANGED requests
    BY <1>2, <2>4 DEF CountersOK
  <2>5. CASE Scheduler \/ Clock \/ OtherAcquires \/ OtherEnds \/ UNCHANGED vars
    BY <2>4, <2>5 DEF vars, Scheduler, Clock, ReclaimExpired, RecoverJob, ClaimRecon, KeyExpires, RowExpires,
       OtherAcquires, OtherEnds
  <2>6. ASSUME NEW j \in Job, RenewForJob(j) PROVE requests' \in Int
    BY <2>4, <2>6, SMTT(30) DEF RenewForJob
  <2>7. ASSUME NEW j \in Job, NEW a \in AttemptNumber, Progress(j, a) PROVE requests' \in Int
    BY <2>1, <2>2, <2>4, <2>7 DEF Progress, EvidenceIsLive, Reserve, Acquire, AcquireFails, ToolSucceeds,
       StageFails, NoRedirects, RedirectsEnd, RedirectsUnsettled, Persist, Release, Settle, SettleFails, End
  <2>8. ASSUME NEW j \in Job, NEW a \in AttemptNumber, Disturbance(j, a) PROVE requests' \in Int
    BY <2>4, <2>8 DEF Disturbance, Abort, TimeLimit, WorkerCrash, RenewalFails
  <2> QED BY <2>3, <2>5, <2>6, <2>7, <2>8 DEF Next
<1> DEFINE Typed == /\ jobState' \in [Job -> {"queued", "running", "succeeded", "failed"}]
                    /\ attempts' \in [Job -> 0..MaxAttempt]
<1>4. Typed
  <2>1. CASE UNCHANGED <<jobState, attempts>>
    BY <1>2, <2>1 DEF CountersOK
  <2>2. ASSUME NEW j \in Job, ClaimRecon(j) PROVE Typed
    BY <1>2, <2>2, BudgetAssumption DEF ClaimRecon, CountersOK
  <2>3. ASSUME NEW j \in Job, RecoverJob(j) PROVE Typed
    BY <1>2, <2>3 DEF RecoverJob, CountersOK
  <2>4. ASSUME NEW j \in Job, NEW a \in AttemptNumber, End(j, a) \/ TimeLimit(j, a) PROVE Typed
    BY <1>2, <2>4 DEF End, TimeLimit, CountersOK
  <2>5. CASE Scheduler
    BY <2>1, <2>2, <2>3, <2>5 DEF Scheduler, ReclaimExpired, jobVars
  <2>6. CASE Clock \/ ProbeRequest \/ OtherAcquires \/ OtherEnds \/ UNCHANGED vars
    BY <2>1, <2>6 DEF vars, jobVars, Clock, KeyExpires, RowExpires, ProbeRequest, OtherAcquires, OtherEnds
  <2>7. ASSUME NEW j \in Job, RenewForJob(j) PROVE Typed
    BY <2>1, <2>7, SMTT(40) DEF RenewForJob, jobVars
  <2>8. ASSUME NEW j \in Job, NEW a \in AttemptNumber, Progress(j, a) PROVE Typed
    BY <2>1, <2>4, <2>8 DEF Progress, jobVars, EvidenceIsLive, Reserve, Acquire, AcquireFails, StartTool,
       ToolSucceeds, StageFails, FollowRedirects, NoRedirects, RedirectsEnd, RedirectsUnsettled, Persist,
       Release, Settle, SettleFails
  <2>9. ASSUME NEW j \in Job, NEW a \in AttemptNumber, Disturbance(j, a) PROVE Typed
    BY <2>1, <2>4, <2>9 DEF Disturbance, jobVars, Abort, WorkerCrash, RenewalFails
  <2> QED BY <2>5, <2>6, <2>7, <2>8, <2>9 DEF Next
<1> QED BY <1>1, <1>3, <1>4 DEF CountersOK

\* The attempt that executes moves, and only rows of its job change: what must be
\* shown is what the attempt's new memory and its rows have to do with each other.
LEMMA ChargeMoves ==
  ASSUME ChargeInv, LimitInv', CountersOK',
         NEW j \in Job, NEW a \in AttemptNumber, NEW m \in StageMemory,
         work[j][a].pos \in Executing,
         work' = [work EXCEPT ![j] = [work[j] EXCEPT ![a] = m]],
         UNCHANGED <<jobState, attempts>>,
         m.pos \in Executing \cup {"dead"},
         \A s \in ReconStage \ Rows(j) : row'[s] = row[s],
         Active(StageOf(j))' => m.pos \in Holding \cup {"dead"},
         j = "verify" /\ Active("httpx_redirect")' => m.pos \in {"following", "refused", "dead"},
         m.pos \in Holding =>
           /\ Active(StageOf(j))' /\ row'[StageOf(j)].live
           /\ Fitting(j, a)' /\ requests' + row'[StageOf(j)].count - Spent(j, a)' <= consumed' + reserved',
         m.pos = "started" => m.charge = 0 /\ m.used = 0,
         m.pos \in {"following", "refused"} => j = "verify",
         RequestsCharged'
  PROVE  ChargeInv'
<1>1. \A k \in Job, b \in AttemptNumber : work'[k][b] = IF k = j /\ b = a THEN m ELSE work[k][b]
  BY DEF ChargeInv, LimitInv, MemoriesOK
<1>2. Counted(j, a) /\ Counted(j, a)'
  BY DEF ChargeInv, InTurn, Counted
<1>3. Holding \subseteq Executing /\ "dead" \notin Executing /\ "dead" \notin Holding
  BY DEF Holding, Executing, Leased, Tooling
<1>4. \A k \in Job, b \in AttemptNumber : ~(k = j /\ b = a) => work'[k][b] = work[k][b] /\ work[k][b].pos \notin Executing
  BY <1>1, OneExecutes
<1>5. InTurn'
  BY <1>1, <1>2, <1>4 DEF ChargeInv, InTurn, Counted
<1>6. work'[j][attempts'[j]] = m /\ jobState'[j] = "running"
  BY <1>1, <1>2 DEF Counted
<1>7. ASSUME NEW k \in Job, k # j PROVE row'[StageOf(k)] = row[StageOf(k)]
  BY <1>7 DEF Job, StageOf, Rows, ReconStage
<1>8. ASSUME NEW k \in Job, Active(StageOf(k))'
      PROVE  jobState'[k] = "running" /\ work'[k][attempts'[k]].pos \in Holding \cup {"dead"}
  <2>1. CASE k = j
    BY <1>6, <1>8, <2>1
  <2>2. CASE k # j
    <3>1. jobState[k] = "running" /\ work[k][attempts[k]].pos \in Holding \cup {"dead"}
      BY <1>7, <1>8, <2>2 DEF Active, ChargeInv, RowsHeld
    <3>2. work'[k] = work[k]
      BY <2>2 DEF ChargeInv, LimitInv, MemoriesOK
    <3> QED BY <3>1, <3>2
  <2> QED BY <2>1, <2>2
<1>9. Active("httpx_redirect")' =>
        jobState'["verify"] = "running" /\ work'["verify"][attempts'["verify"]].pos \in {"following", "refused", "dead"}
  <2>1. CASE j = "verify"
    BY <1>6, <2>1
  <2>2. CASE j = "discover"
    <3>1. row'["httpx_redirect"] = row["httpx_redirect"] /\ work'["verify"] = work["verify"]
      BY <2>2 DEF Rows, ReconStage, ChargeInv, LimitInv, MemoriesOK, Job
    <3> QED BY <3>1 DEF ChargeInv, RowsHeld, Active
  <2> QED BY <2>1, <2>2 DEF Job
<1>10. \A k \in Job, b \in AttemptNumber : work'[k][b].pos \in Holding => k = j /\ b = a
  BY <1>3, <1>4
<1>11. RowsHeld'
  BY <1>1, <1>8, <1>9, <1>10 DEF RowsHeld
<1>12. Accounts'
  BY <1>1, <1>10 DEF Accounts
<1>13. PlacesOK'
  BY <1>1 DEF ChargeInv, PlacesOK
<1> QED BY <1>5, <1>11, <1>12, <1>13 DEF ChargeInv

\* A move that leaves the tables and what the attempt counts as they are.
LEMMA ChargeStays ==
  ASSUME ChargeInv, LimitInv', CountersOK',
         NEW j \in Job, NEW a \in AttemptNumber, NEW m \in StageMemory,
         work[j][a].pos \in Executing,
         work' = [work EXCEPT ![j] = [work[j] EXCEPT ![a] = m]],
         UNCHANGED <<budgetVars, jobState, attempts, requests>>,
         m.pos \in Executing \cup {"dead"},
         m.pos # "dead" =>
           /\ m.held = work[j][a].held /\ m.used = work[j][a].used /\ m.charge = work[j][a].charge
           /\ m.pos \in Holding <=> work[j][a].pos \in Holding
           /\ m.pos \in {"granted", "leased"} => work[j][a].pos \in {"granted", "leased"}
           /\ m.pos = "running" => work[j][a].pos = "running"
           /\ m.pos = "started" => work[j][a].pos = "started"
           /\ m.pos \in {"following", "refused"} <=> work[j][a].pos \in {"following", "refused"}
  PROVE  ChargeInv'
<1>1. work'[j][a] = m
  BY DEF ChargeInv, LimitInv, MemoriesOK
<1>2. Counted(j, a)
  BY DEF ChargeInv, InTurn
<1>3. "dead" \notin Executing /\ "dead" \notin Holding /\ StageOf(j) \in ReconStage
  BY DEF Holding, Executing, Leased, Tooling, StageOf, ReconStage
<1>4. \A s \in ReconStage : row'[s] = row[s] /\ (Active(s)' <=> Active(s))
  BY DEF budgetVars, Active
<1>5. Active(StageOf(j))' => m.pos \in Holding \cup {"dead"}
  BY <1>2, <1>3, <1>4 DEF ChargeInv, RowsHeld, Counted
<1>6. j = "verify" /\ Active("httpx_redirect")' => m.pos \in {"following", "refused", "dead"}
  BY <1>2, <1>3, <1>4 DEF ChargeInv, RowsHeld, Counted, ReconStage
<1>7. RequestsCharged'
  BY DEF ChargeInv, RequestsCharged, budgetVars
<1>8. ASSUME m.pos \in Holding
      PROVE  /\ Active(StageOf(j))' /\ row'[StageOf(j)].live
             /\ Fitting(j, a)' /\ requests' + row'[StageOf(j)].count - Spent(j, a)' <= consumed' + reserved'
  <2>1. work[j][a].pos \in Holding /\ m.pos # "dead"
    BY <1>3, <1>8
  <2>2. Active(StageOf(j)) /\ row[StageOf(j)].live
    BY <2>1 DEF ChargeInv, RowsHeld
  <2>3. Fitting(j, a) /\ requests + row[StageOf(j)].count - Spent(j, a) <= consumed + reserved
    BY <2>1 DEF ChargeInv, Accounts
  <2>4. Fitting(j, a)'
    BY <1>1, <1>4, <2>1, <2>3 DEF Fitting, budgetVars, Active
  <2>5. Spent(j, a) <= Spent(j, a)'
    BY <1>1, <2>1, <2>3 DEF Spent, Fitting, StageMemory
  <2>6. /\ Spent(j, a) \in Int /\ Spent(j, a)' \in Int /\ row[StageOf(j)].count \in Int
        /\ requests \in Int /\ consumed \in Int /\ reserved \in Int
    BY <1>1, <1>3, CountsAreNumbers DEF Spent, StageMemory, ChargeInv, LimitInv, MemoriesOK, RowsOK, Row, CountersOK, BudgetBalanced
  <2>7. requests' + row'[StageOf(j)].count - Spent(j, a)' <= consumed' + reserved'
    BY <2>3, <2>5, <2>6 DEF budgetVars
  <2> QED BY <1>3, <1>4, <2>2, <2>4, <2>7
<1>9. \A s \in ReconStage \ Rows(j) : row'[s] = row[s]
  BY <1>4
<1>10. /\ m.pos = "started" => m.charge = 0 /\ m.used = 0
       /\ m.pos \in {"following", "refused"} => j = "verify"
  BY <1>3 DEF ChargeInv, PlacesOK
<1> QED BY <1>5, <1>6, <1>7, <1>8, <1>9, <1>10, ChargeMoves

\* A change of position, and perhaps a failure.
LEMMA ChargeGoto ==
  ASSUME ChargeInv, LimitInv', CountersOK',
         NEW j \in Job, NEW a \in AttemptNumber, NEW pos \in StagePosition,
         work[j][a].pos \in Executing,
         Goto(j, a, pos) \/ FailTo(j, a, pos),
         UNCHANGED <<budgetVars, jobState, attempts, requests>>,
         pos \in Executing \ {"started", "granted", "running", "following", "refused"},
         pos \in Holding <=> work[j][a].pos \in Holding,
         pos = "leased" => work[j][a].pos = "granted",
         work[j][a].pos \notin {"following", "refused"}
  PROVE  ChargeInv'
<1>0. work[j][a] \in StageMemory
  BY DEF ChargeInv, LimitInv, MemoriesOK
<1>1. CASE Goto(j, a, pos)
  <2> DEFINE m == [work[j][a] EXCEPT !.pos = pos]
  <2>1. /\ m \in StageMemory /\ m.pos = pos /\ m.held = work[j][a].held
        /\ m.used = work[j][a].used /\ m.charge = work[j][a].charge
    BY <1>0 DEF StageMemory
  <2>2. work' = [work EXCEPT ![j] = [work[j] EXCEPT ![a] = m]]
    BY <1>1 DEF Goto
  <2> HIDE DEF m
  <2> QED BY <2>1, <2>2, ChargeStays
<1>2. CASE FailTo(j, a, pos)
  <2> DEFINE m == [work[j][a] EXCEPT !.pos = pos, !.failed = TRUE]
  <2>1. /\ m \in StageMemory /\ m.pos = pos /\ m.held = work[j][a].held
        /\ m.used = work[j][a].used /\ m.charge = work[j][a].charge
    BY <1>0 DEF StageMemory
  <2>2. work' = [work EXCEPT ![j] = [work[j] EXCEPT ![a] = m]]
    BY <1>2 DEF FailTo
  <2> HIDE DEF m
  <2> QED BY <2>1, <2>2, ChargeStays
<1> QED BY <1>1, <1>2

\* What an executing attempt and its rows are to each other.
LEMMA ExecutingFacts ==
  ASSUME ChargeInv, NEW j \in Job, NEW a \in AttemptNumber, work[j][a].pos \in Executing
  PROVE  /\ Counted(j, a) /\ StageOf(j) \in ReconStage
         /\ work[j][a] \in StageMemory
         /\ work \in [Job -> [AttemptNumber -> StageMemory]] /\ row \in [ReconStage -> Row]
         /\ requests \in Int /\ consumed \in Int /\ reserved \in Int
         /\ RequestsCharged
         /\ work[j][a].pos \notin Holding => ~Active(StageOf(j))
         /\ j = "verify" /\ work[j][a].pos \notin {"following", "refused"} => ~Active("httpx_redirect")
         /\ work[j][a].pos \in Holding =>
              /\ Active(StageOf(j)) /\ row[StageOf(j)].live
              /\ Fitting(j, a) /\ requests + row[StageOf(j)].count - Spent(j, a) <= consumed + reserved
<1>1. Counted(j, a) /\ "dead" \notin Executing
  BY DEF ChargeInv, InTurn, Executing, Leased, Tooling
<1>2. StageOf(j) \in ReconStage
  BY DEF StageOf, ReconStage
<1>3. /\ work \in [Job -> [AttemptNumber -> StageMemory]] /\ row \in [ReconStage -> Row]
      /\ requests \in Int /\ consumed \in Int /\ reserved \in Int
  BY CountsAreNumbers DEF ChargeInv, LimitInv, MemoriesOK, RowsOK, CountersOK, BudgetBalanced
<1>4. work[j][a].pos \notin Holding => ~Active(StageOf(j))
  BY <1>1 DEF ChargeInv, RowsHeld, Counted
<1>5. j = "verify" /\ work[j][a].pos \notin {"following", "refused"} => ~Active("httpx_redirect")
  BY <1>1 DEF ChargeInv, RowsHeld, Counted
<1>6. work[j][a].pos \in Holding =>
        /\ Active(StageOf(j)) /\ row[StageOf(j)].live
        /\ Fitting(j, a) /\ requests + row[StageOf(j)].count - Spent(j, a) <= consumed + reserved
  BY DEF ChargeInv, RowsHeld, Accounts
<1> QED BY <1>1, <1>2, <1>3, <1>4, <1>5, <1>6 DEF ChargeInv

\* The steps with the tables: a grant adds what it holds, and what is sent and settled
\* comes out of it.
LEMMA ChargeReserve ==
  ASSUME ChargeInv, LimitInv', CountersOK', NEW j \in Job, NEW a \in AttemptNumber, Reserve(j, a)
  PROVE  ChargeInv'
<1>0. work[j][a].pos = "started" /\ "started" \in Executing \ Holding /\ "ended" \in Executing \ Holding
  BY DEF Reserve, Stands, Executing, Holding, Leased, Tooling
<1>1. /\ Counted(j, a) /\ StageOf(j) \in ReconStage /\ work[j][a] \in StageMemory
      /\ work \in [Job -> [AttemptNumber -> StageMemory]] /\ row \in [ReconStage -> Row]
      /\ requests \in Int /\ consumed \in Int /\ reserved \in Int
      /\ RequestsCharged /\ ~Active(StageOf(j)) /\ (j = "verify" => ~Active("httpx_redirect"))
  BY <1>0, ExecutingFacts
<1>2. PICK requested \in 1..MaxRequested, granted \in 0..ReconShare :
        /\ Grant(StageOf(j), requested, granted, TRUE)
        /\ IF granted = 0 THEN FailTo(j, a, "ended")
           ELSE work' = [work EXCEPT ![j][a] = [@ EXCEPT !.pos = "granted", !.held = granted]]
  BY DEF Reserve
<1>3. granted \in Nat /\ UNCHANGED <<jobState, attempts, requests>>
  BY BudgetAssumption DEF Reserve, jobVars
<1>4. /\ reserved' = reserved + granted /\ consumed' = consumed
      /\ row' = [row EXCEPT ![StageOf(j)] =
                   IF granted > 0 THEN [status |-> "active", count |-> granted, live |-> TRUE] ELSE @]
  BY <1>1, <1>2, <1>3 DEF Grant
<1>5. CASE granted = 0
  <2>1. row' = row /\ reserved' = reserved /\ consumed' = consumed
    BY <1>1, <1>4, <1>5
  <2>2. "ended" \in StagePosition
    BY DEF StagePosition, Executing
  <2> QED BY <1>0, <1>2, <1>3, <1>5, <2>1, <2>2, ChargeGoto DEF budgetVars, Tooling
<1>6. CASE granted # 0
  <2> DEFINE m == [work[j][a] EXCEPT !.pos = "granted", !.held = granted]
  <2>1. /\ m \in StageMemory /\ m.pos = "granted" /\ m.held = granted
        /\ m.charge = work[j][a].charge /\ m.used = work[j][a].used
    BY <1>1, <1>3 DEF StageMemory, StagePosition, Executing
  <2>2. work' = [work EXCEPT ![j] = [work[j] EXCEPT ![a] = m]] /\ work'[j][a] = m
    BY <1>1, <1>2, <1>6
  <2> HIDE DEF m
  <2>3. row'[StageOf(j)] = [status |-> "active", count |-> granted, live |-> TRUE]
    BY <1>1, <1>3, <1>4, <1>6
  <2>4. \A s \in ReconStage : s # StageOf(j) => row'[s] = row[s]
    BY <1>1, <1>4
  <2>5. \A s \in ReconStage \ Rows(j) : row'[s] = row[s]
    BY <2>4 DEF ReconStage, Rows, StageOf, Job
  <2>6. j = "verify" => ~Active("httpx_redirect")'
    BY <1>1, <2>4 DEF ReconStage, StageOf, Active
  <2>7. RequestsCharged'
    BY <1>1, <1>3, <1>4 DEF RequestsCharged
  <2>8. work[j][a].charge = 0 /\ work[j][a].used = 0
    BY <1>0 DEF ChargeInv, PlacesOK
  <2>9. Fitting(j, a)'
    BY <1>3, <2>1, <2>2, <2>3, <2>8 DEF Fitting
  <2>10. requests' + row'[StageOf(j)].count - Spent(j, a)' <= consumed' + reserved'
    BY <1>1, <1>3, <1>4, <2>1, <2>2, <2>3, <2>8 DEF Spent, RequestsCharged
  <2>11. "granted" \in Executing /\ "granted" \in Holding /\ Active(StageOf(j))' /\ row'[StageOf(j)].live
    BY <2>3 DEF Executing, Holding, Active
  <2> QED BY <1>0, <1>3, <2>1, <2>2, <2>5, <2>6, <2>7, <2>9, <2>10, <2>11, ChargeMoves
<1> QED BY <1>5, <1>6

LEMMA ChargeStart ==
  ASSUME ChargeInv, LimitInv', CountersOK', NEW j \in Job, NEW a \in AttemptNumber, StartTool(j, a)
  PROVE  ChargeInv'
<1>0. work[j][a].pos = "leased" /\ "leased" \in Executing /\ "leased" \in Holding
  BY DEF StartTool, Stands, Executing, Holding, Leased
<1>1. /\ Counted(j, a) /\ StageOf(j) \in ReconStage /\ work[j][a] \in StageMemory
      /\ work \in [Job -> [AttemptNumber -> StageMemory]] /\ row \in [ReconStage -> Row]
      /\ requests \in Int /\ consumed \in Int /\ reserved \in Int
      /\ Active(StageOf(j)) /\ row[StageOf(j)].live /\ (j = "verify" => ~Active("httpx_redirect"))
      /\ Fitting(j, a) /\ requests + row[StageOf(j)].count - Spent(j, a) <= consumed + reserved
  BY <1>0, ExecutingFacts
<1>2. PICK n \in 0..work[j][a].held :
        /\ requests' = requests + n
        /\ work' = [work EXCEPT ![j][a] = [@ EXCEPT
                     !.pos = "running", !.held = 0, !.charge = work[j][a].held,
                     !.used = IF j = "discover" THEN n ELSE 0]]
  BY DEF StartTool
<1>3. UNCHANGED <<reserved, consumed, row, jobState, attempts>>
  BY DEF StartTool, budgetVars, jobVars
<1> DEFINE m == [work[j][a] EXCEPT !.pos = "running", !.held = 0, !.charge = work[j][a].held,
                                   !.used = IF j = "discover" THEN n ELSE 0]
<1>4. work[j][a].held \in Nat /\ n \in Nat /\ "running" \in StagePosition
  BY <1>1 DEF StageMemory, StagePosition, Executing, Leased, Tooling
<1>5. /\ m \in StageMemory /\ m.pos = "running" /\ m.held = 0 /\ m.charge = work[j][a].held
      /\ m.used = IF j = "discover" THEN n ELSE 0
  BY <1>1, <1>4 DEF StageMemory
<1>6. work' = [work EXCEPT ![j] = [work[j] EXCEPT ![a] = m]] /\ work'[j][a] = m
  BY <1>1, <1>2
<1> HIDE DEF m
<1>7. /\ work[j][a].held = row[StageOf(j)].count /\ work[j][a].charge = 0 /\ Spent(j, a) = 0
      /\ row[StageOf(j)].count \in Nat
  BY <1>0, <1>1 DEF Fitting, Spent, Row
<1>8. RequestsCharged'
  BY <1>1, <1>2, <1>3, <1>4, <1>7 DEF RequestsCharged
<1>9. Fitting(j, a)'
  BY <1>3, <1>4, <1>5, <1>6, <1>7 DEF Fitting
<1>10. requests' + row'[StageOf(j)].count - Spent(j, a)' <= consumed' + reserved'
  BY <1>1, <1>2, <1>3, <1>4, <1>5, <1>6, <1>7 DEF Spent
<1>11. "running" \in Executing /\ "running" \in Holding
  BY DEF Executing, Holding, Leased, Tooling
<1>12. /\ Active(StageOf(j))' /\ row'[StageOf(j)].live /\ (j = "verify" => ~Active("httpx_redirect")')
       /\ \A s \in ReconStage \ Rows(j) : row'[s] = row[s]
  BY <1>1, <1>3 DEF Active
<1> QED BY <1>0, <1>3, <1>5, <1>6, <1>8, <1>9, <1>10, <1>11, <1>12, ChargeMoves

LEMMA ChargeReport ==
  ASSUME ChargeInv, LimitInv', CountersOK', NEW j \in Job, NEW a \in AttemptNumber, ToolSucceeds(j, a)
  PROVE  ChargeInv'
<1>0. work[j][a].pos = "running" /\ "running" \in Executing /\ "running" \in Holding
  BY DEF ToolSucceeds, Stands, Executing, Holding, Leased, Tooling
<1>1. UNCHANGED <<reserved, consumed, row, jobState, attempts, requests>>
  BY DEF ToolSucceeds, budgetVars, jobVars
<1>2. CASE j = "discover"
  <2> DEFINE m == [work[j][a] EXCEPT !.pos = "persisting", !.charge = work[j][a].used, !.used = 0]
  <2>1. /\ Counted(j, a) /\ StageOf(j) \in ReconStage /\ work[j][a] \in StageMemory
        /\ work \in [Job -> [AttemptNumber -> StageMemory]] /\ row \in [ReconStage -> Row]
        /\ requests \in Int /\ consumed \in Int /\ reserved \in Int
        /\ RequestsCharged /\ Active(StageOf(j)) /\ row[StageOf(j)].live
        /\ Fitting(j, a) /\ requests + row[StageOf(j)].count - Spent(j, a) <= consumed + reserved
    BY <1>0, ExecutingFacts
  <2>2. /\ m \in StageMemory /\ m.pos = "persisting" /\ m.charge = work[j][a].used /\ m.used = 0
        /\ work[j][a].used \in Nat /\ work[j][a].charge \in Nat /\ row[StageOf(j)].count \in Nat
    BY <2>1 DEF StageMemory, StagePosition, Executing, Leased, Row
  <2>3. work' = [work EXCEPT ![j] = [work[j] EXCEPT ![a] = m]] /\ work'[j][a] = m
    BY <1>2, <2>1 DEF ToolSucceeds
  <2> HIDE DEF m
  <2>4. Spent(j, a) = work[j][a].used /\ Spent(j, a)' = work[j][a].used
    BY <1>0, <1>2, <2>2, <2>3 DEF Spent
  <2>5. Fitting(j, a)'
    BY <1>1, <2>1, <2>2, <2>3 DEF Fitting
  <2>6. "persisting" \in Executing /\ "persisting" \in Holding
    BY DEF Executing, Holding, Leased
  <2>7. /\ RequestsCharged' /\ Active(StageOf(j))' /\ row'[StageOf(j)].live
        /\ requests' + row'[StageOf(j)].count - Spent(j, a)' <= consumed' + reserved'
        /\ \A s \in ReconStage \ Rows(j) : row'[s] = row[s]
    BY <1>1, <2>1, <2>4 DEF Active, RequestsCharged
  <2>8. j # "verify"
    BY <1>2
  <2> QED BY <1>0, <1>1, <2>2, <2>3, <2>5, <2>6, <2>7, <2>8, ChargeMoves
<1>3. CASE j # "discover"
  <2>1. Goto(j, a, "ran") /\ "ran" \in Executing /\ "ran" \in Holding /\ "ran" \in StagePosition
    BY <1>3 DEF ToolSucceeds, Executing, Holding, Leased, StagePosition
  <2> QED BY <1>0, <1>1, <2>1, ChargeGoto DEF budgetVars
<1> QED BY <1>2, <1>3

LEMMA ChargeFollow ==
  ASSUME ChargeInv, LimitInv', CountersOK', NEW j \in Job, NEW a \in AttemptNumber, FollowRedirects(j, a)
  PROVE  ChargeInv'
<1>0. j = "verify" /\ work[j][a].pos = "ran" /\ "ran" \in Executing /\ "ran" \in Holding
  BY DEF FollowRedirects, Stands, Executing, Holding, Leased
<1>1. /\ Counted(j, a) /\ StageOf(j) \in ReconStage /\ work[j][a] \in StageMemory
      /\ work \in [Job -> [AttemptNumber -> StageMemory]] /\ row \in [ReconStage -> Row]
      /\ requests \in Int /\ consumed \in Int /\ reserved \in Int
      /\ RequestsCharged /\ Active(StageOf(j)) /\ row[StageOf(j)].live /\ ~Active("httpx_redirect")
      /\ Fitting(j, a) /\ requests + row[StageOf(j)].count - Spent(j, a) <= consumed + reserved
  BY <1>0, ExecutingFacts
<1> DEFINE Follow(r, g) == Smaller(r, g)
           Pos(r, g) == IF Smaller(r, g) = 0 THEN "persisting" ELSE IF work[j][a].aborted THEN "refused" ELSE "following"
<1>2. PICK redirects \in 1..MaxRequested, granted \in 0..ReconShare, live \in BOOLEAN :
        /\ Grant("httpx_redirect", redirects, granted, live)
        /\ work' = [work EXCEPT ![j][a] = [@ EXCEPT !.pos = Pos(redirects, granted), !.held = Follow(redirects, granted)]]
        /\ \E n \in 0..Follow(redirects, granted) : requests' = requests + n
  BY DEF FollowRedirects
<1>3. granted \in Nat /\ redirects \in Nat /\ redirects # 0 /\ granted <= redirects /\ UNCHANGED <<jobState, attempts>>
  BY <1>1, <1>2, BudgetAssumption DEF FollowRedirects, jobVars, Grant, Smaller, Available
<1>4. Smaller(redirects, granted) = granted
  BY <1>3 DEF Smaller
<1>5. PICK n \in 0..granted : requests' = requests + n
  BY <1>2, <1>4
<1>6. /\ reserved' = reserved + granted /\ consumed' = consumed
      /\ row' = [row EXCEPT !["httpx_redirect"] =
                   IF granted > 0 THEN [status |-> "active", count |-> granted, live |-> live] ELSE @]
  BY <1>1, <1>2, <1>3 DEF Grant
<1> DEFINE pos == Pos(redirects, granted)
           m == [work[j][a] EXCEPT !.pos = pos, !.held = granted]
<1>7. pos \in {"persisting", "refused", "following"} /\ (granted = 0 => pos = "persisting")
  BY <1>4
<1>8. /\ m \in StageMemory /\ m.pos = pos /\ m.held = granted
      /\ m.charge = work[j][a].charge /\ m.used = work[j][a].used
      /\ work[j][a].charge \in Nat /\ work[j][a].used \in Nat
  BY <1>1, <1>3, <1>7 DEF StageMemory, StagePosition, Executing, Leased, Tooling
<1>9. work' = [work EXCEPT ![j] = [work[j] EXCEPT ![a] = m]] /\ work'[j][a] = m
  BY <1>1, <1>2, <1>4
<1>10. m.pos \in {"persisting", "refused"} \/ m.pos = "following"
  BY <1>7, <1>8
<1> HIDE DEF m, pos, Pos, Follow
<1>11. "httpx_redirect" \in ReconStage /\ StageOf(j) = "httpx" /\ "httpx" \in ReconStage
  BY <1>0 DEF ReconStage, StageOf
<1>12. row'[StageOf(j)] = row[StageOf(j)] /\ \A s \in ReconStage \ Rows(j) : row'[s] = row[s]
  BY <1>0, <1>1, <1>6, <1>11 DEF Rows
<1>13. Active("httpx_redirect")' => granted > 0 /\ row'["httpx_redirect"].count = granted
  BY <1>1, <1>3, <1>6, <1>11 DEF Active
<1>14. Active("httpx_redirect")' => m.pos \in {"following", "refused", "dead"}
  <2>1. granted > 0 => pos # "persisting"
    BY <1>3, <1>4 DEF pos, Pos
  <2> QED BY <1>8, <1>10, <1>13, <2>1
<1>15. Fitting(j, a)'
  BY <1>1, <1>8, <1>9, <1>10, <1>12, <1>13 DEF Fitting
<1>16. Spent(j, a)' = Spent(j, a) /\ Spent(j, a) \in Nat /\ row[StageOf(j)].count \in Nat
  BY <1>0, <1>1, <1>8, <1>9 DEF Spent, Row
<1>17. RequestsCharged' /\ requests' + row'[StageOf(j)].count - Spent(j, a)' <= consumed' + reserved'
  BY <1>1, <1>3, <1>5, <1>6, <1>12, <1>16 DEF RequestsCharged
<1>18. m.pos \in Executing /\ m.pos \in Holding /\ m.pos # "started"
  BY <1>10 DEF Executing, Holding, Leased, Tooling
<1>19. Active(StageOf(j))' /\ row'[StageOf(j)].live
  BY <1>1, <1>12 DEF Active
<1> QED BY <1>0, <1>3, <1>8, <1>9, <1>12, <1>14, <1>15, <1>17, <1>18, <1>19, ChargeMoves

\* A refused charge would be more than the row holds, which no attempt's is.
LEMMA ChargeSettle ==
  ASSUME ChargeInv, LimitInv', CountersOK', NEW j \in Job, NEW a \in AttemptNumber, Settle(j, a)
  PROVE  ChargeInv'
<1>0. /\ work[j][a].pos = "settling" /\ "settling" \in Executing /\ "settling" \in Holding
      /\ "ended" \in Executing \ Holding /\ "ended" \in StagePosition
  BY DEF Settle, Stands, Executing, Holding, Leased, Tooling, StagePosition
<1>1. /\ Counted(j, a) /\ StageOf(j) \in ReconStage /\ work[j][a] \in StageMemory
      /\ work \in [Job -> [AttemptNumber -> StageMemory]] /\ row \in [ReconStage -> Row]
      /\ requests \in Int /\ consumed \in Int /\ reserved \in Int
      /\ Active(StageOf(j)) /\ (j = "verify" => ~Active("httpx_redirect"))
      /\ Fitting(j, a) /\ requests + row[StageOf(j)].count - Spent(j, a) <= consumed + reserved
  BY <1>0, ExecutingFacts
<1> DEFINE m == [work[j][a] EXCEPT !.pos = "ended"]
<1>2. m \in StageMemory /\ m.pos = "ended" /\ work[j][a].charge \in Nat /\ row[StageOf(j)].count \in Nat
  BY <1>0, <1>1 DEF StageMemory, Row
<1>3. work' = [work EXCEPT ![j] = [work[j] EXCEPT ![a] = m]] /\ UNCHANGED <<jobState, attempts, requests>>
  BY DEF Settle, Goto, jobVars
<1> HIDE DEF m
<1>4. /\ reserved' = reserved - row[StageOf(j)].count /\ consumed' = consumed + work[j][a].charge
      /\ row' = [row EXCEPT ![StageOf(j)] = [NoReservation EXCEPT !.status = "settled"]]
  BY <1>1 DEF Settle, SettleRow
<1>5. ~Active(StageOf(j))' /\ \A s \in ReconStage : s # StageOf(j) => row'[s] = row[s]
  BY <1>1, <1>4 DEF Active, NoReservation
<1>6. \A s \in ReconStage \ Rows(j) : row'[s] = row[s]
  BY <1>5 DEF ReconStage, Rows, StageOf, Job
<1>7. j = "verify" => ~Active("httpx_redirect")'
  BY <1>1, <1>5 DEF ReconStage, StageOf, Active
<1>8. RequestsCharged'
  BY <1>0, <1>1, <1>2, <1>3, <1>4 DEF RequestsCharged, Spent
<1> QED BY <1>0, <1>2, <1>3, <1>5, <1>6, <1>7, <1>8, ChargeMoves

LEMMA ChargeRedirectsEnd ==
  ASSUME ChargeInv, LimitInv', CountersOK', NEW j \in Job, NEW a \in AttemptNumber, RedirectsEnd(j, a)
  PROVE  ChargeInv'
<1>0. /\ work[j][a].pos \in {"following", "refused"} /\ work[j][a].pos \in Executing /\ work[j][a].pos \in Holding
      /\ {"persisting", "releasing"} \subseteq Holding /\ Holding \subseteq Executing /\ Executing \subseteq StagePosition
  BY DEF RedirectsEnd, Executing, Holding, Leased, Tooling, StagePosition
<1>1. /\ Counted(j, a) /\ StageOf(j) \in ReconStage /\ work[j][a] \in StageMemory
      /\ work \in [Job -> [AttemptNumber -> StageMemory]] /\ row \in [ReconStage -> Row]
      /\ requests \in Int /\ consumed \in Int /\ reserved \in Int
      /\ RequestsCharged /\ Active(StageOf(j)) /\ row[StageOf(j)].live
      /\ Fitting(j, a) /\ requests + row[StageOf(j)].count - Spent(j, a) <= consumed + reserved
  BY <1>0, ExecutingFacts
<1>2. PICK m \in StageMemory :
        /\ work' = [work EXCEPT ![j] = [work[j] EXCEPT ![a] = m]]
        /\ m.pos \in {"persisting", "releasing"}
        /\ m.charge = work[j][a].charge /\ m.used = work[j][a].used
  <2>1. CASE Goto(j, a, "persisting")
    <3> DEFINE m == [work[j][a] EXCEPT !.pos = "persisting"]
    <3>1. /\ m \in StageMemory /\ m.pos = "persisting"
          /\ m.charge = work[j][a].charge /\ m.used = work[j][a].used
      BY <1>0, <1>1 DEF StageMemory
    <3> QED BY <2>1, <3>1 DEF Goto
  <2>2. CASE FailTo(j, a, "releasing")
    <3> DEFINE m == [work[j][a] EXCEPT !.pos = "releasing", !.failed = TRUE]
    <3>1. /\ m \in StageMemory /\ m.pos = "releasing"
          /\ m.charge = work[j][a].charge /\ m.used = work[j][a].used
      BY <1>0, <1>1 DEF StageMemory
    <3> QED BY <2>2, <3>1 DEF FailTo
  <2> QED BY <2>1, <2>2 DEF RedirectsEnd
<1>3. UNCHANGED <<jobState, attempts, requests>> /\ SettleRow("httpx_redirect", work[j][a].held)
  BY DEF RedirectsEnd, jobVars
<1>4. /\ reserved' \in Int /\ consumed' \in Int /\ reserved' + consumed' = reserved + consumed
      /\ ~Active("httpx_redirect")' /\ \A s \in ReconStage : s # "httpx_redirect" => row'[s] = row[s]
  <2>1. "httpx_redirect" \in ReconStage /\ row["httpx_redirect"].count \in Nat /\ work[j][a].held \in Nat
    BY <1>1 DEF ReconStage, Row, StageMemory
  <2>2. CASE Active("httpx_redirect")
    <3>1. row["httpx_redirect"].count = work[j][a].held
      BY <1>0, <1>1, <2>2 DEF Fitting
    <3>2. /\ reserved' = reserved - row["httpx_redirect"].count /\ consumed' = consumed + work[j][a].held
          /\ row' = [row EXCEPT !["httpx_redirect"] = [NoReservation EXCEPT !.status = "settled"]]
      BY <1>3, <2>2 DEF SettleRow
    <3>3. ~Active("httpx_redirect")' /\ \A s \in ReconStage : s # "httpx_redirect" => row'[s] = row[s]
      BY <1>1, <2>1, <3>2 DEF Active, NoReservation
    <3> QED BY <1>1, <2>1, <3>1, <3>2, <3>3
  <2>3. CASE ~Active("httpx_redirect")
    BY <1>1, <1>3, <2>3 DEF SettleRow, Active
  <2> QED BY <2>2, <2>3
<1>5. j = "verify"
  BY <1>0 DEF ChargeInv, PlacesOK
<1>6. row'[StageOf(j)] = row[StageOf(j)] /\ \A s \in ReconStage \ Rows(j) : row'[s] = row[s]
  BY <1>1, <1>4, <1>5 DEF StageOf, Rows, ReconStage
<1>7. work'[j][a] = m
  BY <1>1, <1>2
<1>8. Fitting(j, a)'
  BY <1>1, <1>2, <1>6, <1>7 DEF Fitting
<1>9. Spent(j, a)' = Spent(j, a)
  BY <1>0, <1>2, <1>7 DEF Spent
<1>10. RequestsCharged' /\ requests' + row'[StageOf(j)].count - Spent(j, a)' <= consumed' + reserved'
  <2>1. row[StageOf(j)].count \in Nat /\ Spent(j, a) \in Int
    BY <1>1, <1>5 DEF Row, Spent, StageMemory
  <2>2. /\ requests' = requests /\ Spent(j, a)' = Spent(j, a)
        /\ row'[StageOf(j)].count = row[StageOf(j)].count
    BY <1>3, <1>6, <1>9
  <2>3. consumed' + reserved' = consumed + reserved
    <3>1. reserved' \in Int /\ consumed' \in Int /\ reserved' + consumed' = reserved + consumed
      BY <1>4
    <3>2. reserved \in Int /\ consumed \in Int
      BY <1>1
    <3>3. \A x, y \in Int : x + y = y + x
      OBVIOUS
    <3>4. reserved' + consumed' = consumed' + reserved' /\ reserved + consumed = consumed + reserved
      BY <3>1, <3>2, <3>3
    <3> QED BY <3>1, <3>4
  <2>4. RequestsCharged'
    BY <1>1, <2>2, <2>3 DEF RequestsCharged
  <2>5. requests + row[StageOf(j)].count - Spent(j, a) <= consumed + reserved
    BY <1>1
  <2>6. requests' + row'[StageOf(j)].count - Spent(j, a)' <= consumed' + reserved'
    BY <2>2, <2>3, <2>5
  <2> QED BY <2>4, <2>6
<1>11. Active(StageOf(j))' /\ row'[StageOf(j)].live
  BY <1>1, <1>6 DEF Active
<1>12. m.pos \in Executing /\ m.pos \in Holding /\ m.pos # "started"
  BY <1>0, <1>2
<1> QED BY <1>0, <1>2, <1>3, <1>4, <1>6, <1>8, <1>10, <1>11, <1>12, ChargeMoves

\* Every step of an attempt's own.
LEMMA ChargeProgress ==
  ASSUME Faults \subseteq {"crash", "redis"}, ChargeInv, LimitInv', CountersOK',
         NEW j \in Job, NEW a \in AttemptNumber, Progress(j, a)
  PROVE  ChargeInv'
<1> USE DEF Stands
<1>0. /\ Leased \subseteq Holding /\ {"granted", "releasing", "settling"} \subseteq Holding
      /\ Holding \subseteq Executing /\ {"started", "ended"} \subseteq Executing \ Holding
      /\ Executing \subseteq StagePosition /\ {"leased", "ran", "persisting"} \subseteq Leased
  BY DEF Holding, Executing, StagePosition, Leased, Tooling
<1>1. CASE EvidenceIsLive(j, a)
  BY <1>0, <1>1, ChargeGoto DEF EvidenceIsLive, jobVars
<1>2. CASE Acquire(j, a)
  BY <1>0, <1>2, ChargeGoto DEF Acquire, jobVars
<1>3. CASE AcquireFails(j, a)
  BY <1>0, <1>3, ChargeGoto DEF AcquireFails, jobVars
<1>4. CASE StageFails(j, a)
  BY <1>0, <1>4, ChargeGoto DEF StageFails, jobVars
<1>5. CASE NoRedirects(j, a)
  BY <1>0, <1>5, ChargeGoto DEF NoRedirects, jobVars
<1>6. CASE Persist(j, a)
  BY <1>0, <1>6, ChargeGoto DEF Persist
<1>7. CASE Release(j, a)
  BY <1>0, <1>7, ChargeGoto DEF Release, jobVars
<1>8. CASE RedirectsUnsettled(j, a)
  <2>1. work[j][a].pos \in {"following", "refused"} /\ work[j][a].pos \in Holding
    BY <1>8 DEF RedirectsUnsettled, Holding, Leased, Tooling
  <2>2. Fitting(j, a) /\ work[j][a] \in StageMemory
    BY <1>0, <2>1, ExecutingFacts
  <2>3. Refused("httpx_redirect", work[j][a].held)
    BY <1>8 DEF RedirectsUnsettled
  <2> QED BY <2>1, <2>2, <2>3 DEF Fitting, Refused, StageMemory
<1>9. CASE SettleFails(j, a)
  <2>1. work[j][a].pos \in Holding
    BY <1>0, <1>9 DEF SettleFails
  <2>2. Fitting(j, a) /\ work[j][a] \in StageMemory /\ row \in [ReconStage -> Row] /\ StageOf(j) \in ReconStage
    BY <1>0, <2>1, ExecutingFacts
  <2>3. Refused(StageOf(j), work[j][a].charge)
    BY <1>9 DEF SettleFails
  <2> QED BY <2>2, <2>3 DEF Fitting, Refused, StageMemory, Row
<1>10. CASE End(j, a)
  <2>1. work[j][a].pos \in Executing \ Holding /\ work[j][a].pos \notin {"following", "refused"}
    BY <1>0, <1>10 DEF End
  <2>2. /\ Counted(j, a) /\ StageOf(j) \in ReconStage /\ work \in [Job -> [AttemptNumber -> StageMemory]]
        /\ ~Active(StageOf(j)) /\ (j = "verify" => ~Active("httpx_redirect")) /\ RequestsCharged
    BY <2>1, ExecutingFacts
  <2>3. UNCHANGED <<reserved, consumed, row, attempts, requests>>
    BY <1>10 DEF End, budgetVars
  <2>4. \A k \in Job, b \in AttemptNumber : work'[k][b] = IF k = j /\ b = a THEN Unstarted ELSE work[k][b]
    BY <1>10, <2>2 DEF End
  <2>5. \A k \in Job, b \in AttemptNumber : work'[k][b].pos \notin Executing
    BY <2>1, <2>4, OneExecutes DEF Unstarted, Executing, Leased, Tooling
  <2>6. \A k \in Job : k # j => jobState'[k] = jobState[k] /\ work'[k] = work[k]
    BY <1>10, <2>2 DEF End, ChargeInv, CountersOK
  <2>7. InTurn'
    <3>1. attempts["verify"] # 0 => jobState'["discover"] = "succeeded"
      BY <2>2, <2>6 DEF ChargeInv, InTurn, Counted, Job
    <3> QED BY <2>3, <2>5, <3>1 DEF InTurn
  <2>8. RowsHeld'
    <3>1. ASSUME NEW k \in Job, Active(StageOf(k))'
          PROVE  jobState'[k] = "running" /\ work'[k][attempts'[k]].pos \in Holding \cup {"dead"}
      BY <2>2, <2>3, <2>6, <3>1 DEF Active, ChargeInv, RowsHeld
    <3>2. Active("httpx_redirect")' =>
            jobState'["verify"] = "running" /\ work'["verify"][attempts'["verify"]].pos \in {"following", "refused", "dead"}
      BY <2>2, <2>3, <2>6 DEF Active, ChargeInv, RowsHeld, Job
    <3> QED BY <1>0, <2>5, <3>1, <3>2 DEF RowsHeld
  <2>9. Accounts' /\ RequestsCharged'
    BY <1>0, <2>2, <2>3, <2>5 DEF Accounts, RequestsCharged
  <2>10. PlacesOK'
    BY <1>0, <2>4 DEF ChargeInv, PlacesOK, Unstarted
  <2> QED BY <2>7, <2>8, <2>9, <2>10 DEF ChargeInv
<1> QED BY <1>1, <1>2, <1>3, <1>4, <1>5, <1>6, <1>7, <1>8, <1>9, <1>10, ChargeReserve, ChargeStart,
       ChargeReport, ChargeFollow, ChargeSettle, ChargeRedirectsEnd DEF Progress

\* What befalls an attempt.
LEMMA ChargeDisturbed ==
  ASSUME Faults \subseteq {"crash", "redis"}, ChargeInv, LimitInv', CountersOK',
         NEW j \in Job, NEW a \in AttemptNumber, Disturbance(j, a)
  PROVE  ChargeInv'
<1>1. work[j][a].pos \in Executing
  BY DEF Disturbance, Abort, TimeLimit, WorkerCrash, RenewalFails, Executing
<1>2. UNCHANGED <<budgetVars, jobState, attempts, requests>>
  BY DEF Disturbance, Abort, TimeLimit, WorkerCrash, RenewalFails, jobVars
<1>3. CASE WorkerCrash(j, a)
  <2> DEFINE m == [Unstarted EXCEPT !.pos = "dead"]
  <2>1. m \in StageMemory /\ m.pos = "dead"
    BY DEF Unstarted, StageMemory, StagePosition
  <2>2. work' = [work EXCEPT ![j] = [work[j] EXCEPT ![a] = m]]
    BY <1>3 DEF WorkerCrash
  <2> HIDE DEF m
  <2> QED BY <1>1, <1>2, <2>1, <2>2, ChargeStays
<1>4. CASE Abort(j, a) \/ RenewalFails(j, a)
  <2> DEFINE m == [work[j][a] EXCEPT !.aborted = TRUE]
  <2>0. work[j][a] \in StageMemory
    BY DEF ChargeInv, LimitInv, MemoriesOK
  <2>1. /\ m \in StageMemory /\ m.pos = work[j][a].pos /\ m.held = work[j][a].held
        /\ m.used = work[j][a].used /\ m.charge = work[j][a].charge
    BY <2>0 DEF StageMemory
  <2>2. work' = [work EXCEPT ![j] = [work[j] EXCEPT ![a] = m]]
    BY <1>4 DEF Abort, RenewalFails
  <2> HIDE DEF m
  <2> QED BY <1>1, <1>2, <2>1, <2>2, ChargeStays
<1> QED BY <1>3, <1>4 DEF Disturbance, TimeLimit

\* The attempts rest. Rows that are held stay as they are, others may be charged for
\* and lose their status; nobody begins to execute.
LEMMA ChargeRests ==
  ASSUME ChargeInv, LimitInv', CountersOK', UNCHANGED <<attempts, work>>,
         \A k \in Job :
           \/ jobState'[k] = jobState[k]
           \/ /\ jobState[k] = "running" /\ ~Active(StageOf(k))'
              /\ k = "verify" => ~Active("httpx_redirect")'
              /\ work[k][attempts[k]].pos \notin Executing,
         \A s \in ReconStage : Active(s)' => Active(s) /\ row'[s].count = row[s].count,
         \A k \in Job, b \in AttemptNumber : work[k][b].pos \in Holding =>
           Active(StageOf(k))' /\ row'[StageOf(k)].live,
         requests' = requests, consumed' + reserved' = consumed + reserved
  PROVE  ChargeInv'
<1>1. \A s \in ReconStage : Active(s)' => Active(s) /\ row'[s].count = row[s].count
  OBVIOUS
<1>2. "httpx_redirect" \in ReconStage /\ \A k \in Job : StageOf(k) \in ReconStage
  BY DEF ReconStage, StageOf
<1>3. InTurn'
  BY DEF ChargeInv, InTurn, Counted, Job
<1>4. RowsHeld'
  BY <1>1, <1>2 DEF ChargeInv, RowsHeld, Job
<1>5. PlacesOK'
  BY DEF ChargeInv, PlacesOK
<1>7. RequestsCharged'
  BY DEF ChargeInv, RequestsCharged
<1>8. ASSUME NEW k \in Job, NEW b \in AttemptNumber, work'[k][b].pos \in Holding
      PROVE  Fitting(k, b)' /\ requests' + row'[StageOf(k)].count - Spent(k, b)' <= consumed' + reserved'
  <2>1. work[k][b].pos \in Holding /\ Active(StageOf(k))'
    BY <1>8
  <2>2. Fitting(k, b) /\ requests + row[StageOf(k)].count - Spent(k, b) <= consumed + reserved
    BY <2>1 DEF ChargeInv, Accounts
  <2>3. row'[StageOf(k)].count = row[StageOf(k)].count /\ Spent(k, b)' = Spent(k, b)
    BY <1>1, <1>2, <2>1 DEF Spent
  <2>4. Fitting(k, b)'
    BY <1>1, <1>2, <2>2, <2>3 DEF Fitting
  <2> QED BY <2>2, <2>3, <2>4
<1>9. Accounts'
  BY <1>8 DEF Accounts
<1> QED BY <1>3, <1>4, <1>5, <1>7, <1>9 DEF ChargeInv

\* The scheduler charges what expired, whoever lies dead, and counts a new attempt.
LEMMA ChargeScheduled ==
  ASSUME Faults \subseteq {"crash", "redis"}, ChargeInv, LimitInv', CountersOK', Scheduler
  PROVE  ChargeInv'
<1>0. Holding \subseteq Executing /\ {"dead", "none"} \cap Executing = {} /\ {"dead", "none"} \cap Holding = {}
  BY DEF Holding, Executing, Leased, Tooling
<1>1. /\ work \in [Job -> [AttemptNumber -> StageMemory]] /\ row \in [ReconStage -> Row]
      /\ requests \in Int /\ consumed \in Int /\ reserved \in Int /\ RowsOK
  BY CountsAreNumbers DEF ChargeInv, LimitInv, MemoriesOK, RowsOK, CountersOK, BudgetBalanced
<1>2. ASSUME Reclaim(ExpiredRows)
      PROVE  /\ consumed' + reserved' = consumed + reserved
             /\ \A s \in ReconStage : row'[s] = row[s] \/ ~Active(s)'
             /\ \A s \in ReconStage : Active(s)' => Active(s) /\ row[s].live /\ row'[s] = row[s]
             /\ \A k \in Job, b \in AttemptNumber : work[k][b].pos \in Holding => Active(StageOf(k))' /\ row'[StageOf(k)].live
  <2>1. Counts(ExpiredRows) \in Int
    BY <1>1, CountsAreNumbers
  <2>2. reserved' = reserved - Counts(ExpiredRows) /\ consumed' = consumed + Counts(ExpiredRows)
    BY <1>2 DEF Reclaim
  <2>3. consumed' + reserved' = consumed + reserved
    BY <1>1, <2>1, <2>2
  <2>4. \A s \in ReconStage : row'[s] = IF Expired(s) THEN [NoReservation EXCEPT !.status = "reclaimed"] ELSE row[s]
    BY <1>2 DEF Reclaim, ExpiredRows
  <2>5. \A s \in ReconStage : Expired(s) => ~Active(s)'
    BY <2>4 DEF Active, NoReservation
  <2>6. \A s \in ReconStage : Active(s)' => Active(s) /\ row[s].live /\ row'[s] = row[s]
    BY <2>4, <2>5 DEF Active, Expired
  <2>7. ASSUME NEW k \in Job, NEW b \in AttemptNumber, work[k][b].pos \in Holding
        PROVE  Active(StageOf(k))' /\ row'[StageOf(k)].live
    <3>1. StageOf(k) \in ReconStage /\ Active(StageOf(k)) /\ row[StageOf(k)].live
      BY <2>7 DEF ChargeInv, RowsHeld, StageOf, ReconStage
    <3> QED BY <2>4, <3>1 DEF Expired, Active
  <2> QED BY <2>3, <2>4, <2>5, <2>6, <2>7
<1>3. CASE ReclaimExpired
  <2>1. Reclaim(ExpiredRows) /\ UNCHANGED <<jobState, attempts, work, requests>>
    BY <1>3 DEF ReclaimExpired, jobVars
  <2> QED BY <1>2, <2>1, ChargeRests
<1>4. ASSUME NEW j \in Job, RecoverJob(j) PROVE ChargeInv'
  <2>1. /\ Reclaim(ExpiredRows) /\ UNCHANGED <<attempts, work, requests>>
        /\ jobState[j] = "running" /\ work[j][attempts[j]].pos \in {"dead", "none"}
        /\ \A s \in Rows(j) : ~row[s].live
        /\ \A k \in Job : k # j => jobState'[k] = jobState[k]
    BY <1>4 DEF RecoverJob, ChargeInv, CountersOK
  <2>2. StageOf(j) \in Rows(j) /\ (j = "verify" => "httpx_redirect" \in Rows(j)) /\ Rows(j) \subseteq ReconStage
    BY DEF StageOf, Rows, ReconStage
  <2>3. ~Active(StageOf(j))' /\ (j = "verify" => ~Active("httpx_redirect")')
    BY <1>2, <2>1, <2>2
  <2>4. work[j][attempts[j]].pos \notin Executing
    BY <1>0, <2>1
  <2>5. \A k \in Job :
          \/ jobState'[k] = jobState[k]
          \/ /\ jobState[k] = "running" /\ ~Active(StageOf(k))'
             /\ k = "verify" => ~Active("httpx_redirect")'
             /\ work[k][attempts[k]].pos \notin Executing
    BY <2>1, <2>3, <2>4
  <2> QED BY <1>2, <2>1, <2>5, ChargeRests
<1>5. ASSUME NEW j \in Job, ClaimRecon(j) PROVE ChargeInv'
  <2> DEFINE b == attempts[j] + 1
             m == [Unstarted EXCEPT !.pos = "started"]
  <2>1. /\ UNCHANGED <<reserved, consumed, row, requests>> /\ jobState[j] = "queued"
        /\ (j = "verify" => jobState["discover"] = "succeeded")
        /\ jobState' = [jobState EXCEPT ![j] = "running"] /\ attempts' = [attempts EXCEPT ![j] = b]
        /\ work' = [work EXCEPT ![j] = [work[j] EXCEPT ![b] = m]]
    BY <1>5 DEF ClaimRecon, budgetVars
  <2>2. b \in AttemptNumber /\ attempts[j] \in Nat
    BY <1>5, BudgetAssumption DEF ClaimRecon, AttemptNumber, ChargeInv, CountersOK
  <2>3. m.pos = "started" /\ m.charge = 0 /\ m.used = 0 /\ m.held = 0
    BY DEF Unstarted
  <2>4. \A k \in Job, c \in AttemptNumber : work'[k][c] = IF k = j /\ c = b THEN m ELSE work[k][c]
    BY <1>1, <2>1, <2>2
  <2>5. /\ \A k \in Job : k # j => jobState'[k] = jobState[k] /\ attempts'[k] = attempts[k] /\ work'[k] = work[k]
        /\ jobState'[j] = "running" /\ attempts'[j] = b
    BY <1>1, <2>1 DEF ChargeInv, CountersOK
  <2> HIDE DEF b, m
  <2>6. \A c \in AttemptNumber : work[j][c].pos \notin Executing
    BY <2>1 DEF ChargeInv, InTurn, Counted
  <2>7. InTurn'
    <3>1. \A k \in Job, c \in AttemptNumber : work'[k][c].pos \in Executing => Counted(k, c)'
      BY <2>4, <2>5, <2>6 DEF ChargeInv, InTurn, Counted
    <3>2. attempts'["verify"] # 0 => jobState'["discover"] = "succeeded"
      BY <2>1, <2>5 DEF ChargeInv, InTurn, Job
    <3> QED BY <3>1, <3>2 DEF InTurn
  <2>8. ~Active(StageOf(j)) /\ (j = "verify" => ~Active("httpx_redirect"))
    BY <2>1 DEF ChargeInv, RowsHeld
  <2>9. \A s \in ReconStage : Active(s)' <=> Active(s)
    BY <2>1 DEF Active
  <2>10. \A k \in Job, c \in AttemptNumber : work'[k][c].pos \in Holding => work[k][c] = work'[k][c] /\ k # j
    <3>1. "started" \notin Holding
      BY DEF Holding, Leased, Tooling
    <3> QED BY <1>0, <2>3, <2>4, <2>6, <3>1
  <2>11. RowsHeld'
    <3>1. ASSUME NEW k \in Job, Active(StageOf(k))'
          PROVE  jobState'[k] = "running" /\ work'[k][attempts'[k]].pos \in Holding \cup {"dead"}
      BY <2>1, <2>5, <2>8, <3>1 DEF Active, ChargeInv, RowsHeld
    <3>2. Active("httpx_redirect")' =>
            jobState'["verify"] = "running" /\ work'["verify"][attempts'["verify"]].pos \in {"following", "refused", "dead"}
      BY <2>1, <2>5, <2>8 DEF Active, ChargeInv, RowsHeld, Job
    <3>3. \A k \in Job, c \in AttemptNumber : work'[k][c].pos \in Holding => Active(StageOf(k))' /\ row'[StageOf(k)].live
      BY <2>1, <2>10 DEF Active, ChargeInv, RowsHeld
    <3> QED BY <3>1, <3>2, <3>3 DEF RowsHeld
  <2>12. Accounts'
    <3> SUFFICES ASSUME NEW k \in Job, NEW c \in AttemptNumber, work'[k][c].pos \in Holding
                 PROVE  Fitting(k, c)' /\ requests' + row'[StageOf(k)].count - Spent(k, c)' <= consumed' + reserved'
      BY DEF Accounts
    <3>1. work'[k][c] = work[k][c]
      BY <2>10
    <3>2. Fitting(k, c) /\ requests + row[StageOf(k)].count - Spent(k, c) <= consumed + reserved
      BY <3>1 DEF ChargeInv, Accounts
    <3>3. Fitting(k, c)' /\ Spent(k, c)' = Spent(k, c)
      BY <2>1, <3>1, <3>2 DEF Fitting, Spent, Active
    <3> QED BY <2>1, <3>2, <3>3
  <2>13. PlacesOK' /\ RequestsCharged'
    BY <2>1, <2>3, <2>4 DEF ChargeInv, PlacesOK, RequestsCharged
  <2> QED BY <2>7, <2>11, <2>12, <2>13 DEF ChargeInv
<1> QED BY <1>3, <1>4, <1>5 DEF Scheduler

\* Time, the leases and the other audit charge nothing; a probe charges what it sends.
LEMMA ChargeElsewhere ==
  ASSUME Faults \subseteq {"crash", "redis"}, ChargeInv, LimitInv', CountersOK',
         Clock \/ ProbeRequest \/ OtherAcquires \/ OtherEnds \/ (\E j \in Job : RenewForJob(j)) \/ UNCHANGED vars
  PROVE  ChargeInv'
<1>1. /\ work \in [Job -> [AttemptNumber -> StageMemory]] /\ row \in [ReconStage -> Row]
      /\ requests \in Int /\ consumed \in Int /\ reserved \in Int
  BY CountsAreNumbers DEF ChargeInv, LimitInv, MemoriesOK, RowsOK, CountersOK, BudgetBalanced
<1>2. ASSUME NEW k \in Job, NEW b \in AttemptNumber, work[k][b].pos \in Holding
      PROVE  /\ Active(StageOf(k)) /\ row[StageOf(k)].live /\ Renews(k) /\ StageOf(k) \in Rows(k) /\ StageOf(k) \in ReconStage
  <2>1. work[k][b].pos \in Executing \ {"ended"} /\ StageOf(k) \in Rows(k) /\ StageOf(k) \in ReconStage
    BY <1>2 DEF Holding, Executing, Leased, Tooling, StageOf, Rows, ReconStage
  <2> QED BY <1>2, <2>1 DEF ChargeInv, RowsHeld, InTurn, Renews
<1>3. CASE UNCHANGED <<reserved, consumed, row, jobState, attempts, work, requests>>
  <2>1. \A s \in ReconStage : Active(s)' <=> Active(s)
    BY <1>3 DEF Active
  <2> QED BY <1>2, <1>3, <2>1, ChargeRests
<1>4. ASSUME NEW s \in ReconStage, RowExpires(s) PROVE ChargeInv'
  <2>1. row' = [row EXCEPT ![s].live = FALSE] /\ UNCHANGED <<reserved, consumed, jobState, attempts, work, requests>>
    BY <1>4 DEF RowExpires, jobVars
  <2>2. \A j \in Job : s \in Rows(j) => ~Renews(j)
    BY <1>4 DEF RowExpires
  <2>3. \A r \in ReconStage : /\ row'[r].status = row[r].status /\ row'[r].count = row[r].count
                              /\ r # s => row'[r] = row[r]
    BY <1>1, <2>1 DEF Row
  <2>4. \A r \in ReconStage : Active(r)' => Active(r) /\ row'[r].count = row[r].count
    BY <2>3 DEF Active
  <2>5. ASSUME NEW k \in Job, NEW b \in AttemptNumber, work[k][b].pos \in Holding
        PROVE  Active(StageOf(k))' /\ row'[StageOf(k)].live
    BY <1>2, <2>2, <2>3, <2>5 DEF Active
  <2> QED BY <2>1, <2>4, <2>5, ChargeRests
<1>5. ASSUME NEW j \in Job, RenewForJob(j) PROVE ChargeInv'
  <2>1. /\ row' = [s \in ReconStage |-> IF s \in Rows(j) /\ Active(s) THEN [row[s] EXCEPT !.live = TRUE] ELSE row[s]]
        /\ UNCHANGED <<reserved, consumed, jobState, attempts, work, requests>>
    BY <1>5 DEF RenewForJob, jobVars
  <2>2. \A r \in ReconStage : /\ row'[r].status = row[r].status /\ row'[r].count = row[r].count
                              /\ row[r].live => row'[r].live
    BY <1>1, <2>1 DEF Row
  <2>3. \A r \in ReconStage : Active(r)' => Active(r) /\ row'[r].count = row[r].count
    BY <2>2 DEF Active
  <2>4. ASSUME NEW k \in Job, NEW b \in AttemptNumber, work[k][b].pos \in Holding
        PROVE  Active(StageOf(k))' /\ row'[StageOf(k)].live
    BY <1>2, <2>2, <2>4 DEF Active
  <2> QED BY <2>1, <2>3, <2>4, ChargeRests
<1>6. CASE ProbeRequest
  <2>1. /\ consumed' = consumed + 1 /\ requests' = requests + 1
        /\ UNCHANGED <<reserved, row, jobState, attempts, work>>
        /\ \A j \in Job : jobState[j] = "succeeded"
    BY <1>6 DEF ProbeRequest, jobVars
  <2>2. \A k \in Job, b \in AttemptNumber : work[k][b].pos \notin Executing
    BY <2>1 DEF ChargeInv, InTurn, Counted
  <2>3. Holding \subseteq Executing
    BY DEF Holding, Executing
  <2>4. Accounts' /\ InTurn' /\ RowsHeld' /\ PlacesOK'
    BY <2>1, <2>2, <2>3 DEF ChargeInv, Accounts, InTurn, Counted, RowsHeld, Active, PlacesOK
  <2>5. RequestsCharged'
    BY <1>1, <2>1 DEF ChargeInv, RequestsCharged
  <2> QED BY <2>4, <2>5 DEF ChargeInv
<1> QED BY <1>3, <1>4, <1>5, <1>6 DEF Clock, KeyExpires, OtherAcquires, OtherEnds, budgetVars, jobVars, vars

LEMMA ChargeStep == Faults \subseteq {"crash", "redis"} /\ ChargeInv /\ [Next]_vars => ChargeInv'
<1> SUFFICES ASSUME Faults \subseteq {"crash", "redis"}, ChargeInv, [Next]_vars PROVE ChargeInv'
  OBVIOUS
<1>1. LimitInv' /\ CountersOK'
  BY LimitStep, CountersStep DEF ChargeInv
<1>2. CASE Scheduler
  BY <1>1, <1>2, ChargeScheduled
<1>3. ASSUME NEW j \in Job, NEW a \in AttemptNumber, Progress(j, a) PROVE ChargeInv'
  BY <1>1, <1>3, ChargeProgress
<1>4. ASSUME NEW j \in Job, NEW a \in AttemptNumber, Disturbance(j, a) PROVE ChargeInv'
  BY <1>1, <1>4, ChargeDisturbed
<1>5. CASE Clock \/ ProbeRequest \/ OtherAcquires \/ OtherEnds \/ (\E j \in Job : RenewForJob(j)) \/ UNCHANGED vars
  BY <1>1, <1>5, ChargeElsewhere
<1> QED BY <1>2, <1>3, <1>4, <1>5 DEF Next

\* Where attempts of a job do not overlap and settlements reach the database, every
\* request that was sent to the target is charged or held by an active reservation,
\* whatever worker died before it could say what it had sent.
THEOREM EveryRequestCharged == Faults \subseteq {"crash", "redis"} /\ Spec => []RequestsCharged
<1> SUFFICES ASSUME Faults \subseteq {"crash", "redis"} PROVE Spec => []RequestsCharged
  OBVIOUS
<1>1. Init => ChargeInv
  BY ChargeInit
<1>2. ChargeInv /\ [Next]_vars => ChargeInv'
  BY ChargeStep
<1>3. ChargeInv => RequestsCharged
  BY DEF ChargeInv
<1> QED BY <1>1, <1>2, <1>3, PTL DEF Spec
=============================================================================
