----------------------------- MODULE StoreProofs -----------------------------
(***************************************************************************)
(* Proofs about what the jobs of audits store: the inventory that compares  *)
(* audits, the requests that probe an endpoint, findings with their         *)
(* occurrences, their correlation, and the code maps it reads.              *)
(***************************************************************************)
EXTENDS Inventory, HttpProbe, FindingRecords, Correlation, SourceGraph,
        FiniteSetTheorems, SequenceTheorems, WellFoundedInduction, TLAPS
-----------------------------------------------------------------------------
(***************************************************************************)
(* Proofs about Inventory. Once an audit has started, the audits that were  *)
(* over by then are settled: none is added, as the clock has moved on, and  *)
(* no step writes the inventory of an audit that is over. The baseline that *)
(* any attempt of the merge chooses is therefore the same, and the drift    *)
(* that any attempt reads is the one that the last of them would read.      *)
(***************************************************************************)

InventoryFields == {"status", "baseline", "seen", "first", "drift"}

Shape ==
  /\ clock \in Nat /\ started \in [AuditId -> Nat] /\ completed \in [AuditId -> Nat]
  /\ DOMAIN audit = AuditId /\ DOMAIN stage = AuditId /\ attempt \in [AuditId -> Nat]
  /\ DOMAIN inventory = AuditId /\ DOMAIN reader = AuditId
  /\ \A a \in AuditId : /\ DOMAIN inventory[a] = InventoryFields
                      /\ DOMAIN reader[a] = Stage
  /\ \A a \in AuditId, s \in Stage : DOMAIN reader[a][s] = Try(a)
  /\ \A a \in AuditId, s \in Stage : \A n \in Try(a) : DOMAIN reader[a][s][n] = {"at", "drift"}

Ended(a) == audit[a] \in {"completed", "partial", "failed"}

\* The clock orders what happened.
Times ==
  /\ \A a \in AuditId : started[a] <= clock /\ completed[a] <= clock
  /\ \A a, b \in AuditId : Ended(a) /\ Ended(b) /\ completed[a] = completed[b] => a = b

\* b is what Previous(a) chooses: the predecessor that was over last.
IsPrevious(a, b) ==
  IF Predecessors(a) = {} THEN b = Nobody
  ELSE b \in Predecessors(a) /\ \A c \in Predecessors(a) : completed[c] <= completed[b]

Inherited(a) ==
  /\ inventory[a].status = "none" => inventory[a].baseline = Nobody /\ Kept(inventory[a]) = {}
  /\ inventory[a].status # "none" =>
       /\ audit[a] # "queued" /\ IsPrevious(a, inventory[a].baseline)
       /\ \A e \in Kept(inventory[a]) :
            inventory[a].first[e] = FirstSeen(a, inventory[a].baseline, e)

Settled(a) == inventory[a].status = "ready" /\ inventory[a].drift = DriftOf(inventory[a])

\* Attempts of the drift job begin after the merge succeeded; what they read holds.
DriftReadOK(a) ==
  /\ \A n \in Try(a) :
       /\ reader[a]["drift"][n].at # "none" => stage[a] # "merge"
       /\ At(a, "drift", n, "read") =>
            inventory[a].status # "none" /\ reader[a]["drift"][n].drift = DriftOf(inventory[a])
       /\ At(a, "drift", n, "written") => Settled(a)
  /\ stage[a] = "done" => Settled(a)

InventoryInv ==
  /\ Shape /\ Times
  /\ \A a \in AuditId : Inherited(a) /\ DriftReadOK(a)

\* What no step does: an audit that is over stays as it was, one that ends does so
\* after all that was, and one that has started keeps its beginning.
Onward ==
  /\ \A b \in AuditId : Ended(b) =>
       audit'[b] = audit[b] /\ completed'[b] = completed[b] /\ inventory'[b] = inventory[b]
  /\ \A b \in AuditId : ~Ended(b) /\ Ended(b)' => completed'[b] > clock
  /\ \A b \in AuditId : audit[b] # "queued" => audit'[b] # "queued" /\ started'[b] = started[b]
-----------------------------------------------------------------------------
(* The baseline. *)

LEMMA PredecessorsOver ==
  ASSUME NEW a, NEW b \in Predecessors(a)
  PROVE  b \in AuditId /\ Ended(b) /\ audit[b] \in {"completed", "partial"} /\ completed[b] <= started[a]
BY DEF Predecessors, Ended

\* A set of natural numbers has a least element.
LEMMA LeastOf ==
  ASSUME NEW R, IsWellFoundedOn(R, Nat), \A x, y \in Nat : y < x => <<y, x>> \in R,
         NEW T, T \subseteq Nat, T # {}
  PROVE  \E x \in T : \A y \in T : x <= y
<1>1. PICK x \in T : \A y \in T : ~(<<y, x>> \in R)
  BY WFMin
<1>2. ASSUME NEW y \in T PROVE x <= y
  <2>1. x \in Nat /\ y \in Nat
    OBVIOUS
  <2>2. ~(y < x)
    BY <1>1, <2>1
  <2> QED BY <2>1, <2>2
<1> QED BY <1>2

LEMMA LeastNatural ==
  ASSUME NEW T, T \subseteq Nat, T # {} PROVE \E x \in T : \A y \in T : x <= y
<1> DEFINE R == OpToRel(<, Nat)
<1>1. IsWellFoundedOn(R, Nat)
  BY NatLessThanWellFounded
<1>2. \A x, y \in Nat : y < x => <<y, x>> \in R
  <2>1. R = {ss \in Nat \X Nat : ss[1] < ss[2]}
    BY Zenon DEF OpToRel
  <2> HIDE DEF R
  <2> QED BY <2>1
<1> HIDE DEF R
<1> QED BY <1>1, <1>2, LeastOf

\* Times are below the clock, so that some predecessor was over last.
LEMMA PreviousExists ==
  ASSUME InventoryInv, NEW a \in AuditId PROVE IsPrevious(a, Previous(a))
<1>1. CASE Predecessors(a) = {}
  BY <1>1 DEF IsPrevious, Previous
<1>2. CASE Predecessors(a) # {}
  <2> DEFINE Ages == {clock - completed[b] : b \in Predecessors(a)}
  <2>1. Ages \subseteq Nat /\ Ages # {}
    BY <1>2, PredecessorsOver DEF InventoryInv, Shape, Times
  <2>3. PICK x \in Ages : \A y \in Ages : x <= y
    <3> HIDE DEF Ages
    <3> QED BY <2>1, LeastNatural
  <2>4. PICK b \in Predecessors(a) : x = clock - completed[b]
    OBVIOUS
  <2>5. ASSUME NEW c \in Predecessors(a) PROVE completed[c] <= completed[b]
    <3>1. completed[c] \in Nat /\ completed[b] \in Nat /\ clock \in Nat
      BY PredecessorsOver DEF InventoryInv, Shape
    <3>2. x <= clock - completed[c]
      BY <2>3
    <3> QED BY <3>1, <3>2, <2>4
  <2>6. Latest(Predecessors(a)) \in Predecessors(a)
          /\ \A c \in Predecessors(a) : completed[c] <= completed[Latest(Predecessors(a))]
    BY <2>5 DEF Latest
  <2> QED BY <1>2, <2>6 DEF IsPrevious, Previous
<1> QED BY <1>1, <1>2

LEMMA PreviousUnique ==
  ASSUME InventoryInv, NEW a \in AuditId, NEW b, NEW c, IsPrevious(a, b), IsPrevious(a, c)
  PROVE  b = c
<1>1. CASE Predecessors(a) # {}
  <2>1. completed[b] <= completed[c] /\ completed[c] <= completed[b]
    BY <1>1 DEF IsPrevious
  <2>2. b \in AuditId /\ c \in AuditId /\ Ended(b) /\ Ended(c)
    BY <1>1, PredecessorsOver DEF IsPrevious
  <2>3. completed[b] \in Nat /\ completed[c] \in Nat
    BY <2>2 DEF InventoryInv, Shape
  <2> QED BY <2>1, <2>2, <2>3 DEF InventoryInv, Times
<1> QED BY <1>1 DEF IsPrevious

\* The predecessors of an audit that has started do not change any more.
LEMMA PreviousStays ==
  ASSUME InventoryInv, Shape', Onward, NEW a \in AuditId, audit[a] # "queued", NEW b
  PROVE  IsPrevious(a, b)' <=> IsPrevious(a, b)
<1>1. started'[a] = started[a] /\ started[a] <= clock /\ clock \in Nat /\ started[a] \in Nat
  BY DEF Onward, InventoryInv, Times, Shape
<1>2. ASSUME NEW c \in AuditId PROVE c \in Predecessors(a)' <=> c \in Predecessors(a)
  <2>1. CASE Ended(c)
    BY <2>1, <1>1 DEF Onward, Predecessors
  <2>2. CASE ~Ended(c)
    <3>1. c \notin Predecessors(a)
      BY <2>2, PredecessorsOver
    <3>2. c \in Predecessors(a)' => completed'[c] > clock /\ completed'[c] <= started[a]
      BY <2>2, <1>1 DEF Onward, Predecessors, Ended
    <3>3. completed'[c] \in Nat
      BY DEF Shape
    <3> QED BY <3>1, <3>2, <3>3, <1>1
  <2> QED BY <2>1, <2>2
<1>3. Predecessors(a)' = Predecessors(a)
  BY <1>2 DEF Predecessors
<1>4. \A c \in Predecessors(a) : completed'[c] = completed[c]
  BY PredecessorsOver DEF Onward
<1> QED BY <1>3, <1>4 DEF IsPrevious

\* What an audit inherits depends on the inventory of its baseline, which is over.
LEMMA BaselineStays ==
  ASSUME Onward, NEW a \in AuditId, NEW b, IsPrevious(a, b), Nobody \notin AuditId
  PROVE  /\ EndpointsOf(b)' = EndpointsOf(b)
         /\ b # Nobody => inventory'[b] = inventory[b]
         /\ \A e : FirstSeen(a, b, e)' = FirstSeen(a, b, e)
<1>1. b # Nobody => b \in AuditId /\ Ended(b)
  BY PredecessorsOver DEF IsPrevious
<1>2. b # Nobody => inventory'[b] = inventory[b]
  BY <1>1 DEF Onward
<1>3. EndpointsOf(b)' = EndpointsOf(b)
  BY <1>2 DEF EndpointsOf, Kept
<1>4. \A e : FirstSeen(a, b, e)' = FirstSeen(a, b, e)
  <2>1. CASE b = Nobody
    BY <2>1 DEF FirstSeen, EndpointsOf
  <2>2. CASE b # Nobody
    BY <2>2, <1>2, <1>3 DEF FirstSeen
  <2> QED BY <2>1, <2>2
<1> QED BY <1>2, <1>3, <1>4
-----------------------------------------------------------------------------
(* What a step that leaves the inventory of a alone preserves. *)

SameMerge(a) ==
  /\ inventory'[a].status # "none" <=> inventory[a].status # "none"
  /\ inventory'[a].baseline = inventory[a].baseline
  /\ inventory'[a].seen = inventory[a].seen /\ inventory'[a].first = inventory[a].first

LEMMA InheritedStays ==
  ASSUME InventoryAssumption, InventoryInv, Shape', Onward, NEW a \in AuditId, SameMerge(a)
  PROVE  Inherited(a)'
<1>1. Kept(inventory[a])' = Kept(inventory[a])
  BY DEF Kept, SameMerge
<1>2. CASE inventory[a].status = "none"
  BY <1>1, <1>2 DEF Inherited, SameMerge, InventoryInv
<1>3. CASE inventory[a].status # "none"
  <2>1. PICK b : b = inventory[a].baseline
    OBVIOUS
  <2>2. audit[a] # "queued" /\ IsPrevious(a, b)
    BY <1>3, <2>1 DEF InventoryInv, Inherited
  <2>3. IsPrevious(a, b)' /\ audit'[a] # "queued"
    BY <2>2, PreviousStays DEF Onward
  <2>4. \A e : FirstSeen(a, b, e)' = FirstSeen(a, b, e)
    BY <2>2, BaselineStays DEF InventoryAssumption
  <2>5. \A e \in Kept(inventory[a]) : inventory[a].first[e] = FirstSeen(a, b, e)
    BY <1>3, <2>1 DEF InventoryInv, Inherited
  <2>6. inventory'[a].status # "none" /\ inventory'[a].baseline = b
          /\ inventory'[a].first = inventory[a].first
    BY <1>3, <2>1 DEF SameMerge
  <2>7. ASSUME NEW e \in Kept(inventory'[a]) PROVE inventory'[a].first[e] = FirstSeen(a, b, e)'
    BY <2>7, <1>1, <2>4, <2>5, <2>6
  <2> QED BY <2>1, <2>3, <2>6, <2>7 DEF Inherited
<1> QED BY <1>2, <1>3

LEMMA DriftStays ==
  ASSUME InventoryAssumption, InventoryInv, Onward, NEW a \in AuditId, SameMerge(a),
         inventory[a].status # "none"
  PROVE  DriftOf(inventory[a])' = DriftOf(inventory[a])
<1>1. PICK b : b = inventory[a].baseline
  OBVIOUS
<1>2. IsPrevious(a, b)
  BY <1>1 DEF InventoryInv, Inherited
<1>3. b # Nobody => inventory'[b] = inventory[b]
  BY <1>2, BaselineStays DEF InventoryAssumption
<1>4. /\ inventory'[a].baseline = b /\ inventory[a].baseline = b
      /\ inventory'[a].seen = inventory[a].seen
      /\ Kept(inventory'[a]) = Kept(inventory[a])
  BY <1>1 DEF SameMerge, Kept
<1>5. CASE b = Nobody
  BY <1>4, <1>5 DEF DriftOf
<1>6. CASE b # Nobody
  BY <1>3, <1>4, <1>6 DEF DriftOf
<1> QED BY <1>5, <1>6

LEMMA ReadsStay ==
  ASSUME InventoryAssumption, InventoryInv, Onward, NEW a \in AuditId, SameMerge(a),
         inventory'[a].status = inventory[a].status, inventory'[a].drift = inventory[a].drift,
         reader'[a]["drift"] = reader[a]["drift"], stage'[a] = stage[a]
  PROVE  DriftReadOK(a)'
<1>1. DriftReadOK(a)
  BY DEF InventoryInv
<1>2. inventory[a].status # "none" => DriftOf(inventory[a])' = DriftOf(inventory[a])
  BY DriftStays
<1>3. Settled(a) => Settled(a)'
  BY <1>2 DEF Settled
<1> QED BY <1>1, <1>2, <1>3 DEF DriftReadOK, At

\* An audit that a step of another one leaves alone.
LEMMA OthersStay ==
  ASSUME InventoryAssumption, InventoryInv, Shape', Onward, NEW a \in AuditId,
         inventory'[a] = inventory[a], reader'[a] = reader[a], stage'[a] = stage[a]
  PROVE  Inherited(a)' /\ DriftReadOK(a)'
<1>1. SameMerge(a)
  BY DEF SameMerge
<1> QED BY <1>1, InheritedStays, ReadsStay

LEMMA InventoryInitially == ASSUME InventoryAssumption, InventoryInit PROVE InventoryInv
<1> USE DEF InventoryInit
<1>1. Shape
  <2>1. \A a \in AuditId : DOMAIN inventory[a] = InventoryFields /\ DOMAIN reader[a] = Stage
    BY DEF NoInventory, InventoryFields
  <2>2. \A a \in AuditId, s \in Stage : DOMAIN reader[a][s] = Try(a)
    OBVIOUS
  <2>3. \A a \in AuditId, s \in Stage : \A n \in Try(a) : DOMAIN reader[a][s][n] = {"at", "drift"}
    BY DEF Idle
  <2> QED BY <2>1, <2>2, <2>3 DEF Shape
<1>2. Times
  BY DEF Times, Ended
<1>3. ASSUME NEW a \in AuditId PROVE Inherited(a)
  <2>1. inventory[a].status = "none" /\ inventory[a].baseline = Nobody /\ inventory[a].first = Absent
    BY DEF NoInventory
  <2> QED BY <2>1 DEF Inherited, Kept, Absent
<1>4. ASSUME NEW a \in AuditId PROVE DriftReadOK(a)
  <2>1. \A n \in Try(a) : reader[a]["drift"][n].at = "none"
    BY DEF Idle, Stage
  <2> QED BY <2>1 DEF DriftReadOK, At
<1> QED BY <1>1, <1>2, <1>3, <1>4 DEF InventoryInv
-----------------------------------------------------------------------------
(* One lemma to each action. *)

LEMMA StartKeeps ==
  ASSUME InventoryAssumption, InventoryInv, NEW a \in AuditId, StartAudit(a) PROVE InventoryInv'
<1> USE DEF StartAudit
<1>0. Shape /\ Times
  BY DEF InventoryInv
<1>1. /\ audit' = [audit EXCEPT ![a] = "running"] /\ audit[a] = "queued"
      /\ clock' = clock + 1 /\ started' = [started EXCEPT ![a] = clock + 1]
      /\ UNCHANGED <<completed, stage, attempt, inventory, reader>>
  OBVIOUS
<1>2. Shape'
  BY <1>0, <1>1 DEF Shape
<1>3. \A b \in AuditId : Ended(b)' <=> Ended(b)
  BY <1>0, <1>1 DEF Ended, Shape
<1>4. Times'
  BY <1>0, <1>1, <1>3 DEF Times, Shape
<1>5. Onward
  BY <1>0, <1>1, <1>3 DEF Onward, Ended, Shape
<1> QED BY <1>1, <1>2, <1>4, <1>5, OthersStay DEF InventoryInv

LEMMA EndKeeps ==
  ASSUME InventoryAssumption, InventoryInv, NEW a \in AuditId, EndAudit(a) PROVE InventoryInv'
<1>0. Shape /\ Times
  BY DEF InventoryInv
<1>1. PICK verdict \in {"completed", "partial", "failed"} :
        /\ audit' = [audit EXCEPT ![a] = verdict] /\ audit[a] = "running"
        /\ clock' = clock + 1 /\ completed' = [completed EXCEPT ![a] = clock + 1]
        /\ UNCHANGED <<started, stage, attempt, inventory, reader>>
  BY DEF EndAudit
<1>2. Shape'
  BY <1>0, <1>1 DEF Shape
<1>3. \A b \in AuditId : b # a => audit'[b] = audit[b] /\ completed'[b] = completed[b]
  BY <1>0, <1>1 DEF Shape
<1>4. Times'
  <2>1. completed'[a] = clock + 1 /\ \A b \in AuditId : completed[b] <= clock /\ completed[b] \in Nat
    BY <1>0, <1>1 DEF Times, Shape
  <2>2. \A b \in AuditId : b # a => (Ended(b)' <=> Ended(b))
    BY <1>3 DEF Ended
  <2>3. \A b \in AuditId : started'[b] <= clock' /\ completed'[b] <= clock'
    BY <2>1, <1>0, <1>1, <1>3 DEF Times, Shape
  <2>4. ASSUME NEW b \in AuditId, NEW c \in AuditId, Ended(b)', Ended(c)', completed'[b] = completed'[c]
        PROVE  b = c
    BY <2>1, <2>2, <2>4, <1>0, <1>3 DEF Times, Shape
  <2> QED BY <2>3, <2>4 DEF Times
<1>5. Onward
  BY <1>0, <1>1, <1>3 DEF Onward, Ended, Shape
<1> QED BY <1>1, <1>2, <1>4, <1>5, OthersStay DEF InventoryInv

\* Steps of attempts: no audit begins or ends.
LEMMA AttemptsGo ==
  ASSUME InventoryInv, UNCHANGED auditVars, NEW a \in AuditId,
         \A b \in AuditId : b # a \/ audit[a] # "running" => inventory'[b] = inventory[b]
  PROVE  Times' /\ Onward
BY DEF InventoryInv, Times, Onward, Ended, auditVars

\* reader[a][s][n] becomes x.
Remembers(a, s, n, x) ==
  /\ DOMAIN reader' = AuditId /\ \A b \in AuditId : b # a => reader'[b] = reader[b]
  /\ DOMAIN reader'[a] = Stage /\ DOMAIN reader'[a][s] = Try(a)
  /\ \A t \in Stage : t # s => reader'[a][t] = reader[a][t]
  /\ \A m \in Try(a) : m # n => reader'[a][s][m] = reader[a][s][m]
  /\ DOMAIN reader'[a][s][n] = {"at", "drift"} /\ reader'[a][s][n] = x

LEMMA RemembersShape ==
  ASSUME Shape, NEW a \in AuditId, NEW s \in Stage, NEW n \in Try(a), NEW x, Remembers(a, s, n, x)
  PROVE  /\ \A b \in AuditId : DOMAIN reader'[b] = Stage
         /\ \A b \in AuditId, t \in Stage : DOMAIN reader'[b][t] = Try(b)
         /\ \A b \in AuditId, t \in Stage : \A m \in Try(b) : DOMAIN reader'[b][t][m] = {"at", "drift"}
<1>1. ASSUME NEW b \in AuditId, NEW t \in Stage
      PROVE  /\ DOMAIN reader'[b] = Stage /\ DOMAIN reader'[b][t] = Try(b)
             /\ \A m \in Try(b) : DOMAIN reader'[b][t][m] = {"at", "drift"}
  <2>1. CASE b # a
    BY <2>1 DEF Shape, Remembers
  <2>2. CASE b = a /\ t # s
    BY <2>2 DEF Shape, Remembers
  <2>3. CASE b = a /\ t = s
    BY <2>3 DEF Shape, Remembers
  <2> QED BY <2>1, <2>2, <2>3
<1> QED BY <1>1 DEF Shape, Remembers

LEMMA ClaimStageKeeps ==
  ASSUME InventoryAssumption, InventoryInv, NEW a \in AuditId, ClaimStage(a) PROVE InventoryInv'
<1>0. Shape /\ DriftReadOK(a)
  BY DEF InventoryInv
<1> DEFINE s == stage[a]
           n == attempt[a] + 1
<1>1. /\ UNCHANGED <<auditVars, stage, inventory>> /\ s \in Stage
      /\ attempt' = [attempt EXCEPT ![a] = n] /\ n \in Try(a)
      /\ reader' = [reader EXCEPT ![a][s][n].at = "begin"]
  <2>1. /\ UNCHANGED <<auditVars, stage, inventory>> /\ s \in Stage /\ attempt[a] < Attempts[a]
        /\ attempt' = [attempt EXCEPT ![a] = n]
        /\ reader' = [reader EXCEPT ![a][s][attempt'[a]].at = "begin"]
    BY DEF ClaimStage
  <2>2. attempt[a] \in Nat /\ Attempts[a] \in Nat /\ attempt'[a] = n
    BY <2>1, <1>0 DEF Shape, InventoryAssumption
  <2>3. n \in Try(a)
    BY <2>1, <2>2 DEF Try
  <2>4. reader' = [reader EXCEPT ![a][s][n].at = "begin"]
    <3> HIDE DEF n, s
    <3> QED BY <2>1, <2>2
  <2> QED BY <2>1, <2>3, <2>4
<1> HIDE DEF s, n
<1>2. /\ DOMAIN reader' = AuditId
      /\ \A b \in AuditId : b # a => reader'[b] = reader[b]
      /\ DOMAIN reader'[a] = Stage /\ DOMAIN reader'[a][s] = Try(a)
      /\ \A t \in Stage : t # s => reader'[a][t] = reader[a][t]
      /\ \A m \in Try(a) : m # n => reader'[a][s][m] = reader[a][s][m]
      /\ DOMAIN reader'[a][s][n] = {"at", "drift"} /\ reader'[a][s][n].at = "begin"
  BY <1>0, <1>1 DEF Shape
<1>3. Shape'
  <2>1. Remembers(a, s, n, reader'[a][s][n])
    BY <1>1, <1>2 DEF Remembers
  <2>2. \A b \in AuditId : DOMAIN reader'[b] = Stage
    BY <2>1, <1>0, <1>1, RemembersShape
  <2>3. attempt' \in [AuditId -> Nat]
    BY <1>0, <1>1 DEF Shape, Try
  <2> QED BY <2>1, <2>2, <2>3, <1>0, <1>1, <1>2, RemembersShape DEF Shape, auditVars
<1>4. Times' /\ Onward
  BY <1>1, AttemptsGo
<1>5. Inherited(a)'
  BY <1>1, <1>3, <1>4, InheritedStays DEF SameMerge
<1>6. DriftReadOK(a)'
  <2>1. CASE s = "merge"
    <3>1. reader'[a]["drift"] = reader[a]["drift"]
      BY <2>1, <1>2 DEF Stage
    <3> QED BY <3>1, <1>1, <1>4, ReadsStay DEF SameMerge
  <2>2. CASE s = "drift"
    <3>1. Settled(a)' <=> Settled(a)
      BY <1>1 DEF Settled, DriftOf, Kept
    <3>2. DriftOf(inventory[a])' = DriftOf(inventory[a])
      BY <1>1 DEF DriftOf, Kept
    <3>3. ASSUME NEW m \in Try(a)
          PROVE  /\ reader'[a]["drift"][m].at # "none" => stage'[a] # "merge"
                 /\ At(a, "drift", m, "read")' =>
                      inventory'[a].status # "none" /\ reader'[a]["drift"][m].drift = DriftOf(inventory[a])'
                 /\ At(a, "drift", m, "written")' => Settled(a)'
      <4>1. CASE m = n
        BY <4>1, <2>2, <1>1, <1>2 DEF At, s
      <4>2. CASE m # n
        BY <4>2, <2>2, <3>1, <3>2, <1>0, <1>1, <1>2 DEF DriftReadOK, At
      <4> QED BY <4>1, <4>2
    <3>4. stage'[a] = "done" => Settled(a)'
      BY <2>2, <1>1 DEF s
    <3> QED BY <3>3, <3>4 DEF DriftReadOK
  <2> QED BY <2>1, <2>2, <1>1 DEF Stage
<1>7. \A b \in AuditId : b # a => Inherited(b)' /\ DriftReadOK(b)'
  BY <1>1, <1>2, <1>3, <1>4, OthersStay
<1> QED BY <1>3, <1>4, <1>5, <1>6, <1>7 DEF InventoryInv

LEMMA MergeKeeps ==
  ASSUME InventoryAssumption, InventoryInv, NEW a \in AuditId, NEW n \in Try(a), Merge(a, n)
  PROVE  InventoryInv'
<1>0. Shape /\ DriftReadOK(a) /\ Inherited(a)
  BY DEF InventoryInv
<1> DEFINE previous == Previous(a)
           keys == KeysOf(found[a])
           base == IF inventory[a].status = "none" THEN previous ELSE inventory[a].baseline
           first == [e \in Endpoint |-> IF e \in keys THEN FirstSeen(a, previous, e) ELSE Nobody]
           seen == [e \in Endpoint |-> SeenAt(found[a], e)]
           new == [inventory[a] EXCEPT !.status = "building", !.baseline = base,
                                       !.seen = seen, !.first = first]
<1>1. /\ audit[a] = "running" /\ stage[a] = "merge" /\ UNCHANGED <<auditVars, stage, attempt>>
      /\ inventory' = [inventory EXCEPT ![a] = new]
      /\ reader' = [reader EXCEPT ![a]["merge"][n].at = "written"]
  <2>1. /\ audit[a] = "running" /\ stage[a] = "merge" /\ UNCHANGED <<auditVars, stage, attempt>>
        /\ reader' = [reader EXCEPT ![a]["merge"][n].at = "written"]
    BY DEF Merge, Writable
  <2>2. inventory' = [inventory EXCEPT ![a] = new]
    BY DEF Merge
  <2> QED BY <2>1, <2>2
<1>p. IsPrevious(a, previous)
  BY PreviousExists
<1>b. base = previous
  BY <1>0, <1>p, PreviousUnique DEF Inherited
<1>k. \A e \in Endpoint : first[e] # Nobody => first[e] = FirstSeen(a, previous, e)
  OBVIOUS
<1> HIDE DEF base, seen, first
<1>2. DOMAIN new = InventoryFields /\ new.status = "building" /\ new.baseline = base /\ new.first = first
  BY <1>0 DEF Shape, InventoryFields
<1> HIDE DEF new
<1>3. DOMAIN inventory' = AuditId /\ inventory'[a] = new /\ \A b \in AuditId : b # a => inventory'[b] = inventory[b]
  BY <1>0, <1>1 DEF Shape
<1>4. /\ DOMAIN reader' = AuditId /\ \A b \in AuditId : b # a => reader'[b] = reader[b]
      /\ reader'[a]["drift"] = reader[a]["drift"]
      /\ \A b \in AuditId : DOMAIN reader'[b] = Stage
      /\ \A b \in AuditId, t \in Stage : DOMAIN reader'[b][t] = Try(b)
      /\ \A b \in AuditId, t \in Stage : \A m \in Try(b) : DOMAIN reader'[b][t][m] = {"at", "drift"}
  BY <1>0, <1>1 DEF Shape, Stage
<1>5. Shape'
  BY <1>0, <1>1, <1>2, <1>3, <1>4 DEF Shape, auditVars
<1>6. Times' /\ Onward
  BY <1>1, <1>3, AttemptsGo
<1>7. Inherited(a)'
  <2>1. PICK b : b = previous
    OBVIOUS
  <2>2. IsPrevious(a, b)' /\ audit'[a] # "queued"
    BY <2>1, <1>1, <1>5, <1>6, <1>p, PreviousStays DEF Onward
  <2>3. \A e : FirstSeen(a, b, e)' = FirstSeen(a, b, e)
    BY <2>1, <1>6, <1>p, BaselineStays DEF InventoryAssumption
  <2>4. inventory'[a].baseline = b /\ inventory'[a].status = "building" /\ inventory'[a].first = first
    BY <2>1, <1>b, <1>2, <1>3
  <2>5. ASSUME NEW e \in Kept(inventory[a])' PROVE inventory'[a].first[e] = FirstSeen(a, b, e)'
    <3>1. e \in Endpoint /\ first[e] # Nobody
      BY <2>4, <2>5 DEF Kept
    <3> QED BY <3>1, <2>1, <2>3, <2>4, <1>k
  <2> QED BY <2>2, <2>4, <2>5 DEF Inherited
<1>8. DriftReadOK(a)'
  <2>1. \A m \in Try(a) : reader'[a]["drift"][m].at = "none"
    BY <1>0, <1>1, <1>4 DEF DriftReadOK
  <2> QED BY <2>1, <1>1 DEF DriftReadOK, At
<1>9. \A b \in AuditId : b # a => Inherited(b)' /\ DriftReadOK(b)'
  BY <1>1, <1>3, <1>4, <1>5, <1>6, OthersStay
<1> QED BY <1>5, <1>6, <1>7, <1>8, <1>9 DEF InventoryInv

LEMMA ReadDriftKeeps ==
  ASSUME InventoryAssumption, InventoryInv, NEW a \in AuditId, NEW n \in Try(a), ReadDrift(a, n)
  PROVE  InventoryInv'
<1>0. Shape /\ DriftReadOK(a)
  BY DEF InventoryInv
<1> DEFINE x == [at |-> "read", drift |-> DriftOf(inventory[a])]
<1>1. /\ UNCHANGED <<auditVars, stage, attempt, inventory>> /\ inventory[a].status # "none"
      /\ reader' = [reader EXCEPT ![a]["drift"][n] = x] /\ reader[a]["drift"][n].at = "begin"
  BY DEF ReadDrift, At
<1>2. DOMAIN x = {"at", "drift"} /\ x.at = "read" /\ x.drift = DriftOf(inventory[a])
  OBVIOUS
<1> HIDE DEF x
<1>3. Remembers(a, "drift", n, x)
  BY <1>0, <1>1, <1>2 DEF Shape, Remembers, Stage
<1>4. Shape'
  BY <1>0, <1>1, <1>3, RemembersShape DEF Shape, Stage, Remembers, auditVars
<1>5. Times' /\ Onward
  BY <1>1, AttemptsGo
<1>6. Inherited(a)'
  BY <1>1, <1>4, <1>5, InheritedStays DEF SameMerge
<1>7. DriftReadOK(a)'
  <2>1. DriftOf(inventory[a])' = DriftOf(inventory[a]) /\ (Settled(a)' <=> Settled(a))
    BY <1>1 DEF DriftOf, Kept, Settled
  <2>2. \A m \in Try(a) : m = n \/ reader'[a]["drift"][m] = reader[a]["drift"][m]
    BY <1>3 DEF Remembers
  <2>3. reader'[a]["drift"][n] = x
    BY <1>3 DEF Remembers
  <2>4. stage[a] # "merge" /\ stage' = stage
    BY <1>0, <1>1 DEF DriftReadOK
  <2> QED BY <2>1, <2>2, <2>3, <2>4, <1>0, <1>1, <1>2 DEF DriftReadOK, At
<1>8. \A b \in AuditId : b # a => Inherited(b)' /\ DriftReadOK(b)'
  BY <1>1, <1>3, <1>4, <1>5, OthersStay DEF Remembers
<1> QED BY <1>4, <1>5, <1>6, <1>7, <1>8 DEF InventoryInv

LEMMA WriteDriftKeeps ==
  ASSUME InventoryAssumption, InventoryInv, NEW a \in AuditId, NEW n \in Try(a), WriteDrift(a, n)
  PROVE  InventoryInv'
<1>0. Shape /\ DriftReadOK(a)
  BY DEF InventoryInv
<1> DEFINE drift == reader[a]["drift"][n].drift
           x == [Idle EXCEPT !.at = "written"]
<1>1. /\ UNCHANGED <<auditVars, stage, attempt>> /\ audit[a] = "running" /\ stage[a] = "drift"
      /\ inventory' = [inventory EXCEPT ![a].status = "ready", ![a].drift = drift]
      /\ reader' = [reader EXCEPT ![a]["drift"][n] = x]
  BY DEF WriteDrift, Writable
<1>2. inventory[a].status # "none" /\ drift = DriftOf(inventory[a])
  BY <1>0 DEF WriteDrift, DriftReadOK
<1>3. DOMAIN x = {"at", "drift"} /\ x.at = "written"
  BY DEF Idle
<1> HIDE DEF x, drift
<1>4. Remembers(a, "drift", n, x)
  BY <1>0, <1>1, <1>3 DEF Shape, Remembers, Stage
<1>5. /\ DOMAIN inventory' = AuditId /\ \A b \in AuditId : b # a => inventory'[b] = inventory[b]
      /\ DOMAIN inventory'[a] = InventoryFields /\ inventory'[a].status = "ready"
      /\ inventory'[a].drift = drift /\ inventory'[a].baseline = inventory[a].baseline
      /\ inventory'[a].seen = inventory[a].seen /\ inventory'[a].first = inventory[a].first
  BY <1>0, <1>1 DEF Shape, InventoryFields
<1>6. Shape'
  BY <1>0, <1>1, <1>4, <1>5, RemembersShape DEF Shape, Stage, Remembers, auditVars
<1>7. Times' /\ Onward
  BY <1>1, <1>5, AttemptsGo
<1>8. SameMerge(a)
  BY <1>2, <1>5 DEF SameMerge
<1>9. Inherited(a)'
  BY <1>6, <1>7, <1>8, InheritedStays
<1>10. DriftReadOK(a)'
  <2>1. DriftOf(inventory[a])' = DriftOf(inventory[a])
    BY <1>2, <1>7, <1>8, DriftStays
  <2>2. Settled(a)'
    BY <2>1, <1>2, <1>5 DEF Settled
  <2>3. \A m \in Try(a) : m = n \/ reader'[a]["drift"][m] = reader[a]["drift"][m]
    BY <1>4 DEF Remembers
  <2>4. reader'[a]["drift"][n] = x
    BY <1>4 DEF Remembers
  <2>5. stage' = stage
    BY <1>1
  <2> QED BY <2>1, <2>2, <2>3, <2>4, <2>5, <1>0, <1>1, <1>3, <1>5 DEF DriftReadOK, At
<1>11. \A b \in AuditId : b # a => Inherited(b)' /\ DriftReadOK(b)'
  BY <1>1, <1>4, <1>5, <1>6, <1>7, OthersStay DEF Remembers
<1> QED BY <1>6, <1>7, <1>9, <1>10, <1>11 DEF InventoryInv

LEMMA SucceedKeeps ==
  ASSUME InventoryAssumption, InventoryInv, NEW a \in AuditId, NEW s \in Stage, NEW n \in Try(a),
         StageSucceeds(a, s, n)
  PROVE  InventoryInv'
<1>0. Shape /\ DriftReadOK(a)
  BY DEF InventoryInv
<1>1. /\ UNCHANGED <<auditVars, inventory>> /\ stage[a] = s
      /\ stage' = [stage EXCEPT ![a] = IF s = "merge" THEN "drift" ELSE "done"]
      /\ attempt' = [attempt EXCEPT ![a] = 0]
      /\ reader' = [reader EXCEPT ![a][s][n] = Idle]
  BY DEF StageSucceeds, Writable
<1>2. DOMAIN Idle = {"at", "drift"} /\ Idle.at = "none"
  BY DEF Idle
<1>3. Remembers(a, s, n, Idle)
  BY <1>0, <1>1, <1>2 DEF Shape, Remembers
<1>4. Shape'
  <2>1. DOMAIN stage' = AuditId /\ attempt' \in [AuditId -> Nat]
    BY <1>0, <1>1 DEF Shape
  <2> QED BY <2>1, <1>0, <1>1, <1>3, RemembersShape DEF Shape, Remembers, auditVars
<1>5. Times' /\ Onward
  BY <1>1, AttemptsGo
<1>6. Inherited(a)'
  BY <1>1, <1>4, <1>5, InheritedStays DEF SameMerge
<1>7. DriftReadOK(a)'
  <2>1. DriftOf(inventory[a])' = DriftOf(inventory[a]) /\ (Settled(a)' <=> Settled(a))
    BY <1>1 DEF DriftOf, Kept, Settled
  <2>2. stage'[a] = IF s = "merge" THEN "drift" ELSE "done"
    BY <1>0, <1>1 DEF Shape
  <2>3. \A m \in Try(a) : reader'[a]["drift"][m] = reader[a]["drift"][m]
                          \/ reader'[a]["drift"][m].at = "none"
    BY <1>2, <1>3 DEF Remembers, Stage
  <2>4. s = "drift" => Settled(a)
    BY <1>0 DEF StageSucceeds, DriftReadOK
  <2> QED BY <2>1, <2>2, <2>3, <2>4, <1>0, <1>1 DEF DriftReadOK, At, Stage
<1>8. \A b \in AuditId : b # a => Inherited(b)' /\ DriftReadOK(b)'
  <2>1. \A b \in AuditId : b # a => stage'[b] = stage[b]
    BY <1>0, <1>1 DEF Shape
  <2> QED BY <2>1, <1>1, <1>3, <1>4, <1>5, OthersStay DEF Remembers
<1> QED BY <1>4, <1>5, <1>6, <1>7, <1>8 DEF InventoryInv

LEMMA InventoryStep ==
  ASSUME InventoryAssumption, InventoryInv, [InventoryNext]_inventoryVars PROVE InventoryInv'
<1>1. ASSUME NEW a \in AuditId, StartAudit(a) \/ EndAudit(a) \/ ClaimStage(a) PROVE InventoryInv'
  BY <1>1, StartKeeps, EndKeeps, ClaimStageKeeps
<1>2. ASSUME NEW a \in AuditId, NEW n \in Try(a), Merge(a, n) \/ ReadDrift(a, n) \/ WriteDrift(a, n)
      PROVE  InventoryInv'
  BY <1>2, MergeKeeps, ReadDriftKeeps, WriteDriftKeeps
<1>3. ASSUME NEW a \in AuditId, NEW s \in Stage, NEW n \in Try(a), StageSucceeds(a, s, n)
      PROVE  InventoryInv'
  BY <1>3, SucceedKeeps
<1>4. CASE UNCHANGED inventoryVars
  <2>1. Shape' /\ Times' /\ Onward
    BY <1>4 DEF inventoryVars, auditVars, InventoryInv, Shape, Times, Onward, Ended
  <2> QED BY <1>4, <2>1, OthersStay DEF InventoryInv, inventoryVars
<1> QED BY <1>1, <1>2, <1>3, <1>4 DEF InventoryNext

\* Whatever the audits, their overlaps and the attempts of their jobs: the baseline was
\* over when the audit began, first-seen agrees with it, and what the drift job left is
\* the difference from it (inventory.service merge and computeDrift).
THEOREM FirstSeenAgrees ==
  ASSUME InventoryAssumption PROVE InventorySpec => []FirstSeenInherited
<1>1. InventoryInit => InventoryInv
  BY InventoryInitially
<1>2. InventoryInv /\ [InventoryNext]_inventoryVars => InventoryInv'
  BY InventoryStep
<1>3. InventoryInv => FirstSeenInherited
  <2>1. SUFFICES ASSUME InventoryInv, NEW a \in AuditId
                 PROVE  /\ inventory[a].baseline # Nobody =>
                             /\ audit[inventory[a].baseline] \in {"completed", "partial"}
                             /\ completed[inventory[a].baseline] <= started[a]
                        /\ \A e \in Kept(inventory[a]) :
                             inventory[a].first[e] = FirstSeen(a, inventory[a].baseline, e)
                        /\ stage[a] = "done" => inventory[a].status = "ready"
                             /\ inventory[a].drift = DriftOf(inventory[a])
    BY DEF FirstSeenInherited
  <2>2. inventory[a].baseline # Nobody => inventory[a].baseline \in Predecessors(a)
    BY <2>1 DEF InventoryInv, Inherited, IsPrevious
  <2> QED BY <2>1, <2>2, PredecessorsOver DEF InventoryInv, Inherited, DriftReadOK, Settled
<1> QED BY <1>1, <1>2, <1>3, PTL DEF InventorySpec

-----------------------------------------------------------------------------
(* ProbesAuthorized for every set of URLs and policies and every redirect. *)

Methods == {"GET", "POST"}
Sending == {"scoped", "identified", "reserved"}
ProbeMemory ==
  [at : {"begin", "hop", "sent", "denied", "refused", "failed", "done"} \cup Sending, hop : Nat, url : Url,
   method : Methods, read : ProbePolicy, agent : BOOLEAN, follows : BOOLEAN]
SentRecord == [url : Url, method : Methods, read : ProbePolicy, since : SUBSET ProbePolicy, usable : BOOLEAN]

ProbeTypeOK ==
  /\ policy \in ProbePolicy /\ agentIdentity \in BOOLEAN /\ spent \in Nat
  /\ probe \in ProbeMemory
  /\ sent \in Seq(SentRecord)
  /\ since \in [policies : SUBSET ProbePolicy, usable : BOOLEAN]

\* What the present is among what was in force since the last request.
Recorded == policy \in since.policies /\ (agentIdentity => since.usable)

\* What the checks of the request at hand established, and what was paid for it.
Cleared ==
  /\ probe.at \in Sending =>
       /\ probe.read \in since.policies /\ Permitted(probe.read, probe.url, probe.method)
       /\ probe.at # "scoped" => since.usable \/ ~probe.agent
  /\ probe.at \in {"begin", "hop"} \cup Sending => Len(sent) = probe.hop /\ probe.hop < MaxHops
  /\ probe.at = "sent" => Len(sent) = probe.hop + 1 /\ probe.hop < MaxHops
  /\ probe.at = "reserved" => Len(sent) + 1 <= spent

ProbeInv == ProbeTypeOK /\ Recorded /\ Cleared /\ ProbesAuthorized

LEMMA OutsideKeeps ==
  ASSUME ProbeAssumption, ProbeInv, ReplacePolicy \/ RevokeIdentity \/ OthersSpend \/ SecondPasses
  PROVE  ProbeInv'
<1> USE DEF ProbeInv
<1>1. UNCHANGED <<probe, sent>>
  BY DEF ReplacePolicy, RevokeIdentity, OthersSpend, SecondPasses, Edit
<1>2. policy' \in ProbePolicy /\ agentIdentity' \in BOOLEAN
  BY DEF ProbeTypeOK, ReplacePolicy, RevokeIdentity, OthersSpend, SecondPasses, Edit
<1>3. spent' \in Nat /\ spent <= spent' /\ spent' <= MaxRequests
  BY DEF ProbeAssumption, ProbeTypeOK, ProbesAuthorized, FitsTable,
         ReplacePolicy, RevokeIdentity, OthersSpend, SecondPasses, Edit
<1>4. /\ since' \in [policies : SUBSET ProbePolicy, usable : BOOLEAN]
      /\ since.policies \subseteq since'.policies /\ since'.usable = since.usable
      /\ policy' \in since'.policies /\ (agentIdentity' => since'.usable)
  <2>1. CASE ReplacePolicy
    BY <2>1 DEF ReplacePolicy, Edit, ProbeTypeOK, Recorded
  <2>2. CASE RevokeIdentity \/ OthersSpend \/ SecondPasses
    BY <2>2 DEF RevokeIdentity, OthersSpend, SecondPasses, Edit, ProbeTypeOK, Recorded
  <2> QED BY <2>1, <2>2
<1>5. Len(sent) \in Nat
  BY DEF ProbeTypeOK
<1>6. ProbeTypeOK' /\ Recorded' /\ Cleared'
  BY <1>1, <1>2, <1>3, <1>4, <1>5 DEF ProbeTypeOK, Recorded, Cleared, Permitted, InScope
<1>7. ProbesAuthorized'
  BY <1>1, <1>3, <1>5, ProbeAssumption DEF ProbesAuthorized, Permitted, InScope, ProbeAssumption, ProbeTypeOK
<1> QED
  BY <1>6, <1>7

\* The steps that only move the job on: its memory, and what it has been cleared for.
LEMMA JobMoves ==
  ASSUME ProbeInv, UNCHANGED <<policy, agentIdentity, since, sent>>,
         spent' \in Nat, spent <= spent', spent' <= MaxRequests, ProbeAssumption,
         probe' \in ProbeMemory, Cleared'
  PROVE  ProbeInv'
<1>1. Len(sent) \in Nat
  BY DEF ProbeInv, ProbeTypeOK
<1>2. ProbesAuthorized'
  BY <1>1 DEF ProbeInv, ProbeTypeOK, ProbesAuthorized, Permitted, InScope, ProbeAssumption
<1> QED
  BY <1>2 DEF ProbeInv, ProbeTypeOK, Recorded

LEMMA ChecksKeep ==
  ASSUME ProbeAssumption, ProbeInv, Begin \/ CheckScope \/ CheckIdentity
  PROVE  ProbeInv'
<1>1. /\ UNCHANGED <<policy, agentIdentity, since, sent, spent>> /\ spent \in Nat /\ spent <= MaxRequests
      /\ Len(sent) \in Nat /\ probe \in ProbeMemory /\ policy \in ProbePolicy
  BY DEF Begin, CheckScope, CheckIdentity, Outside, ProbeInv, ProbeTypeOK, ProbesAuthorized
<1>2. CASE Begin
  <2>1. PICK at \in {"hop", "denied"} : probe.at = "begin" /\ probe' = [probe EXCEPT !.at = at]
    BY <1>2 DEF Begin, Go
  <2>2. probe' \in ProbeMemory /\ probe'.at = at /\ probe'.hop = probe.hop
    BY <1>1, <2>1 DEF ProbeMemory
  <2>3. Cleared'
    BY <1>1, <2>1, <2>2 DEF ProbeInv, Cleared, Sending
  <2> QED BY <1>1, <2>2, <2>3, JobMoves
<1>3. CASE CheckScope
  <2>1. CASE Permitted(policy, probe.url, probe.method)
    <3>1. probe.at = "hop" /\ probe' = [probe EXCEPT !.at = "scoped", !.read = policy]
      BY <1>3, <2>1 DEF CheckScope, CurrentPolicy
    <3>2. /\ probe' \in ProbeMemory /\ probe'.at = "scoped" /\ probe'.read = policy
          /\ probe'.hop = probe.hop /\ probe'.url = probe.url /\ probe'.method = probe.method
      BY <1>1, <3>1 DEF ProbeMemory, Sending
    <3>3. Permitted(probe.read, probe.url, probe.method)'
      BY <2>1, <3>2 DEF Permitted, InScope
    <3>4. Cleared'
      BY <1>1, <3>1, <3>2, <3>3 DEF ProbeInv, Cleared, Recorded, Sending
    <3> QED BY <1>1, <3>2, <3>4, JobMoves
  <2>2. CASE ~Permitted(policy, probe.url, probe.method)
    <3>1. probe' = [probe EXCEPT !.at = "denied"]
      BY <1>3, <2>2 DEF CheckScope, CurrentPolicy
    <3>2. probe' \in ProbeMemory /\ probe'.at = "denied"
      BY <1>1, <3>1 DEF ProbeMemory
    <3> QED BY <1>1, <3>2, JobMoves DEF Cleared, Sending
  <2> QED BY <2>1, <2>2
<1>4. CASE CheckIdentity
  <2>1. PICK at \in {"identified", "denied"} :
          /\ probe.at = "scoped" /\ probe' = [probe EXCEPT !.at = at]
          /\ at = "identified" => agentIdentity \/ ~probe.agent
    BY <1>4 DEF CheckIdentity, Go
  <2>2. /\ probe' \in ProbeMemory /\ probe'.at = at /\ probe'.hop = probe.hop /\ probe'.read = probe.read
        /\ probe'.url = probe.url /\ probe'.method = probe.method /\ probe'.agent = probe.agent
    BY <1>1, <2>1 DEF ProbeMemory, Sending
  <2>3. Cleared'
    BY <1>1, <2>1, <2>2 DEF ProbeInv, Cleared, Recorded, Sending, Permitted, InScope
  <2> QED BY <1>1, <2>2, <2>3, JobMoves
<1> QED
  BY <1>2, <1>3, <1>4

LEMMA ReserveKeeps ==
  ASSUME ProbeAssumption, ProbeInv, ReserveRequest
  PROVE  ProbeInv'
<1>1. /\ UNCHANGED <<policy, agentIdentity, since, sent>> /\ spent \in Nat /\ spent <= MaxRequests
      /\ Len(sent) \in Nat /\ probe \in ProbeMemory /\ Len(sent) <= spent /\ probe.at = "identified"
  BY DEF ReserveRequest, ProbeInv, ProbeTypeOK, ProbesAuthorized
<1>2. CASE HasCapacity /\ FitsTable
  <2>1. probe' = [probe EXCEPT !.at = "reserved"] /\ spent' = spent + 1
    BY <1>2 DEF ReserveRequest, Go
  <2>2. spent < MaxRequests
    <3>1. probe.read \in ProbePolicy
      BY <1>1 DEF ProbeMemory
    <3>2. MaxRequests \in Nat /\ Quota[probe.read] \in Nat
      BY <3>1 DEF ProbeAssumption
    <3> QED BY <1>1, <1>2, <3>2 DEF HasCapacity, Least
  <2>3. /\ probe' \in ProbeMemory /\ probe'.at = "reserved" /\ probe'.hop = probe.hop /\ probe'.read = probe.read
        /\ probe'.url = probe.url /\ probe'.method = probe.method /\ probe'.agent = probe.agent
    BY <1>1, <2>1 DEF ProbeMemory, Sending
  <2>4. Cleared'
    BY <1>1, <2>1, <2>3 DEF ProbeInv, Cleared, Sending, Permitted, InScope
  <2>5. spent' \in Nat /\ spent <= spent' /\ spent' <= MaxRequests
    BY <1>1, <2>1, <2>2 DEF ProbeAssumption
  <2> QED BY <1>1, <2>3, <2>4, <2>5, JobMoves
<1>3. CASE ~(HasCapacity /\ FitsTable)
  <2>1. PICK at \in {"refused", "denied"} : probe' = [probe EXCEPT !.at = at] /\ spent' = spent
    BY <1>3 DEF ReserveRequest, Go
  <2>2. probe' \in ProbeMemory /\ probe'.at = at
    BY <1>1, <2>1 DEF ProbeMemory
  <2>3. Cleared'
    BY <2>2 DEF Cleared, Sending
  <2> QED BY <1>1, <2>1, <2>2, <2>3, JobMoves
<1> QED
  BY <1>2, <1>3

LEMMA SendKeeps ==
  ASSUME ProbeAssumption, ProbeInv, Send
  PROVE  ProbeInv'
<1> DEFINE r == [url |-> probe.url, method |-> probe.method, read |-> probe.read,
                 since |-> since.policies, usable |-> since.usable \/ ~probe.agent]
<1>1. /\ UNCHANGED <<policy, agentIdentity, spent>> /\ probe.at = "reserved"
      /\ sent' = Append(sent, r) /\ since' = [policies |-> {policy}, usable |-> agentIdentity]
      /\ probe' = [probe EXCEPT !.at = "sent"]
  BY DEF Send, Go
<1>2. probe \in ProbeMemory /\ sent \in Seq(SentRecord) /\ spent \in Nat
      /\ since.policies \in SUBSET ProbePolicy /\ since.usable \in BOOLEAN
  BY DEF ProbeInv, ProbeTypeOK
<1>3. r \in SentRecord
  BY <1>2 DEF ProbeMemory, SentRecord
<1>4. /\ r.usable /\ \E p \in r.since : Permitted(p, r.url, r.method)
      /\ Len(sent) = probe.hop /\ probe.hop < MaxHops /\ Len(sent) + 1 <= spent
  BY <1>1 DEF ProbeInv, Cleared, Sending
<1> HIDE DEF r
<1>5. /\ sent' \in Seq(SentRecord) /\ Len(sent') = Len(sent) + 1
      /\ \A i \in 1..Len(sent') : sent'[i] = IF i <= Len(sent) THEN sent[i] ELSE r
  BY <1>1, <1>2, <1>3
<1>6. /\ probe' \in ProbeMemory /\ probe'.at = "sent" /\ probe'.hop = probe.hop
  BY <1>1, <1>2 DEF ProbeMemory
<1>7. ProbeTypeOK' /\ Recorded' /\ Cleared'
  BY <1>1, <1>2, <1>4, <1>5, <1>6 DEF ProbeInv, ProbeTypeOK, Recorded, Cleared, Sending
<1>8. ProbesAuthorized'
  <2>1. ASSUME NEW i \in 1..Len(sent')
        PROVE  (\E p \in sent'[i].since : Permitted(p, sent'[i].url, sent'[i].method)) /\ sent'[i].usable
    <3>1. CASE i <= Len(sent)
      <4>1. i \in 1..Len(sent) /\ sent'[i] = sent[i]
        BY <1>2, <1>5, <3>1
      <4> QED BY <4>1 DEF ProbeInv, ProbesAuthorized
    <3>2. CASE ~(i <= Len(sent))
      <4>1. sent'[i] = r
        BY <1>5, <3>2
      <4> QED BY <1>4, <4>1
    <3> QED BY <3>1, <3>2
  <2>2. Len(sent') <= MaxHops /\ Len(sent') <= spent' /\ spent' <= MaxRequests
    BY <1>1, <1>2, <1>4, <1>5, SMTT(30) DEF ProbeInv, ProbesAuthorized, ProbeMemory, ProbeAssumption
  <2> QED
    BY <2>1, <2>2 DEF ProbesAuthorized, Permitted, InScope
<1> QED
  BY <1>7, <1>8 DEF ProbeInv

LEMMA AnswerKeeps ==
  ASSUME ProbeAssumption, ProbeInv, Answered
  PROVE  ProbeInv'
<1>1. /\ UNCHANGED <<policy, agentIdentity, since, sent, spent>> /\ spent \in Nat /\ spent <= MaxRequests
      /\ Len(sent) \in Nat /\ probe \in ProbeMemory /\ MaxHops \in Nat
      /\ Len(sent) = probe.hop + 1 /\ probe.hop < MaxHops
  <2>1. UNCHANGED <<policy, agentIdentity, since, sent, spent>> /\ probe.at = "sent"
    BY ZenonT(30) DEF Answered, Outside
  <2>2. spent \in Nat /\ spent <= MaxRequests /\ Len(sent) \in Nat /\ probe \in ProbeMemory /\ MaxHops \in Nat
    BY DEF ProbeAssumption, ProbeInv, ProbeTypeOK, ProbesAuthorized
  <2> QED BY <2>1, <2>2 DEF ProbeInv, Cleared
<1>2. CASE \E at \in {"failed", "done", "denied"} : probe' = [probe EXCEPT !.at = at]
  <2>1. PICK at \in {"failed", "done", "denied"} : probe' = [probe EXCEPT !.at = at]
    BY <1>2
  <2>2. probe' \in ProbeMemory /\ probe'.at = at
    BY <1>1, <2>1 DEF ProbeMemory
  <2>3. Cleared'
    BY <2>2 DEF Cleared, Sending
  <2> QED BY <1>1, <2>2, <2>3, JobMoves
<1>3. CASE \E location \in Url, method \in Methods :
             probe.hop + 1 # MaxHops
             /\ probe' = [probe EXCEPT !.at = "hop", !.hop = probe.hop + 1, !.url = location, !.method = method]
  <2>1. PICK location \in Url, method \in Methods :
             probe.hop + 1 # MaxHops
             /\ probe' = [probe EXCEPT !.at = "hop", !.hop = probe.hop + 1, !.url = location, !.method = method]
    BY <1>3
  <2>2. probe' \in ProbeMemory /\ probe'.at = "hop" /\ probe'.hop = probe.hop + 1
    BY <1>1, <2>1 DEF ProbeMemory
  <2>3. Cleared'
    BY <1>1, <2>1, <2>2 DEF Cleared, Sending, ProbeMemory
  <2> QED BY <1>1, <2>2, <2>3, JobMoves
<1>4. \A status \in {301, 302, 303, 307, 308} : MethodAfter(status) \in Methods
  BY <1>1 DEF MethodAfter, ProbeMemory, Methods
<1> QED
  BY <1>2, <1>3, <1>4, ZenonT(40) DEF Answered, Go

\* Each request of a probe, through all its redirects and whatever changes meanwhile,
\* was permitted by a policy in force since the one before it, by an agent only with an
\* identity usable then, and was paid for first; the audit never pays more than its cap.
THEOREM ProbesStayAuthorized ==
  ASSUME ProbeAssumption
  PROVE  ProbeSpec => []ProbesAuthorized
<1>1. ProbeInit => ProbeInv
  <2> SUFFICES ASSUME ProbeInit PROVE ProbeInv
    OBVIOUS
  <2>1. probe \in ProbeMemory /\ probe.at = "begin" /\ probe.hop = 0
    BY DEF ProbeInit, ProbeMemory, Methods
  <2>2. sent = <<>> /\ sent \in Seq(SentRecord) /\ Len(sent) = 0
    BY DEF ProbeInit
  <2>3. ProbeTypeOK /\ Recorded
    BY <2>1, <2>2 DEF ProbeInit, ProbeTypeOK, Recorded
  <2>4. Cleared
    BY <2>1, <2>2 DEF ProbeAssumption, Cleared, Sending
  <2>5. ProbesAuthorized
    BY <2>2 DEF ProbeInit, ProbeAssumption, ProbesAuthorized
  <2> QED BY <2>3, <2>4, <2>5 DEF ProbeInv
<1>2. ProbeInv /\ [ProbeNext]_probeVars => ProbeInv'
  <2> SUFFICES ASSUME ProbeInv, [ProbeNext]_probeVars PROVE ProbeInv'
    OBVIOUS
  <2>1. CASE UNCHANGED probeVars
    BY <2>1 DEF probeVars, ProbeInv, ProbeTypeOK, Recorded, Cleared, ProbesAuthorized, Permitted, InScope
  <2> QED
    BY <2>1, OutsideKeeps, ChecksKeep, ReserveKeeps, SendKeeps, AnswerKeeps DEF ProbeNext
<1>3. ProbeInv => ProbesAuthorized
  BY DEF ProbeInv
<1> QED
  BY <1>1, <1>2, <1>3, PTL DEF ProbeSpec
-----------------------------------------------------------------------------
(***************************************************************************)
(* Proofs about FindingRecords: an attempt that found its candidate new     *)
(* still owes the identity an occurrence between the write of the finding   *)
(* and the count, so that the audits that were counted are those that have  *)
(* the finding and owe nothing.                                             *)
(***************************************************************************)

\* Attempts of one job do not overlap: the lease outlasts every attempt.
NoOverlap == FindingAssumption /\ ~Overlap

Pick(S) == CHOOSE f \in S : TRUE
InHand(w) == Pick(normalizing[w].todo)
Owes(w, f) == normalizing[w].at = "written" /\ ~normalizing[w].known /\ InHand(w) = f

\* What an attempt remembers is still so: its candidate has an identity, has the finding
\* once that was written, and does not have it yet when the attempt saw none.
CandidateOK(w) ==
  /\ normalizing[w].at \in {"identified", "looked", "written"} =>
       normalizing[w].todo # {} /\ identity[InHand(w)].exists
  /\ normalizing[w].at = "looked" /\ ~normalizing[w].known => <<w[1], InHand(w)>> \notin finding
  /\ normalizing[w].at = "written" => <<w[1], InHand(w)>> \in finding

OneAttempt ==
  \A v, w \in Attempt :
    v[1] = w[1] /\ normalizing[v].at # "none" /\ normalizing[w].at # "none" => v = w

FoundBy(f) == {a \in Audit : <<a, f>> \in finding}
Owing(f) == {a \in Audit : \E w \in Attempt : w[1] = a /\ Owes(w, f)}
Counted(f) == FoundBy(f) \ Owing(f)

FindingsInv ==
  /\ FindingsTypeOK
  /\ \A w \in Attempt : CandidateOK(w)
  /\ OneAttempt
  /\ \A f \in Fingerprint : identity[f].occurrences <= Cardinality(Counted(f))
  /\ \A p \in finding : identity[p[2]].exists

Records == [exists : BOOLEAN, occurrences : Nat]
Memories == [at : Position, todo : SUBSET ToolPrint, known : BOOLEAN]
-----------------------------------------------------------------------------
LEMMA PickIsMember == ASSUME NEW S, S # {} PROVE Pick(S) \in S
BY DEF Pick

LEMMA CurrentInHand == \A w : Current(w) = InHand(w)
BY DEF Current, InHand, Pick

LEMMA CountedFinite ==
  ASSUME FindingAssumption, NEW f
  PROVE  IsFiniteSet(Counted(f)) /\ IsFiniteSet(FoundBy(f))
<1>1. Counted(f) \subseteq Audit /\ FoundBy(f) \subseteq Audit
  BY DEF Counted, FoundBy
<1> QED BY <1>1, FS_Subset DEF FindingAssumption

\* The bound on a counter is kept when the counter stays and no audit is lost.
LEMMA MoreCounted ==
  ASSUME FindingAssumption, NEW f, NEW n \in Nat, NEW m \in Nat,
         n <= Cardinality(Counted(f)), m = n, Counted(f) \subseteq Counted(f)'
  PROVE  m <= Cardinality(Counted(f)')
<1>1. Counted(f)' \subseteq Audit
  BY DEF Counted, FoundBy
<1>2. IsFiniteSet(Counted(f)')
  BY <1>1, FS_Subset DEF FindingAssumption
<1>3. Cardinality(Counted(f)) <= Cardinality(Counted(f)')
        /\ Cardinality(Counted(f)) \in Nat /\ Cardinality(Counted(f)') \in Nat
  BY <1>2, FS_Subset, FS_CardinalityType, CountedFinite
<1> QED BY <1>3

LEMMA FindingsInitially == ASSUME NoOverlap, FindingsInit PROVE FindingsInv
<1> USE DEF FindingsInit, NoOverlap, FindingAssumption
<1>1. FindingsTypeOK
  BY DEF FindingsTypeOK, Unknown, Resting, Position
<1>2. (\A w \in Attempt : CandidateOK(w)) /\ OneAttempt
  BY DEF CandidateOK, OneAttempt, Resting
<1>3. ASSUME NEW f \in Fingerprint PROVE identity[f].occurrences <= Cardinality(Counted(f))
  <2>1. Cardinality(Counted(f)) \in Nat
    BY CountedFinite, FS_CardinalityType
  <2> QED BY <2>1, <1>3 DEF Unknown
<1> QED BY <1>1, <1>2, <1>3 DEF FindingsInv
-----------------------------------------------------------------------------
(* One lemma to each action. *)

LEMMA ClaimFinding ==
  ASSUME NoOverlap, FindingsInv, NEW a \in Audit, ClaimNormalize(a)
  PROVE  FindingsInv'
<1> USE DEF NoOverlap
<1> DEFINE v == <<a, claims[a] + 1>>
<1>t. FindingsTypeOK /\ claims[a] + 1 \in 1..Claims /\ Reported[a] \in SUBSET ToolPrint
  BY DEF FindingsInv, FindingsTypeOK, ClaimNormalize, FindingAssumption, ToolPrint
<1>v. v \in Attempt /\ v[1] = a
  BY <1>t DEF Attempt
<1>1. \A w \in Attempt : normalizing'[w] =
         IF w = v THEN [Resting EXCEPT !.at = "next", !.todo = Reported[a]]
         ELSE IF w[1] = a THEN Resting ELSE normalizing[w]
  BY <1>t DEF ClaimNormalize, FindingsTypeOK, FindingAssumption
<1>2. /\ DOMAIN normalizing' = Attempt /\ normalizing' = [w \in Attempt |-> normalizing'[w]]
      /\ normalizing'[v] = [at |-> "next", todo |-> Reported[a], known |-> FALSE]
      /\ \A w \in Attempt : w # v /\ w[1] = a => normalizing'[w] = Resting
      /\ \A w \in Attempt : w[1] # a => normalizing'[w] = normalizing[w]
  BY <1>1, <1>v DEF ClaimNormalize, Resting
<1> HIDE DEF v
<1>3. claims' \in [Audit -> 0..Claims]
  BY <1>t DEF FindingsTypeOK, ClaimNormalize
<1>4. normalizing' \in [Attempt -> Memories]
  <2>1. ASSUME NEW w \in Attempt PROVE normalizing'[w] \in Memories
    <3>1. CASE w = v
      <4>1. [at |-> "next", todo |-> Reported[a], known |-> FALSE] \in Memories
        BY <1>t DEF Memories, Position
      <4>2. normalizing'[v] = [at |-> "next", todo |-> Reported[a], known |-> FALSE]
        BY <1>2
      <4> QED BY ONLY <4>1, <4>2, <3>1
    <3>2. CASE w # v /\ w[1] = a
      <4>1. Resting \in Memories
        BY DEF Memories, Position, Resting
      <4> QED BY <4>1, <3>2, <1>2
    <3>3. CASE w[1] # a
      BY <3>3, <1>2, <1>t DEF FindingsTypeOK, Memories
    <3> QED BY <3>1, <3>2, <3>3
  <2> QED BY <2>1, <1>2
<1>5. FindingsTypeOK'
  BY <1>3, <1>4, <1>t DEF FindingsTypeOK, ClaimNormalize, Memories
<1>6. ASSUME NEW w \in Attempt PROVE CandidateOK(w)'
  <2>1. CASE w[1] # a
    BY <2>1, <1>2 DEF CandidateOK, InHand, FindingsInv, ClaimNormalize
  <2>2. CASE w[1] = a
    BY <2>2, <1>2 DEF CandidateOK, Resting
  <2> QED BY <2>1, <2>2
<1>7. OneAttempt'
  BY <1>2, <1>v DEF OneAttempt, FindingsInv, Resting
<1>8. ASSUME NEW f \in Fingerprint PROVE (identity[f].occurrences <= Cardinality(Counted(f)))'
  <2>1. \A w \in Attempt : Owes(w, f)' => Owes(w, f)
    BY <1>2 DEF Owes, InHand, Resting
  <2>2. Counted(f) \subseteq Counted(f)'
    BY <2>1 DEF Counted, FoundBy, Owing, ClaimNormalize
  <2>3. identity[f].occurrences \in Nat
    BY <1>t DEF FindingsTypeOK
  <2>4. identity'[f].occurrences = identity[f].occurrences
    BY DEF ClaimNormalize
  <2> QED BY <2>2, <2>3, <2>4, MoreCounted DEF FindingsInv
<1>9. (\A p \in finding : identity[p[2]].exists)'
  BY DEF FindingsInv, ClaimNormalize
<1> QED BY <1>5, <1>6, <1>7, <1>8, <1>9 DEF FindingsInv

\* A step of attempt w of one audit that leaves the others and its list alone.
OnlyMoves(w, pos) ==
  /\ normalizing' \in [Attempt -> Memories]
  /\ \A v \in Attempt : v # w => normalizing'[v] = normalizing[v]
  /\ normalizing'[w].at = pos /\ normalizing'[w].todo = normalizing[w].todo

LEMMA MoveOnly ==
  ASSUME FindingsTypeOK, NEW w \in Attempt, NEW pos \in Position, Move(w, pos)
  PROVE  OnlyMoves(w, pos) /\ normalizing'[w].known = normalizing[w].known
<1>1. normalizing[w] \in Memories
  BY DEF FindingsTypeOK, Memories
<1>2. normalizing'[w] \in Memories /\ normalizing'[w].at = pos
        /\ normalizing'[w].todo = normalizing[w].todo /\ normalizing'[w].known = normalizing[w].known
  BY <1>1 DEF Memories, Move, FindingsTypeOK
<1>3. normalizing' \in [Attempt -> Memories]
  BY <1>2 DEF Move, FindingsTypeOK, Memories
<1> QED BY <1>2, <1>3 DEF OnlyMoves, Move, FindingsTypeOK

\* While attempt w goes on, no other attempt of its audit is under way.
LEMMA StillOne ==
  ASSUME FindingsInv, NEW w \in Attempt, normalizing[w].at # "none",
         \A v \in Attempt : v # w => normalizing'[v] = normalizing[v]
  PROVE  OneAttempt'
BY DEF FindingsInv, OneAttempt

LEMMA InTools ==
  ASSUME FindingsInv, NEW w \in Attempt, normalizing[w].todo # {}
  PROVE  InHand(w) \in normalizing[w].todo /\ InHand(w) \in ToolPrint /\ InHand(w) \in Fingerprint
BY PickIsMember DEF InHand, FindingsInv, FindingsTypeOK, Fingerprint

LEMMA UpsertIdentityKeeps ==
  ASSUME NoOverlap, FindingsInv, NEW w \in Attempt, UpsertIdentity(w)
  PROVE  FindingsInv'
<1> DEFINE f == InHand(w)
<1>0. FindingsTypeOK /\ Current(w) = f /\ normalizing[w].at = "next" /\ normalizing[w].todo # {}
  BY CurrentInHand DEF FindingsInv, UpsertIdentity
<1>1. OnlyMoves(w, "identified")
  BY <1>0, MoveOnly DEF UpsertIdentity, Position
<1>f. f \in Fingerprint
  BY <1>0, InTools
<1> HIDE DEF f
<1>2. /\ identity' \in [Fingerprint -> Records] /\ identity'[f].exists
      /\ \A g \in Fingerprint : /\ identity'[g].occurrences = identity[g].occurrences
                                /\ identity[g].exists => identity'[g].exists
  <2>1. identity \in [Fingerprint -> Records] /\ identity' = [identity EXCEPT ![f].exists = TRUE]
    BY <1>0 DEF FindingsTypeOK, UpsertIdentity, Records
  <2> QED BY <2>1, <1>f DEF Records
<1>3. FindingsTypeOK'
  BY <1>0, <1>1, <1>2 DEF FindingsTypeOK, UpsertIdentity, OnlyMoves, Unchanged, Memories, Records
<1>4. ASSUME NEW v \in Attempt PROVE CandidateOK(v)'
  <2>1. CASE v = w
    <3>1. InHand(w)' = f
      BY <1>1 DEF InHand, OnlyMoves, f
    <3> QED BY <2>1, <3>1, <1>1, <1>2, <1>0 DEF CandidateOK, OnlyMoves
  <2>2. CASE v # w
    <3>1. normalizing'[v] = normalizing[v] /\ CandidateOK(v)
      BY <2>2, <1>1 DEF OnlyMoves, FindingsInv
    <3>2. normalizing[v].at \in {"identified", "looked", "written"} => InHand(v) \in Fingerprint
      BY <3>1, InTools DEF CandidateOK
    <3> QED BY <3>1, <3>2, <1>2 DEF CandidateOK, InHand, UpsertIdentity
  <2> QED BY <2>1, <2>2
<1>5. OneAttempt'
  BY <1>0, <1>1, StillOne DEF OnlyMoves
<1>6. ASSUME NEW g \in Fingerprint PROVE (identity[g].occurrences <= Cardinality(Counted(g)))'
  <2>1. \A v \in Attempt : Owes(v, g)' => Owes(v, g)
    BY <1>1 DEF Owes, InHand, OnlyMoves
  <2>2. Counted(g) \subseteq Counted(g)'
    BY <2>1 DEF Counted, FoundBy, Owing, UpsertIdentity
  <2>3. identity[g].occurrences \in Nat
    BY <1>0 DEF FindingsTypeOK
  <2> QED BY <2>2, <2>3, <1>2, MoreCounted DEF FindingsInv, NoOverlap
<1>7. (\A p \in finding : identity[p[2]].exists)'
  BY <1>2, <1>0 DEF FindingsInv, UpsertIdentity, FindingsTypeOK
<1> QED BY <1>3, <1>4, <1>5, <1>6, <1>7 DEF FindingsInv

LEMMA LookUpKeeps ==
  ASSUME NoOverlap, FindingsInv, NEW w \in Attempt, LookUp(w)
  PROVE  FindingsInv'
<1> DEFINE f == InHand(w)
           seen == <<w[1], f>> \in finding
<1>0. FindingsTypeOK /\ Current(w) = f /\ normalizing[w].at = "identified" /\ seen \in BOOLEAN
        /\ CandidateOK(w)
  BY CurrentInHand DEF FindingsInv, LookUp
<1>1. /\ normalizing[w] \in Memories
      /\ normalizing' = [normalizing EXCEPT ![w].at = "looked", ![w].known = seen]
  BY <1>0 DEF FindingsTypeOK, Memories, LookUp
<1> HIDE DEF f, seen
<1>2. /\ normalizing'[w] \in Memories /\ normalizing'[w].at = "looked"
      /\ normalizing'[w].todo = normalizing[w].todo /\ normalizing'[w].known = seen
  BY <1>0, <1>1 DEF Memories, Position, FindingsTypeOK
<1>3. OnlyMoves(w, "looked")
  <2>1. normalizing \in [Attempt -> Memories]
    BY <1>0 DEF FindingsTypeOK, Memories
  <2>2. \A v \in Attempt : v # w => normalizing'[v] = normalizing[v]
    BY <1>1, <2>1
  <2>3. normalizing' \in [Attempt -> Memories]
    <3>1. DOMAIN normalizing' = Attempt /\ normalizing' = [v \in Attempt |-> normalizing'[v]]
      BY <1>1, <2>1
    <3>2. \A v \in Attempt : normalizing'[v] \in Memories
      BY <2>1, <2>2, <1>2
    <3> QED BY <3>1, <3>2
  <2> QED BY <1>2, <2>2, <2>3 DEF OnlyMoves
<1>4. FindingsTypeOK'
  BY <1>0, <1>3 DEF FindingsTypeOK, LookUp, OnlyMoves, Unchanged, Memories
<1>5. ASSUME NEW v \in Attempt PROVE CandidateOK(v)'
  <2>1. CASE v = w
    <3>1. InHand(w)' = f
      BY <1>3 DEF InHand, OnlyMoves, f
    <3>2. <<w[1], f>> \in finding <=> seen
      BY DEF seen
    <3> QED BY <2>1, <3>1, <3>2, <1>2, <1>0 DEF CandidateOK, LookUp, f
  <2>2. CASE v # w
    BY <2>2, <1>3 DEF OnlyMoves, FindingsInv, CandidateOK, InHand, LookUp
  <2> QED BY <2>1, <2>2
<1>6. OneAttempt'
  BY <1>0, <1>3, StillOne DEF OnlyMoves
<1>7. ASSUME NEW g \in Fingerprint PROVE (identity[g].occurrences <= Cardinality(Counted(g)))'
  <2>1. \A v \in Attempt : Owes(v, g)' => Owes(v, g)
    BY <1>3 DEF Owes, InHand, OnlyMoves
  <2>2. Counted(g) \subseteq Counted(g)'
    BY <2>1 DEF Counted, FoundBy, Owing, LookUp
  <2>3. identity[g].occurrences \in Nat /\ identity' = identity
    BY <1>0 DEF FindingsTypeOK, LookUp
  <2> QED BY <2>2, <2>3, MoreCounted DEF FindingsInv, NoOverlap
<1>8. (\A p \in finding : identity[p[2]].exists)'
  BY DEF FindingsInv, LookUp
<1> QED BY <1>4, <1>5, <1>6, <1>7, <1>8 DEF FindingsInv

LEMMA UpsertFindingKeeps ==
  ASSUME NoOverlap, FindingsInv, NEW w \in Attempt, UpsertFinding(w)
  PROVE  FindingsInv'
<1> DEFINE f == InHand(w)
<1>0. FindingsTypeOK /\ Current(w) = f /\ normalizing[w].at = "looked" /\ CandidateOK(w)
  BY CurrentInHand DEF FindingsInv, UpsertFinding
<1>1. OnlyMoves(w, "written") /\ normalizing'[w].known = normalizing[w].known
  BY <1>0, MoveOnly DEF UpsertFinding, Position
<1>f. f \in Fingerprint /\ w[1] \in Audit /\ identity[f].exists
  BY <1>0, InTools DEF Attempt, CandidateOK
<1>h. InHand(w)' = f
  BY <1>1 DEF InHand, OnlyMoves
<1>2. finding' = finding \cup {<<w[1], f>>} /\ identity' = identity
  BY <1>0 DEF UpsertFinding
<1>3. FindingsTypeOK'
  BY <1>0, <1>1, <1>2, <1>f DEF FindingsTypeOK, UpsertFinding, OnlyMoves, Unchanged, Memories
<1>4. ASSUME NEW v \in Attempt PROVE CandidateOK(v)'
  <2>1. CASE v = w
    BY <2>1, <1>h, <1>0, <1>1, <1>2, <1>f DEF CandidateOK, OnlyMoves
  <2>2. CASE v # w
    <3>1. normalizing'[v] = normalizing[v] /\ CandidateOK(v) /\ InHand(v)' = InHand(v)
      BY <2>2, <1>1 DEF OnlyMoves, FindingsInv, InHand
    <3>2. normalizing[v].at = "looked" => v[1] # w[1]
      BY <2>2, <1>0 DEF FindingsInv, OneAttempt
    <3> QED BY <3>1, <3>2, <1>2 DEF CandidateOK
  <2> QED BY <2>1, <2>2
<1>5. OneAttempt'
  BY <1>0, <1>1, StillOne DEF OnlyMoves
<1>6. ASSUME NEW g \in Fingerprint PROVE (identity[g].occurrences <= Cardinality(Counted(g)))'
  <2>1. \A v \in Attempt : Owes(v, g)' =>
          Owes(v, g) \/ (v = w /\ g = f /\ ~normalizing[w].known)
    BY <1>1, <1>h DEF Owes, InHand, OnlyMoves
  <2>2. ~normalizing[w].known => <<w[1], f>> \notin finding
    BY <1>0 DEF CandidateOK
  <2>3. Counted(g) \subseteq Counted(g)'
    BY <2>1, <2>2, <1>2 DEF Counted, FoundBy, Owing
  <2>4. identity[g].occurrences \in Nat
    BY <1>0 DEF FindingsTypeOK
  <2> QED BY <2>3, <2>4, <1>2, MoreCounted DEF FindingsInv, NoOverlap
<1>7. (\A p \in finding : identity[p[2]].exists)'
  BY <1>2, <1>f DEF FindingsInv
<1> QED BY <1>3, <1>4, <1>5, <1>6, <1>7 DEF FindingsInv


LEMMA RestingWith ==
  ASSUME NEW T \in SUBSET ToolPrint
  PROVE  /\ [Resting EXCEPT !.at = "next", !.todo = T] \in Memories
         /\ [Resting EXCEPT !.at = "next", !.todo = T].at = "next"
BY DEF Resting, Memories, Position

LEMMA CountKeeps ==
  ASSUME NoOverlap, FindingsInv, NEW w \in Attempt, CountOccurrence(w)
  PROVE  FindingsInv'
<1> DEFINE f == InHand(w)
           rest == normalizing[w].todo \ {f}
           done == [Resting EXCEPT !.at = "next", !.todo = rest]
<1>0. FindingsTypeOK /\ Current(w) = f /\ normalizing[w].at = "written" /\ CandidateOK(w)
  BY CurrentInHand DEF FindingsInv, CountOccurrence
<1>f. f \in Fingerprint /\ w[1] \in Audit /\ <<w[1], f>> \in finding /\ finding' = finding
  BY <1>0, InTools DEF Attempt, CandidateOK, CountOccurrence
<1>d. normalizing' = [normalizing EXCEPT ![w] = done] /\ done \in Memories /\ done.at = "next"
  <2>1. rest \in SUBSET ToolPrint
    BY <1>0 DEF FindingsTypeOK
  <2> QED BY <2>1, <1>0, RestingWith DEF CountOccurrence
<1>k. identity' = IF ~normalizing[w].known THEN [identity EXCEPT ![f].occurrences = @ + 1] ELSE identity
  BY <1>0 DEF CountOccurrence, NewOccurrence
<1> HIDE DEF f
<1>1. /\ normalizing' \in [Attempt -> Memories] /\ normalizing'[w].at = "next"
      /\ \A v \in Attempt : v # w => normalizing'[v] = normalizing[v]
  <2> HIDE DEF done
  <2>1. normalizing \in [Attempt -> Memories]
    BY <1>0 DEF FindingsTypeOK, Memories
  <2> QED BY <2>1, <1>d
<1>2. /\ identity' \in [Fingerprint -> Records]
      /\ \A g \in Fingerprint : /\ identity'[g].exists = identity[g].exists
                                /\ g # f => identity'[g].occurrences = identity[g].occurrences
      /\ ~normalizing[w].known => identity'[f].occurrences = identity[f].occurrences + 1
      /\ normalizing[w].known => identity'[f].occurrences = identity[f].occurrences
  <2>1. identity \in [Fingerprint -> Records]
    BY <1>0 DEF FindingsTypeOK, Records
  <2> QED BY <2>1, <1>k, <1>f DEF Records
<1>3. FindingsTypeOK'
  BY <1>0, <1>1, <1>2, <1>f DEF FindingsTypeOK, CountOccurrence, Unchanged, Memories, Records
<1>4. ASSUME NEW v \in Attempt PROVE CandidateOK(v)'
  <2>1. CASE v = w
    BY <2>1, <1>1 DEF CandidateOK
  <2>2. CASE v # w
    <3>1. normalizing'[v] = normalizing[v] /\ CandidateOK(v)
      BY <2>2, <1>1 DEF FindingsInv
    <3>2. normalizing[v].at \in {"identified", "looked", "written"} => InHand(v) \in Fingerprint
      BY <3>1, InTools DEF CandidateOK
    <3> QED BY <3>1, <3>2, <1>2, <1>f DEF CandidateOK, InHand
  <2> QED BY <2>1, <2>2
<1>5. OneAttempt'
  BY <1>0, <1>1, StillOne
<1>6. ASSUME NEW g \in Fingerprint PROVE (identity[g].occurrences <= Cardinality(Counted(g)))'
  <2>1. \A v \in Attempt : Owes(v, g)' => Owes(v, g) /\ v[1] # w[1]
    <3>1. SUFFICES ASSUME NEW v \in Attempt, Owes(v, g)' PROVE Owes(v, g) /\ v[1] # w[1]
      OBVIOUS
    <3>2. v # w
      BY <3>1, <1>1 DEF Owes
    <3>3. Owes(v, g)
      BY <3>1, <3>2, <1>1 DEF Owes, InHand
    <3> QED BY <3>2, <3>3, <1>0 DEF FindingsInv, OneAttempt, Owes
  <2>2. Counted(g) \subseteq Counted(g)'
    BY <2>1, <1>f DEF Counted, FoundBy, Owing
  <2>3. identity[g].occurrences \in Nat /\ identity[g].occurrences <= Cardinality(Counted(g))
    BY <1>0 DEF FindingsTypeOK, FindingsInv
  <2>4. CASE g # f \/ normalizing[w].known
    BY <2>2, <2>3, <2>4, <1>2, MoreCounted DEF NoOverlap
  <2>5. CASE g = f /\ ~normalizing[w].known
    \* The audit of w owed this occurrence and does not any more.
    <3>1. Owes(w, g)
      BY <2>5, <1>0 DEF Owes, f
    <3>2. w[1] \notin Counted(g) /\ w[1] \in Counted(g)'
      BY <3>1, <2>1, <2>5, <1>f DEF Counted, Owing, FoundBy
    <3>3. Counted(g) \cup {w[1]} \subseteq Counted(g)' /\ Counted(g)' \subseteq Audit
      BY <2>2, <3>2 DEF Counted, FoundBy
    <3>4. IsFiniteSet(Counted(g)) /\ IsFiniteSet(Counted(g)')
      BY <3>3, CountedFinite, FS_Subset DEF NoOverlap, FindingAssumption
    <3>5. Cardinality(Counted(g) \cup {w[1]}) = Cardinality(Counted(g)) + 1
      BY <3>2, <3>4, FS_AddElement
    <3>6. /\ Cardinality(Counted(g) \cup {w[1]}) <= Cardinality(Counted(g)')
          /\ Cardinality(Counted(g)) \in Nat /\ Cardinality(Counted(g)') \in Nat
      BY <3>3, <3>4, FS_Subset, FS_CardinalityType
    <3> QED BY <3>5, <3>6, <2>3, <2>5, <1>2
  <2> QED BY <2>4, <2>5
<1>7. (\A p \in finding : identity[p[2]].exists)'
  BY <1>2, <1>f, <1>0 DEF FindingsInv, FindingsTypeOK
<1> QED BY <1>3, <1>4, <1>5, <1>6, <1>7 DEF FindingsInv

\* A call of an agent leaves what attempts remember and the scan's findings alone.
LEMMA AgentKeeps ==
  ASSUME NoOverlap, FindingsInv, NEW a \in Audit, NEW r \in Role, NEW c \in Category,
         NEW outcome \in {"finding", "passed", "blocked"},
         Calling, Cover(a, r, c, outcome), degraded' \in [Audit -> BOOLEAN],
         \/ UNCHANGED <<identity, finding>>
         \/ \E g \in AgentPrint :
              /\ identity' = [identity EXCEPT ![g] = IF @.exists THEN @ ELSE [exists |-> TRUE, occurrences |-> 1]]
              /\ finding' = finding \cup {<<a, g>>}
  PROVE  FindingsInv'
<1>0. FindingsTypeOK /\ normalizing' = normalizing /\ claims' = claims
  BY DEF FindingsInv, Calling
<1>1. coverage' \in [Audit -> [Role -> [Category -> {"none", "finding", "passed", "blocked"}]]]
  <2> DEFINE Outcome == {"none", "finding", "passed", "blocked"}
             Row == [Role -> [Category -> Outcome]]
  <2>1. coverage[a] \in Row /\ outcome \in Outcome /\ coverage \in [Audit -> Row]
    BY <1>0 DEF FindingsTypeOK
  <2>2. [coverage[a] EXCEPT ![r][c] = outcome] \in Row
    <3>1. coverage[a][r] \in [Category -> Outcome]
      BY <2>1
    <3> HIDE DEF Outcome
    <3>2. [coverage[a][r] EXCEPT ![c] = outcome] \in [Category -> Outcome]
      BY <3>1, <2>1
    <3> QED BY <3>2, <2>1
  <2>3. coverage' = [coverage EXCEPT ![a] = [coverage[a] EXCEPT ![r][c] = outcome]]
    BY <2>1 DEF Cover
  <2> HIDE DEF Row
  <2>4. coverage' \in [Audit -> Row]
    BY <2>1, <2>2, <2>3
  <2> QED BY <2>4 DEF Row
<1>2. CASE UNCHANGED <<identity, finding>>
  <2>1. FindingsTypeOK'
    BY <1>0, <1>1, <1>2 DEF FindingsTypeOK, Calling, NoOverlap, FindingAssumption
  <2>2. \A g : Counted(g)' = Counted(g)
    BY <1>0, <1>2 DEF Counted, FoundBy, Owing, Owes, InHand
  <2>3. (\A w \in Attempt : CandidateOK(w))' /\ OneAttempt' /\ (\A p \in finding : identity[p[2]].exists)'
    BY <1>0, <1>2 DEF FindingsInv, CandidateOK, OneAttempt, InHand
  <2>4. \A g \in Fingerprint : identity'[g].occurrences <= Cardinality(Counted(g)')
    BY <2>2, <1>2 DEF FindingsInv
  <2> QED BY <2>1, <2>3, <2>4 DEF FindingsInv
<1>3. ASSUME NEW g \in AgentPrint,
             identity' = [identity EXCEPT ![g] = IF @.exists THEN @ ELSE [exists |-> TRUE, occurrences |-> 1]],
             finding' = finding \cup {<<a, g>>}
      PROVE  FindingsInv'
  <2>1. g \in Fingerprint /\ g \notin ToolPrint
    BY DEF Fingerprint, NoOverlap, FindingAssumption
  <2>2. /\ identity' \in [Fingerprint -> Records] /\ identity'[g].exists
        /\ \A h \in Fingerprint : h # g => identity'[h] = identity[h]
        /\ identity[g].exists => identity'[g] = identity[g]
        /\ ~identity[g].exists => identity'[g].occurrences = 1
    <3>1. identity \in [Fingerprint -> Records] /\ [exists |-> TRUE, occurrences |-> 1] \in Records
      BY <1>0 DEF FindingsTypeOK, Records
    <3>2. identity[g] \in Records
      BY <3>1, <2>1
    <3>3. identity' \in [Fingerprint -> Records]
      BY <3>1, <3>2, <1>3
    <3> QED BY <3>1, <3>2, <3>3, <2>1, <1>3
  <2>3. FindingsTypeOK'
    BY <1>0, <1>1, <1>3, <2>1, <2>2 DEF FindingsTypeOK, Calling, NoOverlap, FindingAssumption, Records
  <2>4. ASSUME NEW w \in Attempt PROVE CandidateOK(w)'
    <3>1. CandidateOK(w) /\ InHand(w)' = InHand(w)
      BY <1>0 DEF FindingsInv, InHand
    <3>2. normalizing[w].at \in {"identified", "looked", "written"} =>
            InHand(w) \in Fingerprint /\ InHand(w) # g
      BY <3>1, <2>1, InTools DEF CandidateOK
    <3> QED BY <3>1, <3>2, <2>2, <1>0, <1>3 DEF CandidateOK
  <2>5. OneAttempt'
    BY <1>0 DEF FindingsInv, OneAttempt
  <2>6. ASSUME NEW h \in Fingerprint PROVE (identity[h].occurrences <= Cardinality(Counted(h)))'
    <3>1. Owing(h)' = Owing(h)
      BY <1>0 DEF Owing, Owes, InHand
    <3>2. Counted(h) \subseteq Counted(h)'
      BY <3>1, <1>3 DEF Counted, FoundBy
    <3>3. identity[h].occurrences \in Nat /\ identity[h].occurrences <= Cardinality(Counted(h))
      BY <1>0 DEF FindingsTypeOK, FindingsInv
    <3>4. CASE h # g \/ identity[g].exists
      BY <3>2, <3>3, <3>4, <2>2, MoreCounted DEF NoOverlap
    <3>5. CASE h = g /\ ~identity[g].exists
      <4>1. \A w \in Attempt : ~Owes(w, g)
        BY <2>1, InTools DEF Owes, FindingsInv, CandidateOK
      <4>2. a \in Counted(g)' /\ Counted(g)' \subseteq Audit
        BY <4>1, <3>1, <3>5, <1>3 DEF Counted, Owing, FoundBy
      <4>3. IsFiniteSet(Counted(g)')
        BY <4>2, FS_Subset DEF NoOverlap, FindingAssumption
      <4>4. Cardinality(Counted(g)') \in Nat /\ Cardinality(Counted(g)') # 0
        BY <4>2, <4>3, FS_CardinalityType, FS_EmptySet
      <4> QED BY <4>4, <3>5, <2>2
    <3> QED BY <3>4, <3>5
  <2>7. (\A p \in finding : identity[p[2]].exists)'
    BY <1>0, <1>3, <2>2 DEF FindingsInv, FindingsTypeOK
  <2> QED BY <2>3, <2>4, <2>5, <2>6, <2>7 DEF FindingsInv
<1> QED BY <1>2, <1>3

LEMMA FindingsStep ==
  ASSUME NoOverlap, FindingsInv, [FindingsNext]_findingVars
  PROVE  FindingsInv'
<1>1. ASSUME NEW a \in Audit, ClaimNormalize(a) PROVE FindingsInv'
  BY <1>1, ClaimFinding
<1>2. ASSUME NEW w \in Attempt, UpsertIdentity(w) \/ LookUp(w) \/ UpsertFinding(w) \/ CountOccurrence(w)
      PROVE  FindingsInv'
  BY <1>2, UpsertIdentityKeeps, LookUpKeeps, UpsertFindingKeeps, CountKeeps
<1>t. FindingsTypeOK
  BY DEF FindingsInv
<1>3. ASSUME NEW a \in Audit, NEW r \in Role, NEW g \in AgentPrint, CreateFinding(a, r, g)
      PROVE  FindingsInv'
  <2>1. CategoryOf[g] \in Category
    BY DEF Category
  <2> QED BY <2>1, <1>3, <1>t, AgentKeeps DEF CreateFinding, FindingsTypeOK
<1>4. ASSUME NEW a \in Audit, NEW r \in Role, NEW c \in Category, RecordPassingCheck(a, r, c)
      PROVE  FindingsInv'
  BY <1>4, <1>t, AgentKeeps DEF RecordPassingCheck, FindingsTypeOK
<1>5. ASSUME NEW a \in Audit, NEW r \in Role, NEW c \in Category, ReportBlocked(a, r, c)
      PROVE  FindingsInv'
  BY <1>5, <1>t, AgentKeeps DEF ReportBlocked, FindingsTypeOK
<1>6. CASE UNCHANGED findingVars
  BY <1>6 DEF findingVars, FindingsInv, FindingsTypeOK, CandidateOK, OneAttempt, Counted,
              FoundBy, Owing, Owes, InHand
<1> QED BY <1>1, <1>2, <1>3, <1>4, <1>5, <1>6 DEF FindingsNext

\* Retries count no occurrence twice, and no finding lacks its identity, whatever the
\* audits, the fingerprints and the number of attempts (findings.service persist and
\* the agents' create_finding).
THEOREM OccurrencesCountOnce ==
  ASSUME NoOverlap PROVE FindingsSpec => []NeverCountedTwice
<1>1. FindingsInit => FindingsInv
  BY FindingsInitially
<1>2. FindingsInv /\ [FindingsNext]_findingVars => FindingsInv'
  BY FindingsStep
<1>3. FindingsInv => NeverCountedTwice
  <2>1. SUFFICES ASSUME FindingsInv, NEW f \in Fingerprint
                 PROVE  identity[f].occurrences <= Occurrences(f)
    BY DEF NeverCountedTwice, FindingsInv
  <2>2. IsFiniteSet(FoundBy(f)) /\ IsFiniteSet(Counted(f)) /\ Counted(f) \subseteq FoundBy(f)
    BY CountedFinite DEF NoOverlap, Counted
  <2>3. /\ Cardinality(Counted(f)) <= Cardinality(FoundBy(f))
        /\ Cardinality(Counted(f)) \in Nat /\ Cardinality(FoundBy(f)) \in Nat
    BY <2>2, FS_Subset, FS_CardinalityType
  <2>4. identity[f].occurrences \in Nat /\ identity[f].occurrences <= Cardinality(Counted(f))
    BY <2>1 DEF FindingsInv, FindingsTypeOK
  <2> QED BY <2>3, <2>4 DEF Occurrences, FoundBy
<1> QED BY <1>1, <1>2, <1>3, PTL DEF FindingsSpec
-----------------------------------------------------------------------------
(***************************************************************************)
(* Proofs about Correlation. The fingerprint of a match names its root: a   *)
(* finding that joins finds its deepest candidates at that symbol only, so  *)
(* that findings merged in any order agree on it.                           *)
(***************************************************************************)

\* Every route is a static one, or names the handler and the place of one.
RoutesOK ==
  \A r \in routes : /\ r.id \in 1..InputLimit /\ r.handler \in DOMAIN Graphs
                    /\ r.handler \in {s.handler : s \in Static}

\* Finding w is at the root of the matches with fingerprint f.
AtRoot(w, f) == w.counts /\ f[4] \in w.symbols /\ w.rule = f[2] /\ w.cwe = f[3]

\* All findings of match f are at its root and traced to it.
Grounded(f) ==
  /\ merged[f].scanned # {}
  /\ \A w \in merged[f].scanned : AtRoot(w, f) /\ \E b \in merged[f].probed : w \in Together(b)
  /\ \A b \in merged[f].probed :
       Joined(b) /\ MatchFingerprint(b) = f /\ Together(b) \subseteq merged[f].scanned

CorrelationInv ==
  /\ RoutesOK /\ scanned \subseteq Scanned
  /\ \A f \in DOMAIN merged : Grounded(f)
  /\ joined = UNION {merged[f].probed \cup merged[f].scanned : f \in DOMAIN merged}
-----------------------------------------------------------------------------
\* Of places in an input, one is the last.
LEMMA LastPlace ==
  ASSUME NEW S, S # {}, \A x \in S : x.id \in 1..InputLimit
  PROVE  \E x \in S : \A y \in S : y.id <= x.id
<1> DEFINE R == OpToRel(<, Nat)
           T == {InputLimit - x.id : x \in S}
<1>1. IsWellFoundedOn(R, Nat)
  BY NatLessThanWellFounded
<1>2. \A x, y \in Nat : y < x => <<y, x>> \in R
  <2>1. R = {ss \in Nat \X Nat : ss[1] < ss[2]}
    BY Zenon DEF OpToRel
  <2> HIDE DEF R
  <2> QED BY <2>1
<1>3. T \subseteq Nat /\ T # {}
  <2>1. ASSUME NEW x \in S PROVE InputLimit - x.id \in Nat
    <3>1. InputLimit \in Nat
      BY DEF InputLimit
    <3>2. x.id \in Nat /\ x.id <= InputLimit
      BY <3>1
    <3> QED BY <3>1, <3>2
  <2> QED BY <2>1
<1> HIDE DEF R, T
<1>4. PICK m \in T : \A n \in T : m <= n
  BY <1>1, <1>2, <1>3, LeastOf
<1>5. PICK x \in S : m = InputLimit - x.id
  BY <1>4 DEF T
<1>6. ASSUME NEW y \in S PROVE y.id <= x.id
  <2>1. InputLimit - y.id \in T
    BY DEF T
  <2>2. InputLimit - x.id <= InputLimit - y.id
    BY <1>4, <1>5, <2>1
  <2>3. x.id \in Int /\ y.id \in Int
    OBVIOUS
  <2> QED BY <2>2, <2>3 DEF InputLimit
<1> QED BY <1>6

\* Of a finding that joins, the routes reach one handler and RouteOf is one of them.
LEMMA JoinedRoute ==
  ASSUME CorrelationAssumption, RoutesOK, NEW b, Joined(b)
  PROVE  RouteOf(b) \in ResolveRoutes(b.path)
<1>1. Cardinality(Handlers(b)) = 1
  BY DEF Joined, Located
<1>2. Handlers(b) # {}
  BY <1>1, FS_EmptySet
<1>3. ResolveRoutes(b.path) # {} /\ \A r \in ResolveRoutes(b.path) : r \in routes
  BY <1>2 DEF Handlers, ResolveRoutes
<1>4. \A r \in ResolveRoutes(b.path) : r.id \in 1..InputLimit
  BY <1>3 DEF RoutesOK
<1>5. \E r \in ResolveRoutes(b.path) : \A s \in ResolveRoutes(b.path) : s.id <= r.id
  BY <1>3, <1>4, LastPlace
<1> QED BY <1>5 DEF RouteOf

\* The handlers that may answer are those of static routes, of which there are finitely many.
LEMMA FiniteHandlers ==
  ASSUME CorrelationAssumption, RoutesOK, NEW b
  PROVE  IsFiniteSet(Handlers(b))
<1> DEFINE f == [s \in Static |-> s.handler]
           H == {s.handler : s \in Static}
<1>1. IsFiniteSet(Static)
  BY DEF CorrelationAssumption
<1>2. f \in Surjection(Static, H)
  BY DEF Surjection
<1>3. Handlers(b) \subseteq H
  BY DEF Handlers, ResolveRoutes, RoutesOK
<1> HIDE DEF f, H
<1>4. IsFiniteSet(H)
  BY <1>1, <1>2, FS_Surjection
<1> QED BY <1>3, <1>4, FS_Subset

LEMMA RankIs == ASSUME NEW x PROVE Rank(x) \in {0, 1, 2}
BY DEF Rank

LEMMA RanksOrdered ==
  ASSUME NEW m \in {0, 1, 2}, NEW n \in {0, 1, 2}, ~(m < n)
  PROVE  n <= m
OBVIOUS

\* The handler that a finding that joins is traced to answers in place of any other.
LEMMA JoinedHandler ==
  ASSUME CorrelationAssumption, RoutesOK, NEW b, Joined(b)
  PROVE  HandlerOf(b) \in DOMAIN Graphs /\ Answers(HandlerOf(b), b.path)
<1>1. RouteOf(b) \in ResolveRoutes(b.path)
  BY JoinedRoute
<1>2. PICK h : Handlers(b) = {h}
  <2>1. Cardinality(Handlers(b)) = 1
    BY DEF Joined, Located
  <2> QED BY <2>1, FiniteHandlers, FS_Singleton
<1>3. HandlerOf(b) = h /\ \A r \in ResolveRoutes(b.path) : r.handler = h
  BY <1>2 DEF HandlerOf, Handlers
<1>4. /\ RouteOf(b) \in routes /\ Matches(RouteOf(b), b.path)
      /\ \A q \in routes : Matches(q, b.path) => Specificity(q) <= Specificity(RouteOf(b))
  BY <1>1 DEF ResolveRoutes
<1>5. ASSUME NEW q \in routes, Matches(q, b.path), q.handler # h PROVE Yields(q, RouteOf(b))
  <2>1. Specificity(q) <= Specificity(RouteOf(b))
    BY <1>4, <1>5
  <2>2. ASSUME Specificity(q) = Specificity(RouteOf(b)), ~(Rank(RouteOf(b).source) < Rank(q.source)) PROVE FALSE
    <3>1. Rank(q.source) <= Rank(RouteOf(b).source)
      BY <2>2, RankIs, RanksOrdered
    <3> DEFINE C == {r \in routes : Matches(r, b.path)}
               B == {r \in C : \A s \in C : Specificity(s) <= Specificity(r)}
    <3>2. ResolveRoutes(b.path) = {r \in B : \A s \in B : Rank(r.source) <= Rank(s.source)}
      BY DEF ResolveRoutes
    <3>3. q \in B
      BY <1>4, <1>5, <2>2
    <3> HIDE DEF B
    <3>4. \A s \in B : Rank(RouteOf(b).source) <= Rank(s.source)
      BY <1>1, <3>2
    <3>5. \A s \in B : Rank(q.source) <= Rank(s.source)
      <4> SUFFICES ASSUME NEW s \in B PROVE Rank(q.source) <= Rank(s.source)
        OBVIOUS
      <4> DEFINE m == Rank(q.source)
                 n == Rank(RouteOf(b).source)
                 k == Rank(s.source)
      <4>1. m \in {0, 1, 2} /\ n \in {0, 1, 2} /\ k \in {0, 1, 2} /\ m <= n /\ n <= k
        BY <3>1, <3>4, RankIs
      <4> HIDE DEF m, n, k
      <4>2. m <= k
        BY <4>1
      <4> QED BY <4>2 DEF m, k
    <3>6. q \in ResolveRoutes(b.path)
      BY <3>2, <3>3, <3>5
    <3> QED BY <1>3, <1>5, <3>6
  <2> QED BY <2>1, <2>2 DEF Yields
<1>6. RouteOf(b).handler = h /\ h \in DOMAIN Graphs
  BY <1>1, <1>3, <1>4 DEF RoutesOK
<1> QED BY <1>3, <1>4, <1>5, <1>6 DEF Answers

\* The deepest candidates of a finding that joins are at one symbol.
LEMMA JoinedRoot ==
  ASSUME CorrelationAssumption, RoutesOK, scanned \subseteq Scanned, NEW b, Joined(b)
  PROVE  /\ Together(b) # {} /\ \A w \in Together(b) : AtRoot(w, MatchFingerprint(b)) /\ Fits(b, w)
         /\ MatchFingerprint(b)[4] \in DOMAIN GraphOf(b).depth
         /\ \A q \in Candidates(b) : DepthOf(b, q) <= GraphOf(b).depth[MatchFingerprint(b)[4]]
<1> DEFINE D == DOMAIN GraphOf(b).depth
<1>1. /\ Deepest(b) \subseteq Candidates(b) /\ Candidates(b) \subseteq Scanned \X D
      /\ \A p \in Candidates(b) : Fits(b, p[1]) /\ p[2] \in p[1].symbols
      /\ \A p \in Deepest(b) : \A q \in Candidates(b) : DepthOf(b, q) <= DepthOf(b, p)
  BY DEF Deepest, Candidates
<1>2. Cardinality(Roots(b)) = 1
  BY DEF Joined
<1>3. Deepest(b) # {}
  <2>1. Deepest(b) = {} => Roots(b) = {}
    BY DEF Roots
  <2> QED BY <1>2, <2>1, FS_EmptySet
<1>4. IsFiniteSet(Deepest(b))
  <2>1. IsFiniteSet(Scanned) /\ IsFiniteSet(D)
    BY JoinedHandler DEF CorrelationAssumption, GraphOf
  <2>2. Deepest(b) \subseteq Scanned \X D
    BY <1>1
  <2> HIDE DEF D
  <2>3. IsFiniteSet(Scanned \X D)
    BY <2>1, FS_Product
  <2> QED BY <2>2, <2>3, FS_Subset
<1>5. IsFiniteSet(Roots(b))
  <2> DEFINE f == [p \in Deepest(b) |-> <<p[2], p[1].rule, p[1].cwe>>]
  <2>1. f \in [Deepest(b) -> Roots(b)] /\ \A x \in Roots(b) : \E p \in Deepest(b) : f[p] = x
    BY DEF Roots
  <2> HIDE DEF f
  <2>2. f \in Surjection(Deepest(b), Roots(b))
    BY <2>1 DEF Surjection
  <2> QED BY <1>4, <2>2, FS_Surjection
<1>6. PICK x : Roots(b) = {x}
  BY <1>2, <1>5, FS_Singleton
<1>7. \A p \in Deepest(b) : <<p[2], p[1].rule, p[1].cwe>> = x
  BY <1>6 DEF Roots
<1>8. \A p \in Deepest(b) : p[2] = x[1] /\ p[1].rule = x[2] /\ p[1].cwe = x[3]
  BY <1>7
<1>9. /\ MatchFingerprint(b)[4] = x[1] /\ MatchFingerprint(b)[2] = x[2] /\ MatchFingerprint(b)[3] = x[3]
  <2>1. (CHOOSE y \in Roots(b) : TRUE) = x
    BY <1>6
  <2> QED BY <2>1 DEF MatchFingerprint
<1>10. Together(b) # {} /\ \A w \in Together(b) : \E p \in Deepest(b) : w = p[1]
  BY <1>3 DEF Together
<1>11. ASSUME NEW w \in Together(b) PROVE AtRoot(w, MatchFingerprint(b)) /\ Fits(b, w)
  <2>1. PICK p \in Deepest(b) : w = p[1]
    BY <1>10
  <2>2. Fits(b, w) /\ w.counts
    BY <1>1, <2>1 DEF Fits
  <2> QED BY <1>1, <1>8, <1>9, <2>1, <2>2 DEF AtRoot
<1>12. PICK p \in Deepest(b) : TRUE
  BY <1>3
<1>13. p[2] \in D /\ p[2] = MatchFingerprint(b)[4]
  BY <1>1, <1>8, <1>9
<1> QED BY <1>1, <1>10, <1>11, <1>12, <1>13 DEF DepthOf

\* A documented path has the handler and the place of a static route.
LEMMA DocumentedRoutes ==
  ASSUME CorrelationAssumption, NEW static \in SUBSET Static, NEW document
  PROVE  \A r \in IngestOpenApi(document, static) :
           /\ r.id \in 1..InputLimit /\ r.handler \in DOMAIN Graphs
           /\ r.handler \in {s.handler : s \in Static}
<1> SUFFICES ASSUME NEW r \in IngestOpenApi(document, static)
             PROVE  /\ r.id \in 1..InputLimit /\ r.handler \in DOMAIN Graphs
                    /\ r.handler \in {s.handler : s \in Static}
  OBVIOUS
<1> DEFINE Bound(path) == {s \in static : s.path = path}
           Last(path) == CHOOSE s \in Bound(path) : \A t \in Bound(path) : t.id <= s.id
<1>1. PICK path \in document : /\ Cardinality({s.handler : s \in Bound(path)}) = 1
                               /\ r = [Last(path) EXCEPT !.source = "openapi"]
  BY DEF IngestOpenApi
<1>2. Bound(path) # {}
  <2>1. SUFFICES ASSUME Bound(path) = {} PROVE FALSE
    OBVIOUS
  <2> HIDE DEF Bound
  <2>2. {s.handler : s \in Bound(path)} = {}
    BY <2>1
  <2>3. Cardinality({s.handler : s \in Bound(path)}) = 0
    BY <2>2, FS_EmptySet
  <2> QED BY <1>1, <2>3
<1>3. \A s \in Bound(path) : s \in Static /\ s.id \in 1..InputLimit
  BY DEF CorrelationAssumption
<1>4. Last(path) \in Static
  <2>1. \E s \in Bound(path) : \A t \in Bound(path) : t.id <= s.id
    BY <1>2, <1>3, LastPlace
  <2> QED BY <1>3, <2>1
<1>5. PICK s \in Static : s = Last(path)
  BY <1>4
<1>6. r = [s EXCEPT !.source = "openapi"]
  BY <1>1, <1>5
<1>7. r.id = s.id /\ r.handler = s.handler
  BY <1>6 DEF CorrelationAssumption
<1> QED BY <1>7 DEF CorrelationAssumption

LEMMA CorrelationInitial == CorrelationAssumption /\ CorrelationInit => CorrelationInv
<1> SUFFICES ASSUME CorrelationAssumption, CorrelationInit PROVE CorrelationInv
  OBVIOUS
<1>1. PICK static \in SUBSET Static, document \in Documents : routes = static \cup IngestOpenApi(document, static)
  BY DEF CorrelationInit
<1>2. RoutesOK
  BY <1>1, DocumentedRoutes DEF RoutesOK, CorrelationAssumption
<1>3. DOMAIN merged = {} /\ joined = {} /\ scanned \subseteq Scanned
  BY DEF CorrelationInit
<1> QED BY <1>2, <1>3 DEF CorrelationInv

\* What is known of a finding depends on the inputs only, which do not change.
LEMMA InputsStay ==
  ASSUME routes' = routes, scanned' = scanned
  PROVE  /\ RoutesOK' <=> RoutesOK
         /\ \A b : /\ Joined(b)' <=> Joined(b)
                   /\ MatchFingerprint(b)' = MatchFingerprint(b)
                   /\ Together(b)' = Together(b)
BY DEF RoutesOK, Joined, Located, Handlers, HandlerOf, GraphOf, ResolveRoutes, RouteOf, Roots, Deepest,
       DepthOf, Together, Candidates, Fits, MatchFingerprint

\* A finding that joins brings the match of its fingerprint findings at its root.
LEMMA CorrelateKeeps ==
  ASSUME CorrelationAssumption, CorrelationInv, NEW b \in todo, Correlate(b)
  PROVE  CorrelationInv'
<1>1. routes' = routes /\ scanned' = scanned /\ probed' = probed
  BY DEF Correlate
<1>2. /\ RoutesOK' /\ scanned' \subseteq Scanned
      /\ \A c : /\ Joined(c)' <=> Joined(c)
                /\ MatchFingerprint(c)' = MatchFingerprint(c)
                /\ Together(c)' = Together(c)
  BY <1>1, InputsStay DEF CorrelationInv
<1>3. CASE ~Joined(b)
  BY <1>1, <1>2, <1>3 DEF Correlate, CorrelationInv, Grounded
<1>4. CASE Joined(b)
  <2> DEFINE f == MatchFingerprint(b)
             prior == IF f \in DOMAIN merged THEN merged[f] ELSE [probed |-> {}, scanned |-> {}]
  <2>1. /\ merged' = [g \in DOMAIN merged \cup {f} |-> IF g = f THEN Extended(prior, b) ELSE merged[g]]
        /\ joined' = joined \cup {b} \cup Together(b)
    BY <1>4 DEF Correlate
  <2>2. /\ Together(b) # {}
        /\ \A w \in Together(b) : AtRoot(w, f)
    BY <1>4, JoinedRoot DEF CorrelationInv
  <2>3. /\ \A w \in prior.scanned : AtRoot(w, f) /\ \E c \in prior.probed : w \in Together(c)
        /\ \A c \in prior.probed : Joined(c) /\ MatchFingerprint(c) = f /\ Together(c) \subseteq prior.scanned
    BY DEF CorrelationInv, Grounded
  <2>4. /\ joined = UNION {merged[g].probed \cup merged[g].scanned : g \in DOMAIN merged}
        /\ \A g \in DOMAIN merged : Grounded(g)
    BY DEF CorrelationInv
  <2>5. prior.probed \cup prior.scanned \subseteq joined
    BY <2>4
  <2> DEFINE new == Extended(prior, b)
  <2>6. /\ new.probed = prior.probed \cup {b}
        /\ new.scanned = prior.scanned \cup Together(b)
    BY DEF Extended
  <2>7. prior = IF f \in DOMAIN merged THEN merged[f] ELSE [probed |-> {}, scanned |-> {}]
    OBVIOUS
  <2>8. f = MatchFingerprint(b)
    OBVIOUS
  <2> HIDE DEF f, prior, new
  <2>9. /\ DOMAIN merged' = DOMAIN merged \cup {f} /\ merged'[f] = new
        /\ \A g \in DOMAIN merged \ {f} : merged'[g] = merged[g]
    BY <2>1 DEF new
  <2>10. \A g \in DOMAIN merged' : Grounded(g)'
    <3>1. SUFFICES ASSUME NEW g \in DOMAIN merged' PROVE Grounded(g)'
      OBVIOUS
    <3>2. CASE g = f
      <4>1. merged'[g].probed = prior.probed \cup {b} /\ merged'[g].scanned = prior.scanned \cup Together(b)
        BY <2>6, <2>9, <3>2
      <4>2. Joined(b) /\ MatchFingerprint(b) = g
        BY <1>4, <2>8, <3>2
      <4>3. /\ merged'[g].scanned # {}
            /\ \A w \in merged'[g].scanned :
                 AtRoot(w, g) /\ \E c \in merged'[g].probed : w \in Together(c)'
        BY <1>2, <2>2, <2>3, <3>2, <4>1
      <4>4. \A c \in merged'[g].probed :
              Joined(c) /\ MatchFingerprint(c) = g /\ Together(c) \subseteq merged'[g].scanned
        BY <2>3, <3>2, <4>1, <4>2
      <4>5. \A c \in merged'[g].probed :
              Joined(c)' /\ MatchFingerprint(c)' = g /\ Together(c)' \subseteq merged'[g].scanned
        BY <1>2, <4>4
      <4> QED BY <4>3, <4>5 DEF Grounded
    <3>3. CASE g # f
      <4>1. g \in DOMAIN merged /\ merged'[g] = merged[g]
        BY <2>9, <3>1, <3>3
      <4> QED BY <1>2, <2>4, <4>1 DEF Grounded
    <3> QED BY <3>2, <3>3
  <2>12. joined' = UNION {merged'[g].probed \cup merged'[g].scanned : g \in DOMAIN merged'}
    <3> DEFINE Held(g) == merged[g].probed \cup merged[g].scanned
               HeldNext(g) == merged'[g].probed \cup merged'[g].scanned
    <3>1. HeldNext(f) = prior.probed \cup prior.scanned \cup {b} \cup Together(b)
      BY <2>6, <2>9
    <3>2. \A g \in DOMAIN merged \ {f} : HeldNext(g) = Held(g)
      BY <2>9
    <3>3. f \in DOMAIN merged => Held(f) = prior.probed \cup prior.scanned
      BY <2>7
    <3>4. joined = UNION {Held(g) : g \in DOMAIN merged}
      BY <2>4
    <3> HIDE DEF Held, HeldNext
    <3>5. \A x \in joined' : \E g \in DOMAIN merged' : x \in HeldNext(g)
      <4> SUFFICES ASSUME NEW x \in joined' PROVE \E g \in DOMAIN merged' : x \in HeldNext(g)
        OBVIOUS
      <4>1. CASE x \in {b} \cup Together(b)
        BY <4>1, <2>9, <3>1
      <4>2. CASE x \in joined
        <5>1. PICK g \in DOMAIN merged : x \in Held(g)
          BY <4>2, <3>4
        <5> QED BY <5>1, <2>9, <3>1, <3>2, <3>3
      <4> QED BY <2>1, <4>1, <4>2
    <3>6. \A g \in DOMAIN merged' : HeldNext(g) \subseteq joined'
      <4> SUFFICES ASSUME NEW g \in DOMAIN merged' PROVE HeldNext(g) \subseteq joined'
        OBVIOUS
      <4>1. CASE g = f
        BY <4>1, <2>1, <2>5, <3>1
      <4>2. CASE g # f
        BY <4>2, <2>1, <2>9, <3>2, <3>4
      <4> QED BY <4>1, <4>2
    <3>7. joined' = UNION {HeldNext(g) : g \in DOMAIN merged'}
      BY <3>5, <3>6
    <3> QED BY <3>7 DEF HeldNext
  <2> QED BY <1>2, <2>10, <2>12 DEF CorrelationInv
<1> QED BY <1>3, <1>4

\* The invariant says of each match what the property says.
LEMMA GroundedJoins == ASSUME CorrelationAssumption, CorrelationInv PROVE JoinsAreGrounded
<1>1. ASSUME NEW f \in DOMAIN merged, NEW b \in merged[f].probed
      PROVE  /\ b.counts /\ HandlerOf(b) \in DOMAIN Graphs /\ Answers(HandlerOf(b), b.path)
             /\ ~Graphs[HandlerOf(b)].truncated /\ f[4] \in DOMAIN Graphs[HandlerOf(b)].depth
             /\ \A v \in scanned : \A t \in v.symbols \cap DOMAIN Graphs[HandlerOf(b)].depth :
                  Fits(b, v) => Graphs[HandlerOf(b)].depth[t] <= Graphs[HandlerOf(b)].depth[f[4]]
  <2>1. Joined(b) /\ MatchFingerprint(b) = f
    BY DEF CorrelationInv, Grounded
  <2>2. b.counts /\ ~GraphOf(b).truncated
    BY <2>1 DEF Joined, Located
  <2>3. /\ f[4] \in DOMAIN GraphOf(b).depth
        /\ \A q \in Candidates(b) : DepthOf(b, q) <= GraphOf(b).depth[f[4]]
    BY <2>1, JoinedRoot DEF CorrelationInv
  <2>4. ASSUME NEW v \in scanned, NEW t \in v.symbols \cap DOMAIN GraphOf(b).depth, Fits(b, v)
        PROVE  GraphOf(b).depth[t] <= GraphOf(b).depth[f[4]]
    <3>1. <<v, t>> \in Candidates(b)
      BY <2>4 DEF Candidates
    <3> QED BY <2>3, <3>1 DEF DepthOf
  <2> QED BY <2>1, <2>2, <2>3, <2>4, JoinedHandler DEF CorrelationInv, GraphOf
<1>2. ASSUME NEW f \in DOMAIN merged
      PROVE  \E s \in UNION {w.symbols : w \in merged[f].scanned} :
                /\ \A w \in merged[f].scanned : w.counts /\ s \in w.symbols
                /\ \A b \in merged[f].probed : b.counts /\ \E h \in DOMAIN Graphs :
                     /\ Answers(h, b.path) /\ ~Graphs[h].truncated /\ s \in DOMAIN Graphs[h].depth
                     /\ \A v \in scanned : \A t \in v.symbols \cap DOMAIN Graphs[h].depth :
                          Fits(b, v) => Graphs[h].depth[t] <= Graphs[h].depth[s]
  <2>1. \A w \in merged[f].scanned : w.counts /\ f[4] \in w.symbols
    BY DEF CorrelationInv, Grounded, AtRoot
  <2>2. PICK w \in merged[f].scanned : TRUE
    BY DEF CorrelationInv, Grounded
  <2>3. f[4] \in UNION {v.symbols : v \in merged[f].scanned}
    BY <2>1, <2>2
  <2> QED BY <1>1, <2>1, <2>3
<1>3. ASSUME NEW f \in DOMAIN merged
      PROVE  /\ \A v, w \in merged[f].scanned : v.rule = w.rule /\ v.cwe = w.cwe
             /\ \A b \in merged[f].probed, w \in merged[f].scanned :
                  b.cwe = w.cwe \/ Unstated \in {b.cwe, w.cwe}
             /\ \A b \in merged[f].probed : \E w \in merged[f].scanned :
                  <<b.category, w.category>> \in Compatible
             /\ \A w \in merged[f].scanned : \E b \in merged[f].probed :
                  <<b.category, w.category>> \in Compatible
  <2>1. \A w \in merged[f].scanned :
          w.rule = f[2] /\ w.cwe = f[3] /\ \E b \in merged[f].probed : w \in Together(b)
    BY DEF CorrelationInv, Grounded, AtRoot
  <2>2. ASSUME NEW b \in merged[f].probed
        PROVE  /\ Together(b) \subseteq merged[f].scanned /\ Together(b) # {}
               /\ \A w \in Together(b) : Fits(b, w)
    <3>1. Joined(b) /\ Together(b) \subseteq merged[f].scanned
      BY DEF CorrelationInv, Grounded
    <3> QED BY <3>1, JoinedRoot DEF CorrelationInv
  <2>3. ASSUME NEW b \in merged[f].probed
        PROVE  /\ b.cwe = f[3] \/ Unstated \in {b.cwe, f[3]}
               /\ \E w \in merged[f].scanned : <<b.category, w.category>> \in Compatible
    <3>1. PICK w \in Together(b) : w \in merged[f].scanned /\ Fits(b, w)
      BY <2>2
    <3> QED BY <2>1, <3>1 DEF Fits
  <2>4. ASSUME NEW w \in merged[f].scanned
        PROVE  \E b \in merged[f].probed : <<b.category, w.category>> \in Compatible
    BY <2>1, <2>2 DEF Fits
  <2> QED BY <2>1, <2>3, <2>4
<1>4. \A f, g \in DOMAIN merged : f # g => merged[f].probed \cap merged[g].probed = {}
  BY DEF CorrelationInv, Grounded
<1> QED BY <1>2, <1>3, <1>4 DEF CorrelationInv, JoinsAreGrounded

\* Whatever routes, documents, graphs and findings there are and in whatever order the
\* findings come, a match claims one cause that each of its findings is traced to.
THEOREM MatchesHaveOneCause == CorrelationAssumption /\ CorrelationSpec => []JoinsAreGrounded
<1> SUFFICES ASSUME CorrelationAssumption PROVE CorrelationSpec => []JoinsAreGrounded
  OBVIOUS
<1>1. CorrelationInit => CorrelationInv
  BY CorrelationInitial
<1>2. CorrelationInv /\ [CorrelationNext]_correlationVars => CorrelationInv'
  <2> SUFFICES ASSUME CorrelationInv, [CorrelationNext]_correlationVars PROVE CorrelationInv'
    OBVIOUS
  <2>1. CASE CorrelationNext
    BY <2>1, CorrelateKeeps DEF CorrelationNext
  <2>2. CASE UNCHANGED correlationVars
    <3>1. UNCHANGED <<routes, scanned, merged, joined>>
      BY <2>2 DEF correlationVars
    <3> QED BY <3>1, InputsStay DEF CorrelationInv, Grounded
  <2> QED BY <2>1, <2>2
<1>3. CorrelationInv => JoinsAreGrounded
  BY GroundedJoins
<1> QED BY <1>1, <1>2, <1>3, PTL DEF CorrelationSpec
-----------------------------------------------------------------------------
(***************************************************************************)
(* Proofs about SourceGraph. As long as nothing cut the walk short, the     *)
(* queue holds what was found by growing depths, which span at most two     *)
(* values from the cursor on, and every call that was visited is followed.  *)
(* At the end every call was: no chain of calls leaves what was found, nor  *)
(* reaches a method in fewer calls than its depth.                          *)
(***************************************************************************)

GraphTyped ==
  /\ callees \in [Method -> CallLists]
  /\ DOMAIN walk = {"queue", "cursor", "call"}
  /\ walk.queue \in Seq(Method) /\ walk.cursor \in Nat \ {0} /\ walk.call \in Nat \ {0}
  /\ walk.cursor <= Len(walk.queue) + 1
  /\ Found \subseteq Method /\ reached \in [Found -> Nat]
  /\ \A i \in 1..Len(walk.queue) : walk.queue[i] \in Found
  /\ truncated \in BOOLEAN
  /\ codeMap \in {"none", "stored", "refused"}

\* The queue holds what was found, the handler first and by growing depths,
\* which are at most one more than that of the method under the cursor.
QueueInOrder ==
  /\ Len(walk.queue) >= 1 /\ walk.queue[1] = Handler /\ reached[Handler] = 0
  /\ \A m \in Found : \E i \in 1..Len(walk.queue) : walk.queue[i] = m
  /\ \A i, j \in 1..Len(walk.queue) : i <= j => reached[walk.queue[i]] <= reached[walk.queue[j]]
  /\ \A i, j \in 1..Len(walk.queue) : i >= walk.cursor => reached[walk.queue[j]] <= reached[walk.queue[i]] + 1

\* A call that was visited led to a method that is found, at most one deeper.
Followed(m, k) ==
  LET w == callees[m][k] IN w # External => w \in Found /\ reached[w] <= reached[m] + 1
VisitedFollowed ==
  \A i \in 1..Len(walk.queue) : \A k \in 1..Len(callees[walk.queue[i]]) :
    i < walk.cursor \/ (i = walk.cursor /\ k < walk.call) => Followed(walk.queue[i], k)

EachChained == \A m \in Found : Chain(m, reached[m])

GraphInv ==
  /\ GraphTyped
  /\ ~truncated => QueueInOrder /\ VisitedFollowed /\ EachChained
  /\ codeMap = "stored" => ~truncated /\ walk.cursor > Len(walk.queue)

LEMMA ListsTyped ==
  ASSUME GraphAssumption, NEW lists \in [Method -> CallLists], NEW m \in Method
  PROVE  /\ Len(lists[m]) \in Nat
         /\ \A k \in 1..Len(lists[m]) : lists[m][k] \in Method \cup {External}
<1>1. PICK n \in 0..MaxCallsPerMethod : lists[m] \in [1..n -> Method \cup {External}]
  BY DEF CallLists
<1>2. n \in Nat
  BY <1>1 DEF GraphAssumption
<1>3. lists[m] \in Seq(Method \cup {External})
  BY <1>1, <1>2, SeqDef, ZenonT(40)
<1> QED BY <1>3

\* One more call makes a chain one longer.
LEMMA ChainGrows ==
  ASSUME NEW m \in Method, NEW w \in Method, NEW n \in Nat, Chain(m, n), Calls(m, w)
  PROVE  Chain(w, n + 1)
<1>1. PICK c \in [0..n -> Method] :
         c[0] = Handler /\ c[n] = m /\ \A i \in 1..n : Calls(c[i - 1], c[i])
  BY DEF Chain
<1> DEFINE d == [i \in 0..(n + 1) |-> IF i = n + 1 THEN w ELSE c[i]]
<1>2. d \in [0..(n + 1) -> Method]
  BY <1>1
<1>3. d[0] = Handler /\ d[n + 1] = w
  BY <1>1
<1>4. ASSUME NEW i \in 1..(n + 1) PROVE Calls(d[i - 1], d[i])
  <2>1. CASE i = n + 1
    <3>1. d[i - 1] = m /\ d[i] = w
      BY <1>1, <2>1
    <3> QED BY <3>1
  <2>2. CASE i # n + 1
    <3>1. i \in 1..n /\ d[i - 1] = c[i - 1] /\ d[i] = c[i]
      BY <2>2
    <3> QED BY <1>1, <3>1
  <2> QED BY <2>1, <2>2
<1> HIDE DEF d
<1> QED BY <1>2, <1>3, <1>4 DEF Chain

\* Chains are a matter of the calls alone.
LEMMA ChainsStay ==
  ASSUME UNCHANGED callees PROVE \A m, n : Chain(m, n)' <=> Chain(m, n)
<1>1. ASSUME NEW c, NEW n PROVE (\A i \in 1..n : Calls(c[i - 1], c[i])') <=> (\A i \in 1..n : Calls(c[i - 1], c[i]))
  BY DEF Calls
<1> QED BY <1>1, Zenon DEF Chain

LEMMA ChainStart ==
  ASSUME GraphAssumption PROVE Chain(Handler, 0)
<1> DEFINE c == [i \in 0..0 |-> Handler]
<1>1. c \in [0..0 -> Method] /\ c[0] = Handler
  BY DEF GraphAssumption
<1>2. \A i \in 1..0 : Calls(c[i - 1], c[i])
  OBVIOUS
<1> QED BY <1>1, <1>2 DEF Chain

LEMMA GraphBegins ==
  ASSUME GraphAssumption, GraphInit PROVE GraphInv
<1>1. walk = [queue |-> <<Handler>>, cursor |-> 1, call |-> 1] /\ reached = [m \in {Handler} |-> 0]
  BY DEF GraphInit
<1>2. Found = {Handler} /\ reached[Handler] = 0 /\ Handler \in Method
  BY <1>1 DEF Found, GraphAssumption
<1>3. walk.queue = <<Handler>> /\ Len(walk.queue) = 1 /\ walk.queue[1] = Handler /\ walk.cursor = 1 /\ walk.call = 1
  BY <1>1
<1>4. GraphTyped
  <2>1. callees \in [Method -> CallLists] /\ truncated \in BOOLEAN /\ codeMap = "none"
    BY DEF GraphInit
  <2>2. DOMAIN walk = {"queue", "cursor", "call"} /\ walk.queue \in Seq(Method)
    BY <1>1, <1>2
  <2>3. Found \subseteq Method /\ reached \in [Found -> Nat]
    BY <1>1, <1>2
  <2> QED BY <1>2, <1>3, <2>1, <2>2, <2>3 DEF GraphTyped
<1>5. QueueInOrder
  BY <1>2, <1>3 DEF QueueInOrder
<1>6. VisitedFollowed
  <2> SUFFICES ASSUME NEW i \in 1..Len(walk.queue), NEW k \in 1..Len(callees[walk.queue[i]]),
                      i < walk.cursor \/ (i = walk.cursor /\ k < walk.call)
               PROVE  Followed(walk.queue[i], k)
    BY DEF VisitedFollowed
  <2>1. Len(callees[walk.queue[i]]) \in Nat
    BY <1>2, <1>3, <1>4, ListsTyped DEF GraphTyped
  <2> QED BY <1>3, <2>1
<1>7. EachChained
  BY <1>2, ChainStart DEF EachChained
<1> QED BY <1>4, <1>5, <1>6, <1>7 DEF GraphInit, GraphInv

\* A step that lets the queue and the depths alone and visits at most calls that
\* are followed.
LEMMA WalkAdvances ==
  ASSUME GraphAssumption, GraphInv, GraphTyped', ~truncated,
         UNCHANGED <<callees, reached>>, walk'.queue = walk.queue,
         \/ /\ walk'.cursor = walk.cursor /\ walk'.call = walk.call + 1
            /\ walk.cursor <= Len(walk.queue)
            /\ walk.call <= Len(callees[CurrentMethod])
            /\ Followed(CurrentMethod, walk.call)
         \/ /\ walk'.cursor = walk.cursor + 1 /\ walk'.call = 1
            /\ walk.cursor <= Len(walk.queue)
            /\ walk.call > Len(callees[CurrentMethod])
  PROVE  QueueInOrder' /\ VisitedFollowed' /\ EachChained'
<1> USE DEF GraphInv
<1>1. GraphTyped /\ QueueInOrder /\ VisitedFollowed /\ EachChained
  OBVIOUS
<1>t. walk.cursor \in Nat /\ walk.call \in Nat /\ Len(walk.queue) \in Nat /\ walk'.cursor \in Nat
  BY <1>1 DEF GraphTyped
<1>2. Found' = Found
  BY DEF Found
<1>3. EachChained'
  BY <1>1, <1>2, ChainsStay DEF EachChained
<1>4. QueueInOrder'
  <2>1. /\ Len(walk'.queue) >= 1 /\ walk'.queue[1] = Handler /\ reached'[Handler] = 0
        /\ \A m \in Found' : \E i \in 1..Len(walk'.queue) : walk'.queue[i] = m
        /\ \A i, j \in 1..Len(walk'.queue) :
             i <= j => reached'[walk'.queue[i]] <= reached'[walk'.queue[j]]
    BY <1>1, <1>2 DEF QueueInOrder
  <2>3. ASSUME NEW i \in 1..Len(walk'.queue), NEW j \in 1..Len(walk'.queue), i >= walk'.cursor
        PROVE  reached'[walk'.queue[j]] <= reached'[walk'.queue[i]] + 1
    <3>1. i >= walk.cursor
      BY <2>3, <1>t
    <3> QED BY <1>1, <3>1 DEF QueueInOrder
  <2> QED BY <2>1, <2>3 DEF QueueInOrder
<1>5. VisitedFollowed'
  <2> SUFFICES ASSUME NEW i \in 1..Len(walk.queue), NEW k \in 1..Len(callees[walk.queue[i]]),
                      i < walk'.cursor \/ (i = walk'.cursor /\ k < walk'.call)
               PROVE  Followed(walk.queue[i], k)
    BY <1>2, Zenon DEF VisitedFollowed, Followed
  <2>1. walk.queue[i] \in Method
    BY <1>1 DEF GraphTyped
  <2>2. Len(callees[walk.queue[i]]) \in Nat
    BY <1>1, <2>1, ListsTyped DEF GraphTyped
  <2>3. \/ i < walk.cursor \/ (i = walk.cursor /\ k < walk.call)
        \/ i = walk.cursor /\ k = walk.call /\ Followed(CurrentMethod, walk.call)
    BY <1>t, <2>2, SMTT(30) DEF CurrentMethod
  <2>4. CASE i < walk.cursor \/ (i = walk.cursor /\ k < walk.call)
    BY <1>1, <2>4 DEF VisitedFollowed
  <2>5. CASE i = walk.cursor /\ k = walk.call /\ Followed(CurrentMethod, walk.call)
    BY <2>5 DEF CurrentMethod
  <2> QED BY <2>3, <2>4, <2>5
<1> QED BY <1>3, <1>4, <1>5

\* A step that appends a new callee of the current method.
LEMMA WalkGrows ==
  ASSUME GraphAssumption, GraphInv, GraphTyped', ~truncated,
         walk.cursor <= Len(walk.queue), walk.call <= Len(callees[CurrentMethod]),
         NEW w, w = callees[CurrentMethod][walk.call], w \in Method, w \notin Found,
         UNCHANGED callees, walk'.queue = Append(walk.queue, w),
         walk'.cursor = walk.cursor, walk'.call = walk.call + 1,
         reached' = [m \in Found \cup {w} |->
                       IF m = w THEN reached[CurrentMethod] + 1 ELSE reached[m]]
  PROVE  QueueInOrder' /\ VisitedFollowed' /\ EachChained'
<1> USE DEF GraphInv
<1>1. GraphTyped /\ QueueInOrder /\ VisitedFollowed /\ EachChained
  OBVIOUS
<1> DEFINE q == walk.queue
           n == Len(walk.queue)
           c == walk.cursor
           d == reached[CurrentMethod]
<1>t. q \in Seq(Method) /\ n \in Nat /\ c \in Nat /\ c >= 1 /\ c <= n /\ walk.call \in Nat /\ walk.call >= 1
  BY <1>1, SMTT(30) DEF GraphTyped
<1>2. CurrentMethod \in Found /\ CurrentMethod \in Method /\ d \in Nat
  BY <1>1, <1>t DEF CurrentMethod, GraphTyped
<1>3. Found' = Found \cup {w} /\ reached'[w] = d + 1 /\ \A m \in Found : reached'[m] = reached[m]
  BY DEF Found
<1>4. /\ Len(walk'.queue) = n + 1 /\ walk'.queue[n + 1] = w
      /\ \A i \in 1..n : walk'.queue[i] = q[i] /\ q[i] \in Found /\ reached'[q[i]] = reached[q[i]]
  BY <1>1, <1>3, <1>t, SMTT(30) DEF GraphTyped
<1>5. \A m \in Found : reached[m] \in Nat
  BY <1>1 DEF GraphTyped
<1>a. /\ \A i, j \in 1..n : i <= j => reached[q[i]] <= reached[q[j]]
      /\ \A i, j \in 1..n : i >= c => reached[q[j]] <= reached[q[i]] + 1
      /\ \A m \in Found : \E i \in 1..n : q[i] = m
      /\ \A i \in 1..n : reached[q[i]] \in Nat
      /\ q[1] = Handler /\ reached[Handler] = 0 /\ n >= 1
  BY <1>1, <1>4, <1>5 DEF QueueInOrder
<1>b. walk'.cursor = c /\ walk'.call = walk.call + 1 /\ q[c] = CurrentMethod /\ reached[q[c]] = d
      /\ q = walk.queue
  BY DEF CurrentMethod
<1> DEFINE qq == walk'.queue
           nn == Len(walk'.queue)
           rr == reached'
<1>c. /\ nn = n + 1 /\ qq[n + 1] = w /\ rr[w] = d + 1
      /\ \A i \in 1..n : qq[i] = q[i] /\ q[i] \in Found /\ rr[q[i]] = reached[q[i]]
      /\ \A m \in Found : rr[m] = reached[m]
  BY <1>3, <1>4
<1> HIDE DEF q, n, c, d, qq, nn, rr
<1>6. QueueInOrder'
  <2>1. nn >= 1 /\ qq[1] = Handler /\ rr[Handler] = 0
    BY <1>a, <1>c, <1>t
  <2>4. \A m \in Found' : \E i \in 1..nn : qq[i] = m
    <3> SUFFICES ASSUME NEW m \in Found' PROVE \E i \in 1..nn : qq[i] = m
      OBVIOUS
    <3>1. CASE m = w
      BY <1>b, <1>c, <1>t, <3>1, SMTT(60)
    <3>2. CASE m \in Found
      <4>1. PICK i \in 1..n : q[i] = m
        BY <1>a, <3>2
      <4>2. i \in 1..nn /\ qq[i] = m
        BY <1>c, <1>t, <4>1
      <4> QED BY <4>2
    <3> QED BY <1>3, <3>1, <3>2
  <2>5. \A i \in 1..n : reached[q[i]] <= d + 1 /\ reached[q[i]] \in Nat
    BY <1>a, <1>b, <1>t
  <2>6. ASSUME NEW i \in 1..nn, NEW j \in 1..nn, i <= j
        PROVE  rr[qq[i]] <= rr[qq[j]]
    <3>1. CASE j <= n
      <4>1. i \in 1..n /\ j \in 1..n
        BY <1>c, <1>t, <2>6, <3>1
      <4>2. reached[q[i]] <= reached[q[j]]
        BY <1>a, <2>6, <4>1
      <4> QED BY <1>c, <4>1, <4>2
    <3>2. CASE j = n + 1 /\ i <= n
      BY <1>2, <1>c, <1>t, <2>5, <3>2
    <3>3. CASE j = n + 1 /\ i = n + 1
      BY <1>2, <1>c, <3>3
    <3> QED BY <1>b, <1>c, <1>t, <2>6, <3>1, <3>2, <3>3
  <2>7. ASSUME NEW i \in 1..nn, NEW j \in 1..nn, i >= walk'.cursor
        PROVE  rr[qq[j]] <= rr[qq[i]] + 1
    <3>1. rr[qq[j]] <= d + 1 /\ rr[qq[j]] \in Nat
      BY <1>2, <1>c, <1>t, <2>5, SMTT(60)
    <3>2. rr[qq[i]] >= d /\ rr[qq[i]] \in Nat
      <4>1. CASE i = n + 1
        BY <1>2, <1>c, <4>1
      <4>2. CASE i # n + 1
        <5>1. i \in 1..n /\ c \in 1..n /\ c <= i
          BY <1>b, <1>c, <1>t, <2>7, <4>2
        <5>2. reached[q[c]] <= reached[q[i]]
          BY <1>a, <5>1
        <5> QED BY <1>b, <1>c, <2>5, <5>1, <5>2, SMTT(30)
      <4> QED BY <4>1, <4>2
    <3> QED BY <1>2, <3>1, <3>2
  <2> QED BY <2>1, <2>4, <2>6, <2>7 DEF QueueInOrder, qq, nn, rr
<1>7. VisitedFollowed'
  <2> SUFFICES ASSUME NEW i \in 1..nn, NEW k \in 1..Len(callees[qq[i]]),
                      i < walk'.cursor \/ (i = walk'.cursor /\ k < walk'.call)
               PROVE  LET v == callees[qq[i]][k]
                      IN v # External => v \in Found' /\ rr[v] <= rr[qq[i]] + 1
    BY Zenon DEF VisitedFollowed, Followed, qq, nn, rr
  <2>0. i \in 1..n /\ qq[i] = q[i] /\ q[i] \in Found /\ rr[q[i]] = reached[q[i]]
    BY <1>b, <1>c, <1>t
  <2>1. k \in 1..Len(callees[q[i]]) /\ Len(callees[q[i]]) \in Nat
    BY <1>1, <2>0, ListsTyped DEF GraphTyped
  <2>2. CASE i < c \/ (i = c /\ k < walk.call)
    <3>1. Followed(q[i], k)
      BY <1>1, <2>0, <2>1, <2>2 DEF VisitedFollowed, q, n, c
    <3> QED BY <1>3, <1>c, <2>0, <3>1 DEF Followed
  <2>3. CASE i = c /\ k = walk.call
    <3>1. callees[q[i]][k] = w /\ q[i] = CurrentMethod
      BY <1>b, <2>3
    <3> QED BY <1>2, <1>3, <1>b, <1>c, <2>0, <3>1
  <2> QED BY <1>b, <1>t, <2>1, <2>2, <2>3
<1>8. EachChained'
  <2> USE DEF d, rr
  <2>1. \A m, l : Chain(m, l)' <=> Chain(m, l)
    BY ChainsStay
  <2>2. Chain(CurrentMethod, d)
    BY <1>1, <1>2 DEF EachChained
  <2>3. Calls(CurrentMethod, w)
    <3>1. Len(callees[CurrentMethod]) \in Nat
      BY <1>1, <1>2, ListsTyped DEF GraphTyped
    <3> QED BY <1>t, <3>1 DEF Calls
  <2>4. Chain(w, d + 1)
    BY <1>2, <2>2, <2>3, ChainGrows
  <2>5. ASSUME NEW m \in Found' PROVE Chain(m, reached'[m])
    <3>1. CASE m = w
      BY <1>3, <2>4, <3>1
    <3>2. CASE m \in Found
      BY <1>1, <1>3, <3>2 DEF EachChained
    <3> QED BY <1>3, <3>1, <3>2
  <2> QED BY <2>1, <2>5, Zenon DEF EachChained
<1> QED BY <1>6, <1>7, <1>8

LEMMA WalkTyped ==
  ASSUME GraphAssumption, GraphTyped, [GraphNext]_graphVars
  PROVE  GraphTyped'
<1>t. /\ walk.queue \in Seq(Method) /\ Len(walk.queue) \in Nat
      /\ walk.cursor \in Nat \ {0} /\ walk.call \in Nat \ {0}
      /\ DOMAIN walk = {"queue", "cursor", "call"}
      /\ walk.cursor <= Len(walk.queue) + 1
  BY DEF GraphTyped
<1>1. CASE VisitCall
  <2>1. /\ walk.cursor \in 1..Len(walk.queue) /\ walk.call <= Len(callees[CurrentMethod])
        /\ CurrentMethod \in Method /\ CurrentMethod \in Found
    BY <1>1, <1>t DEF GraphTyped, VisitCall, Walking, CurrentMethod
  <2> DEFINE w == callees[CurrentMethod][walk.call]
  <2>2. w \in Method \cup {External}
    <3>1. Len(callees[CurrentMethod]) \in Nat
      BY <2>1, ListsTyped DEF GraphTyped
    <3> QED BY <1>t, <2>1, <3>1, ListsTyped DEF GraphTyped
  <2>3. UNCHANGED <<callees, codeMap>> /\ truncated' \in BOOLEAN
    BY <1>1 DEF VisitCall, GraphTyped
  <2>4. \/ walk' = [walk EXCEPT !.cursor = Len(walk.queue) + 1] /\ UNCHANGED reached
        \/ walk' = [walk EXCEPT !.call = @ + 1] /\ UNCHANGED reached
        \/ /\ w \in Method
           /\ walk' = [[walk EXCEPT !.call = @ + 1] EXCEPT !.queue = Append(@, w)]
           /\ reached' = [m \in Found \cup {w} |->
                            IF m = w THEN reached[CurrentMethod] + 1 ELSE reached[m]]
    BY <1>1, <2>2, Zenon DEF VisitCall
  <2>5. /\ DOMAIN walk' = DOMAIN walk
        /\ \/ walk'.queue = walk.queue /\ UNCHANGED reached
           \/ /\ w \in Method /\ walk'.queue = Append(walk.queue, w)
              /\ reached' = [m \in Found \cup {w} |->
                               IF m = w THEN reached[CurrentMethod] + 1 ELSE reached[m]]
        /\ walk'.cursor \in {walk.cursor, Len(walk.queue) + 1}
        /\ walk'.call \in {walk.call, walk.call + 1}
    <3> HIDE DEF w
    <3> QED BY <1>t, <2>4
  <2> HIDE DEF w
  <2>6. CASE walk'.queue = walk.queue /\ UNCHANGED reached
    <3>1. Found' = Found
      BY <2>6 DEF Found
    <3> QED BY <1>t, <2>3, <2>5, <2>6, <3>1 DEF GraphTyped
  <2>7. CASE /\ w \in Method /\ walk'.queue = Append(walk.queue, w)
             /\ reached' = [m \in Found \cup {w} |->
                              IF m = w THEN reached[CurrentMethod] + 1 ELSE reached[m]]
    <3>1. Found' = Found \cup {w}
      BY <2>7 DEF Found
    <3>2. \A m \in Found : reached[m] \in Nat
      BY DEF GraphTyped
    <3>3. \A m \in Found \cup {w} : reached'[m] \in Nat
      BY <2>1, <2>7, <3>2
    <3>4. Found' \subseteq Method /\ reached' \in [Found' -> Nat]
      BY <2>7, <3>1, <3>3 DEF GraphTyped
    <3>5. walk'.queue \in Seq(Method) /\ Len(walk'.queue) = Len(walk.queue) + 1
      BY <1>t, <2>7
    <3>6. \A i \in 1..Len(walk'.queue) : walk'.queue[i] \in Found'
      BY <1>t, <2>7, <3>1, <3>5 DEF GraphTyped
    <3>7. /\ walk'.cursor <= Len(walk'.queue) + 1 /\ walk'.cursor \in Nat \ {0}
          /\ walk'.call \in Nat \ {0}
      BY <1>t, <2>5, <3>5
    <3> QED BY <1>t, <2>3, <2>5, <3>4, <3>5, <3>6, <3>7 DEF GraphTyped
  <2> QED BY <2>5, <2>6, <2>7
<1>2. CASE NextMethod
  <2>1. /\ UNCHANGED <<callees, reached, truncated, codeMap>> /\ walk.cursor <= Len(walk.queue)
        /\ walk' = [walk EXCEPT !.cursor = @ + 1, !.call = 1]
    BY <1>2 DEF NextMethod, Walking
  <2>2. /\ DOMAIN walk' = DOMAIN walk /\ walk'.queue = walk.queue
        /\ walk'.cursor = walk.cursor + 1 /\ walk'.call = 1
    BY <1>t, <2>1
  <2>3. Found' = Found
    BY <2>1 DEF Found
  <2> QED BY <1>t, <2>1, <2>2, <2>3 DEF GraphTyped
<1>3. CASE StoreMap
  <2>1. UNCHANGED <<callees, reached, truncated, walk>> /\ codeMap' \in {"refused", "stored"}
    BY <1>3 DEF StoreMap, MapOf
  <2> QED BY <2>1 DEF GraphTyped, Found
<1>4. CASE UNCHANGED graphVars
  BY <1>4 DEF GraphTyped, Found, graphVars
<1> QED BY <1>1, <1>2, <1>3, <1>4 DEF GraphNext

LEMMA GraphStays ==
  ASSUME GraphAssumption, GraphInv, [GraphNext]_graphVars
  PROVE  GraphInv'
<1>1. GraphTyped /\ GraphTyped'
  BY WalkTyped DEF GraphInv
<1>t. DOMAIN walk = {"queue", "cursor", "call"}
  BY <1>1 DEF GraphTyped
<1>2. CASE VisitCall
  <2>1. /\ codeMap' = "none" /\ UNCHANGED callees
        /\ walk.cursor <= Len(walk.queue) /\ walk.call <= Len(callees[CurrentMethod])
    BY <1>2 DEF VisitCall, Walking
  <2> DEFINE w == callees[CurrentMethod][walk.call]
  <2>2. w \in Method \cup {External}
    <3>1. walk.cursor \in 1..Len(walk.queue) /\ walk.call \in Nat \ {0} /\ CurrentMethod \in Method
      BY <1>1, <2>1 DEF GraphTyped, CurrentMethod
    <3>2. Len(callees[CurrentMethod]) \in Nat
      BY <1>1, <3>1, ListsTyped DEF GraphTyped
    <3>3. walk.call \in 1..Len(callees[CurrentMethod])
      BY <2>1, <3>1, <3>2
    <3> QED BY <1>1, <3>1, <3>3, ListsTyped DEF GraphTyped
  <2>3. SUFFICES ASSUME ~truncated' PROVE QueueInOrder' /\ VisitedFollowed' /\ EachChained'
    BY <1>1, <2>1 DEF GraphInv
  <2>4. \/ /\ walk' = [walk EXCEPT !.call = @ + 1] /\ UNCHANGED <<reached, truncated>>
           /\ w = External \/ w \in Found
        \/ /\ w \in Method /\ w \notin Found /\ UNCHANGED truncated
           /\ walk' = [[walk EXCEPT !.call = @ + 1] EXCEPT !.queue = Append(@, w)]
           /\ reached' = [m \in Found \cup {w} |->
                            IF m = w THEN reached[CurrentMethod] + 1 ELSE reached[m]]
    BY <1>2, <2>2, <2>3, Zenon DEF VisitCall
  <2>5. CASE /\ walk' = [walk EXCEPT !.call = @ + 1] /\ UNCHANGED <<reached, truncated>>
             /\ w = External \/ w \in Found
    <3>1. walk'.queue = walk.queue /\ walk'.cursor = walk.cursor /\ walk'.call = walk.call + 1
      BY <1>t, <2>5
    <3>2. Followed(CurrentMethod, walk.call)
      <4>1. SUFFICES ASSUME w # External
                     PROVE  w \in Found /\ reached[w] <= reached[CurrentMethod] + 1
        BY DEF Followed
      <4>2. w \in Found
        BY <2>5, <4>1
      <4>3. QueueInOrder
        BY <2>3, <2>5 DEF GraphInv
      <4>4. PICK j \in 1..Len(walk.queue) : walk.queue[j] = w
        BY <4>2, <4>3 DEF QueueInOrder
      <4>5. walk.cursor \in 1..Len(walk.queue) /\ walk.cursor >= walk.cursor
        BY <1>1, <2>1 DEF GraphTyped
      <4>6. reached[walk.queue[j]] <= reached[walk.queue[walk.cursor]] + 1
        BY <4>3, <4>5 DEF QueueInOrder
      <4> QED BY <4>2, <4>4, <4>6 DEF CurrentMethod
    <3> QED BY <1>1, <2>1, <2>3, <2>5, <3>1, <3>2, WalkAdvances
  <2>6. CASE /\ w \in Method /\ w \notin Found /\ UNCHANGED truncated
             /\ walk' = [[walk EXCEPT !.call = @ + 1] EXCEPT !.queue = Append(@, w)]
             /\ reached' = [m \in Found \cup {w} |->
                              IF m = w THEN reached[CurrentMethod] + 1 ELSE reached[m]]
    <3>1. /\ walk'.queue = Append(walk.queue, w) /\ walk'.cursor = walk.cursor
          /\ walk'.call = walk.call + 1
      <4> HIDE DEF w
      <4> QED BY <1>t, <2>6
    <3> QED BY <1>1, <2>1, <2>3, <2>6, <3>1, WalkGrows
  <2> QED BY <2>4, <2>5, <2>6
<1>3. CASE NextMethod
  <2>1. /\ UNCHANGED <<callees, reached, truncated, codeMap>> /\ codeMap = "none"
        /\ walk.cursor <= Len(walk.queue) /\ walk.call > Len(callees[CurrentMethod])
        /\ walk' = [walk EXCEPT !.cursor = @ + 1, !.call = 1]
    BY <1>3 DEF NextMethod, Walking
  <2>2. walk'.queue = walk.queue /\ walk'.cursor = walk.cursor + 1 /\ walk'.call = 1
    BY <1>t, <2>1
  <2>3. ASSUME ~truncated PROVE QueueInOrder' /\ VisitedFollowed' /\ EachChained'
    BY <1>1, <2>1, <2>2, <2>3, WalkAdvances
  <2> QED BY <1>1, <2>1, <2>3 DEF GraphInv
<1>4. CASE StoreMap \/ UNCHANGED graphVars
  <2>1. /\ UNCHANGED <<callees, reached, truncated, walk>>
        /\ codeMap' = "stored" => ~truncated /\ walk.cursor > Len(walk.queue)
    BY <1>4 DEF GraphInv, StoreMap, MapOf, Over, graphVars
  <2>2. Found' = Found
    BY <2>1 DEF Found
  <2>3. QueueInOrder => QueueInOrder'
    BY <2>1, <2>2 DEF QueueInOrder
  <2>4. VisitedFollowed => VisitedFollowed'
    BY <2>1, <2>2 DEF VisitedFollowed, Followed
  <2>5. EachChained => EachChained'
    BY <2>1, <2>2, ChainsStay DEF EachChained
  <2> QED BY <1>1, <2>1, <2>3, <2>4, <2>5 DEF GraphInv
<1> QED BY <1>2, <1>3, <1>4 DEF GraphNext

\* Once every call was followed, no chain of calls leaves what was found, nor
\* reaches a method before its depth.
LEMMA ChainsBounded ==
  ASSUME GraphAssumption, GraphInv, ~truncated, walk.cursor > Len(walk.queue),
         NEW c, NEW n \in Nat, c \in [0..n -> Method], c[0] = Handler,
         \A i \in 1..n : Calls(c[i - 1], c[i])
  PROVE  c[n] \in Found /\ reached[c[n]] <= n
<1>1. GraphTyped /\ QueueInOrder /\ VisitedFollowed
  BY DEF GraphInv
<1> DEFINE Bad == {i \in 0..n : ~(c[i] \in Found /\ reached[c[i]] <= i)}
<1>2. SUFFICES ASSUME Bad # {} PROVE FALSE
  OBVIOUS
<1>3. PICK i \in Bad : \A j \in Bad : i <= j
  <2>1. Bad \subseteq Nat
    OBVIOUS
  <2> HIDE DEF Bad
  <2> QED BY <1>2, <2>1, LeastNatural
<1>4. i \in 0..n /\ ~(c[i] \in Found /\ reached[c[i]] <= i)
  OBVIOUS
<1>5. i # 0
  <2>1. Handler \in Found /\ reached[Handler] = 0
    BY <1>1 DEF QueueInOrder, GraphTyped
  <2> QED BY <1>4, <2>1
<1>6. i \in 1..n /\ i - 1 \in 0..n /\ ~(i <= i - 1)
  BY <1>4, <1>5
<1>7. c[i - 1] \in Found /\ reached[c[i - 1]] <= i - 1
  <2>1. i - 1 \notin Bad
    BY <1>3, <1>6
  <2> QED BY <1>6, <2>1
<1>8. PICK k \in 1..Len(callees[c[i - 1]]) : callees[c[i - 1]][k] = c[i]
  BY <1>6 DEF Calls
<1>9. PICK q \in 1..Len(walk.queue) : walk.queue[q] = c[i - 1]
  BY <1>1, <1>7 DEF QueueInOrder
<1>10. q < walk.cursor
  BY <1>1, <1>9 DEF GraphTyped
<1>11. Followed(c[i - 1], k)
  BY <1>1, <1>8, <1>9, <1>10 DEF VisitedFollowed
<1>12. c[i] \in Found /\ reached[c[i]] <= reached[c[i - 1]] + 1
  <2>1. c[i] # External
    BY <1>4 DEF GraphAssumption
  <2> QED BY <1>8, <1>11, <2>1 DEF Followed
<1>13. reached[c[i]] \in Nat /\ reached[c[i - 1]] \in Nat
  BY <1>1, <1>7, <1>12 DEF GraphTyped
<1> HIDE DEF Bad
<1> QED BY <1>4, <1>7, <1>12, <1>13

LEMMA StoredIsReachable ==
  ASSUME GraphAssumption, GraphInv PROVE GraphIsReachability
<1>1. SUFFICES ASSUME codeMap = "stored"
      PROVE  /\ \A m \in Found, w \in Method : Calls(m, w) => w \in Found
             /\ \A m \in Found :
                  Chain(m, reached[m]) /\ \A n \in 0..(reached[m] - 1) : ~Chain(m, n)
  BY DEF GraphIsReachability
<1>2. ~truncated /\ walk.cursor > Len(walk.queue)
  BY <1>1 DEF GraphInv
<1>3. GraphTyped /\ EachChained
  BY <1>2 DEF GraphInv
<1>4. ASSUME NEW m \in Method, NEW n \in Nat, Chain(m, n)
      PROVE  m \in Found /\ reached[m] <= n
  <2>1. PICK c \in [0..n -> Method] :
           c[0] = Handler /\ c[n] = m /\ \A i \in 1..n : Calls(c[i - 1], c[i])
    BY <1>4 DEF Chain
  <2> QED BY <1>2, <2>1, ChainsBounded
<1>5. ASSUME NEW m \in Found, NEW w \in Method, Calls(m, w) PROVE w \in Found
  <2>1. m \in Method /\ reached[m] \in Nat /\ Chain(m, reached[m])
    BY <1>3 DEF GraphTyped, EachChained
  <2>2. Chain(w, reached[m] + 1) /\ reached[m] + 1 \in Nat
    BY <1>5, <2>1, ChainGrows
  <2> QED BY <1>4, <2>2
<1>6. ASSUME NEW m \in Found, NEW n \in 0..(reached[m] - 1), Chain(m, n) PROVE FALSE
  <2>1. m \in Method /\ reached[m] \in Nat
    BY <1>3 DEF GraphTyped
  <2>2. n \in Nat /\ ~(reached[m] <= n)
    BY <2>1
  <2> QED BY <1>4, <1>6, <2>1, <2>2
<1> QED BY <1>3, <1>5, <1>6 DEF EachChained

\* A stored code map (buildForAudit) holds exactly what the handler reaches, each
\* method at the length of the shortest chain of calls, whatever the program and
\* the limits of the walk.
THEOREM StoredMapIsReachability ==
  ASSUME GraphAssumption PROVE GraphSpec => []GraphIsReachability
<1>1. GraphInit => GraphInv
  BY GraphBegins
<1>2. GraphInv /\ [GraphNext]_graphVars => GraphInv'
  BY GraphStays
<1>3. GraphInv => GraphIsReachability
  BY StoredIsReachable
<1> QED BY <1>1, <1>2, <1>3, PTL DEF GraphSpec
=============================================================================
