------------------------------ MODULE GateProofs ------------------------------
(***************************************************************************)
(* Proofs about what the processes of the development gates share in files: *)
(* the counters of the Stop hook, dispatch waves and leases, and ledgers.   *)
(* All of them read a file, change it and replace it under a lock file;     *)
(* only the editor of a ledger knows no lock.                               *)
(***************************************************************************)
EXTENDS GateLedger, GateCoordination, StopHook, SequenceTheorems, WellFoundedInduction, TLAPS
-----------------------------------------------------------------------------
(***************************************************************************)
(* Proofs about StopHook. A hook that clears or counts holds the lock of    *)
(* its file and has read what the file still says. A session that was       *)
(* blocked n times in a row under the lock for some work has a counter of   *)
(* at least n for that work on file, in the file of that work; other        *)
(* sessions and other pipelines leave it there, or evict it.                *)
(***************************************************************************)

Works == {"open", "less", "done"}
Hashes == Works \cup {"invalid"}
Counter == [hash : Hashes, blocks : Nat]
IsTable(t) == DOMAIN t \subseteq Session \X Scope /\ t \in [DOMAIN t -> Counter]
Working == {"clearing", "counting", "clear", "count"}

Streaks == [target : Scope \cup {None}, hash : Hashes \cup {None}, counted : Nat, blind : Nat]
HookShape(r) ==
  /\ DOMAIN r = {"at", "target", "hash", "read"}
  /\ r.at \in {"idle", "dead"} \cup Working /\ IsTable(r.read)
  /\ r.at \in Working => r.target \in Scope /\ r.hash \in Hashes

HookTyped ==
  /\ scope \in [Scope -> {"absent", "real", "invalid"}]
  /\ boundTo \in [Scope -> Session \cup {None}] /\ openWork \in [Scope -> Works]
  /\ DOMAIN counters = File /\ \A f \in File : IsTable(counters[f])
  /\ countsLock \in [File -> Hook \cup {None}]
  /\ DOMAIN hook = Hook /\ \A h \in Hook : HookShape(hook[h])
  /\ streak \in [Session -> Streaks]
  /\ hookChanges \in Nat

\* Who clears or counts has the lock, and has read what is on file.
ReadUnderLock ==
  \A h \in Hook : hook[h].at \in {"clear", "count"} =>
    countsLock[FileOf(h)] = h /\ hook[h].read = counters[FileOf(h)]

\* The counter of a session on file is one of at least n blocks for the work w of target p.
OnFile(s, p, w, n) ==
  LET table == counters[IF w = "invalid" THEN "root" ELSE p] IN
  <<s, p>> \in DOMAIN table /\ table[<<s, p>>].hash = w /\ table[<<s, p>>].blocks >= n

StreakBacked(s) ==
  \/ streak[s] = NoStreak
  \/ /\ streak[s].target \in Scope /\ streak[s].hash \in Hashes
     /\ streak[s].counted \in 0..MAX_BLOCKS /\ streak[s].blind \in Nat
     /\ streak[s].blind # 0 => streak[s].hash = "invalid"
     /\ streak[s].counted # 0 => OnFile(s, streak[s].target, streak[s].hash, streak[s].counted)

HookInv == HookTyped /\ ReadUnderLock /\ \A s \in Session : StreakBacked(s)

LEMMA HookInvInit == ASSUME HookAssumption, HookInit PROVE HookInv
PROOF
<1>1. IsTable(NoCounters)
  BY DEF IsTable, NoCounters
<1>2. \A h \in Hook : hook[h] = HookAtRest
  BY DEF HookInit
<1>3. HookShape(HookAtRest)
  BY <1>1 DEF HookShape, HookAtRest, Working
<1>4. HookTyped
  BY <1>1, <1>2, <1>3 DEF HookInit, HookTyped, NoStreak, StreakOf, Streaks, Works, None
<1>5. ReadUnderLock
  BY <1>2 DEF ReadUnderLock, HookAtRest
<1>6. \A s \in Session : StreakBacked(s)
  BY DEF HookInit, StreakBacked
<1> QED
  BY <1>4, <1>5, <1>6 DEF HookInv

(* What one hook does to tables of counters. *)

LEMMA LessOfTwo ==
  ASSUME NEW x \in Int, NEW y \in Int
  PROVE  Min({x, y}) = IF x <= y THEN x ELSE y
PROOF
<1> DEFINE m == IF x <= y THEN x ELSE y
<1>1. m \in {x, y} /\ \A z \in {x, y} : m <= z
  OBVIOUS
<1>2. \A k \in {x, y} : (\A z \in {x, y} : k <= z) => k = m
  OBVIOUS
<1> QED
  BY <1>1, <1>2 DEF Min

LEMMA TableWithout ==
  ASSUME NEW t, IsTable(t), NEW keys
  PROVE  IsTable(Restrict(t, DOMAIN t \ keys))
PROOF
  BY DEF IsTable, Restrict

LEMMA TableWith ==
  ASSUME NEW t, IsTable(t), NEW mine \in Session \X Scope, NEW counter \in Counter,
         NEW kept \in SUBSET (DOMAIN t \cup {mine})
  PROVE  IsTable([key \in kept |-> IF key = mine THEN counter ELSE t[key]])
PROOF
  BY DEF IsTable

\* The file of a hook that works is one of the files.
LEMMA FileKnown ==
  ASSUME HookInv, NEW h \in Hook, hook[h].at \in Working
  PROVE  /\ FileOf(h) \in File /\ hook[h].target \in Scope /\ hook[h].hash \in Hashes
         /\ KeyOf(h) = <<SessionOf[h], hook[h].target>> /\ IsTable(hook[h].read)
PROOF
  BY DEF HookInv, HookTyped, HookShape, FileOf, File, KeyOf

LEMMA HookStarts ==
  ASSUME NEW at \in {"clearing", "counting"}, NEW p \in Scope, NEW w \in Hashes,
         NEW q, q = [HookAtRest EXCEPT !.at = at, !.target = p, !.hash = w]
  PROVE  HookShape(q) /\ q.at \notin {"clear", "count"}
PROOF
<1>1. IsTable(NoCounters)
  BY DEF IsTable, NoCounters
<1>2. /\ DOMAIN q = {"at", "target", "hash", "read"}
      /\ q.at = at /\ q.target = p /\ q.hash = w /\ q.read = NoCounters
  BY DEF HookAtRest
<1> QED
  BY <1>1, <1>2 DEF HookShape, Working

(* Steps that leave the counters and the locks alone. *)

LEMMA QuietStep ==
  ASSUME HookInv, UNCHANGED <<counters, countsLock>>,
         scope' \in [Scope -> {"absent", "real", "invalid"}],
         boundTo' \in [Scope -> Session \cup {None}], openWork' \in [Scope -> Works],
         hookChanges' \in Nat, DOMAIN hook' = Hook,
         \A h \in Hook : \/ hook'[h] = hook[h]
                         \/ HookShape(hook'[h]) /\ hook'[h].at \notin {"clear", "count"},
         streak' \in [Session -> Streaks],
         \A s \in Session : streak'[s] \in {streak[s], NoStreak} \/ StreakBacked(s)'
  PROVE  HookInv'
PROOF
<1>1. HookTyped'
  <2>1. \A f \in File : IsTable(counters'[f])
    BY DEF HookInv, HookTyped
  <2>2. \A h \in Hook : HookShape(hook'[h])
    BY DEF HookInv, HookTyped
  <2> QED
    BY <2>1, <2>2 DEF HookInv, HookTyped
<1>2. ReadUnderLock'
  BY DEF HookInv, ReadUnderLock, FileOf
<1>3. \A s \in Session : StreakBacked(s)'
  BY DEF HookInv, StreakBacked, OnFile
<1> QED
  BY <1>1, <1>2, <1>3 DEF HookInv

\* What a block goes on with is the session's streak, or one that has no block yet.
LEMMA SoFar ==
  ASSUME HookAssumption, HookInv, NEW h \in Hook, hook[h].at \in Working
  PROVE  LET s == SessionOf[h]
             p == hook[h].target
             w == hook[h].hash
             t == StreakSoFar(h) IN
         /\ s \in Session /\ t \in Streaks /\ t.target = p /\ t.hash = w
         /\ t.counted \in 0..MAX_BLOCKS /\ (t.blind # 0 => w = "invalid")
         /\ t.counted # 0 => OnFile(s, p, w, t.counted)
PROOF
<1> DEFINE s == SessionOf[h]
           p == hook[h].target
           w == hook[h].hash
           t == StreakSoFar(h)
<1>1. s \in Session /\ p \in Scope /\ w \in Hashes /\ MAX_BLOCKS \in Nat
  BY FileKnown DEF HookAssumption
<1>2. StreakBacked(s) /\ streak[s] \in Streaks
  BY <1>1 DEF HookInv, HookTyped
<1>3. CASE streak[s].target = p /\ streak[s].hash = w
  <2>1. t = streak[s]
    BY <1>3 DEF StreakSoFar
  <2>2. streak[s] # NoStreak
    BY <1>1, <1>3 DEF NoStreak, StreakOf, None, HookAssumption
  <2> QED
    BY <1>1, <1>2, <1>3, <2>1, <2>2 DEF StreakBacked
<1>4. CASE ~(streak[s].target = p /\ streak[s].hash = w)
  <2>1. t = StreakOf(p, w)
    BY <1>4 DEF StreakSoFar
  <2>2. t \in Streaks /\ t.target = p /\ t.hash = w /\ t.counted = 0 /\ t.blind = 0
    BY <1>1, <2>1 DEF StreakOf, Streaks
  <2> QED
    BY <1>1, <2>2
<1> QED
  BY <1>3, <1>4

\* A streak is backed by what the files hold once its last block is written.
LEMMA BackedNow ==
  ASSUME NEW s \in Session, NEW p \in Scope, NEW w \in Hashes, NEW n \in 0..MAX_BLOCKS,
         streak'[s].target = p, streak'[s].hash = w, streak'[s].counted = n,
         streak'[s].blind \in Nat, streak'[s].blind # 0 => w = "invalid",
         n # 0 => OnFile(s, p, w, n)'
  PROVE  StreakBacked(s)'
PROOF
  BY DEF StreakBacked

LEMMA StillOnFile ==
  ASSUME NEW s, NEW p, NEW w, NEW n, UNCHANGED counters, OnFile(s, p, w, n)
  PROVE  OnFile(s, p, w, n)'
PROOF
  BY DEF OnFile

\* A block without the lock adds nothing to what has to be on file.
LEMMA BlindBlock ==
  ASSUME HookAssumption, HookInv, NEW h \in Hook, LockFails(h), UNCHANGED counters
  PROVE  /\ streak' \in [Session -> Streaks]
         /\ \A s \in Session : streak'[s] \in {streak[s], NoStreak} \/ StreakBacked(s)'
PROOF
<1> DEFINE s == SessionOf[h]
           t == StreakSoFar(h)
<1>1. streak \in [Session -> Streaks] /\ NoStreak \in Streaks /\ s \in Session
  BY DEF HookInv, HookTyped, HookAssumption, NoStreak, StreakOf, Streaks
<1>2. CASE Let(s)
  BY <1>1, <1>2 DEF Let
<1>3. CASE /\ hook[h].hash = "invalid"
           /\ streak' = [streak EXCEPT ![s] = [t EXCEPT !.blind = t.blind + 1]]
  <2> DEFINE u == [t EXCEPT !.blind = t.blind + 1]
  <2>1. hook[h].at \in Working
    BY DEF LockFails, Working
  <2>2. /\ t \in Streaks /\ t.target = hook[h].target /\ t.hash = "invalid"
        /\ t.counted \in 0..MAX_BLOCKS
        /\ t.counted # 0 => OnFile(s, t.target, t.hash, t.counted)
    BY <1>3, <2>1, SoFar
  <2>3. hook[h].target \in Scope
    BY <2>1, FileKnown
  <2> HIDE DEF t
  <2>4. /\ u \in Streaks /\ u.target = t.target /\ u.hash = t.hash
        /\ u.counted = t.counted /\ u.blind \in Nat
    BY <2>2 DEF Streaks
  <2> HIDE DEF u
  <2>5. streak' = [streak EXCEPT ![s] = u]
    BY <1>3 DEF u
  <2>6. streak'[s] = u /\ \A d \in Session \ {s} : streak'[d] = streak[d]
    BY <1>1, <2>5
  <2>7. StreakBacked(s)'
    <3>1. PICK d \in Session, p \in Scope, w \in Hashes, n \in 0..MAX_BLOCKS :
            /\ d = s /\ p = t.target /\ w = t.hash /\ n = t.counted
      BY <1>1, <2>2, <2>3 DEF Hashes
    <3>2. n # 0 => OnFile(d, p, w, n)
      BY <2>2, <3>1
    <3>3. n # 0 => OnFile(d, p, w, n)'
      BY <3>2, StillOnFile
    <3>4. /\ streak'[d].target = p /\ streak'[d].hash = w /\ streak'[d].counted = n
          /\ streak'[d].blind \in Nat /\ w = "invalid"
      BY <2>2, <2>4, <2>6, <3>1
    <3>5. StreakBacked(d)'
      BY <3>3, <3>4, BackedNow
    <3> QED
      BY <3>1, <3>5
  <2>8. streak' \in [Session -> Streaks]
    BY <1>1, <2>4, <2>5
  <2> QED
    BY <2>6, <2>7, <2>8
<1> QED
  BY <1>2, <1>3 DEF LockFails

LEMMA QuietActions ==
  ASSUME HookAssumption, HookInv,
         \/ \E h \in Hook : Stop(h) \/ LockFails(h) \/ Die(h)
         \/ \E p \in Scope : Work(p) \/ ChangeScope(p) \/ Bind(p)
  PROVE  HookInv'
PROOF
<1> USE DEF HookInv, HookTyped
<1>1. ASSUME NEW h \in Hook, Stop(h) PROVE HookInv'
  <2>0. NoStreak \in Streaks
    BY DEF NoStreak, StreakOf, Streaks
  <2>1. \A s \in Session : Targets(s) \subseteq Scope
    BY DEF HookAssumption, Targets, Scopes, None
  <2>2. \A p \in Scope : HashOf(p) \in Hashes
    BY DEF HashOf, Hashes
  <2>5. UNCHANGED <<pipelines, counters, countsLock, hookChanges>> /\ SessionOf[h] \in Session
    BY <1>1 DEF Stop, HookAssumption
  <2>6. /\ DOMAIN hook' = Hook
        /\ \A k \in Hook : \/ hook'[k] = hook[k]
                           \/ HookShape(hook'[k]) /\ hook'[k].at \notin {"clear", "count"}
    <3>1. CASE UNCHANGED hook
      BY <3>1
    <3>2. CASE \E p \in Targets(SessionOf[h]) :
            Put(h, [HookAtRest EXCEPT !.at = IF HashOf(p) = "done" THEN "clearing" ELSE "counting",
                                      !.target = p, !.hash = HashOf(p)])
      <4>1. PICK p \in Scope, at \in {"clearing", "counting"}, w \in Hashes :
              Put(h, [HookAtRest EXCEPT !.at = at, !.target = p, !.hash = w])
        BY <3>2, <2>1, <2>2, <2>5
      <4>2. hook'[h] = [HookAtRest EXCEPT !.at = at, !.target = p, !.hash = w]
        BY <4>1 DEF Put
      <4>3. HookShape(hook'[h]) /\ hook'[h].at \notin {"clear", "count"}
        BY <4>2, HookStarts
      <4> QED
        BY <4>1, <4>3 DEF Put
    <3> QED
      BY <1>1, <3>1, <3>2 DEF Stop
  <2>7. streak' \in [Session -> Streaks] /\ \A s \in Session : streak'[s] \in {streak[s], NoStreak}
    BY <1>1, <2>0 DEF Stop, Let
  <2> QED
    BY <2>5, <2>6, <2>7, QuietStep DEF pipelines
<1>2. ASSUME NEW h \in Hook, LockFails(h) \/ Die(h) PROVE HookInv'
  <2>0. NoStreak \in Streaks
    BY DEF NoStreak, StreakOf, Streaks
  <2>1. IsTable(NoCounters)
    BY DEF IsTable, NoCounters
  <2>2. HookShape(HookAtRest) /\ HookShape([HookAtRest EXCEPT !.at = "dead"])
    BY <2>1 DEF HookShape, HookAtRest, Working
  <2>3. UNCHANGED <<pipelines, counters, countsLock>> /\ hookChanges' \in Nat
    BY <1>2 DEF LockFails, Die, HookChange
  <2>4. /\ DOMAIN hook' = Hook
        /\ \A k \in Hook : \/ hook'[k] = hook[k]
                           \/ HookShape(hook'[k]) /\ hook'[k].at \notin {"clear", "count"}
    BY <1>2, <2>2 DEF LockFails, Die, Put, HookAtRest
  <2>5. /\ streak' \in [Session -> Streaks]
        /\ \A s \in Session : streak'[s] \in {streak[s], NoStreak} \/ StreakBacked(s)'
    <3>1. CASE LockFails(h)
      BY <2>3, <3>1, BlindBlock
    <3>2. CASE Die(h)
      BY <3>2 DEF Die
    <3> QED
      BY <1>2, <3>1, <3>2
  <2> QED
    BY <2>3, <2>4, <2>5, QuietStep DEF pipelines
<1>3. ASSUME NEW p \in Scope, Work(p) \/ ChangeScope(p) \/ Bind(p) PROVE HookInv'
  <2>1. UNCHANGED <<counters, countsLock, hook, streak>> /\ hookChanges' \in Nat
    BY <1>3 DEF Work, ChangeScope, Bind, HookChange
  <2>2. /\ scope' \in [Scope -> {"absent", "real", "invalid"}]
        /\ boundTo' \in [Scope -> Session \cup {None}] /\ openWork' \in [Scope -> Works]
    BY <1>3 DEF Work, ChangeScope, Bind, Works
  <2> QED
    BY <2>1, <2>2, QuietStep
<1> QED
  BY <1>1, <1>2, <1>3

LEMMA LockStep == ASSUME HookAssumption, HookInv, NEW h \in Hook, Lock(h) PROVE HookInv'
PROOF
<1> DEFINE f == FileOf(h)
<1>1. f \in File /\ f' = f /\ hook[h].target \in Scope /\ hook[h].hash \in Hashes
  BY FileKnown DEF Lock, Working, FileOf, Put, HookInv, HookTyped
<1>2. PICK at \in {"clear", "count"} :
         hook' = [hook EXCEPT ![h] = [hook[h] EXCEPT !.at = at, !.read = counters[f]]]
  BY DEF Lock, Put, HookInv, HookTyped, HookShape
<1>3. /\ countsLock[f] = None /\ countsLock' = [countsLock EXCEPT ![f] = h]
      /\ UNCHANGED <<scope, boundTo, openWork, counters, streak, hookChanges>>
  BY DEF Lock, CountersFree, pipelines
<1> HIDE DEF f
<1>0. /\ HookShape(hook'[h]) /\ hook'[h].read = counters[f]
      /\ hook'[h].target = hook[h].target /\ hook'[h].hash = hook[h].hash
  <2>1. hook'[h] = [hook[h] EXCEPT !.at = at, !.read = counters[f]]
    BY <1>2 DEF HookInv, HookTyped
  <2>2. HookShape(hook[h]) /\ IsTable(counters[f])
    BY <1>1 DEF HookInv, HookTyped
  <2> QED
    <3> DEFINE q == hook'[h]
               r == hook[h]
               table == counters[f]
    <3>1. /\ HookShape(r) /\ r.target \in Scope /\ r.hash \in Hashes /\ IsTable(table)
          /\ q = [r EXCEPT !.at = at, !.read = table]
      BY <1>1, <2>1, <2>2
    <3> HIDE DEF q, r, table
    <3>2. /\ DOMAIN q = {"at", "target", "hash", "read"}
          /\ q.at = at /\ q.read = table /\ q.target = r.target /\ q.hash = r.hash
      BY <3>1 DEF HookShape
    <3>3. HookShape(q)
      BY <3>1, <3>2 DEF HookShape, Working
    <3> QED
      BY <3>2, <3>3 DEF q, r, table
<1>4. HookTyped'
  <2>1. \A k \in Hook : HookShape(hook'[k])
    BY <1>0, <1>2 DEF HookInv, HookTyped
  <2>2. countsLock' \in [File -> Hook \cup {None}]
    BY <1>1, <1>3 DEF HookInv, HookTyped
  <2> QED
    BY <1>2, <1>3, <2>1, <2>2 DEF HookInv, HookTyped
<1>5. ReadUnderLock'
  <2>1. \A k \in Hook \ {h} : hook'[k] = hook[k] /\ FileOf(k)' = FileOf(k)
    BY <1>2 DEF FileOf, HookInv, HookTyped
  <2>2. \A k \in Hook : hook[k].at \in {"clear", "count"} => FileOf(k) # f
    BY <1>3 DEF HookInv, ReadUnderLock, HookAssumption, None
  <2>3. hook'[h].read = counters[f] /\ FileOf(h)' = f
    BY <1>0 DEF FileOf, f
  <2> QED
    BY <1>1, <1>3, <2>1, <2>2, <2>3 DEF HookInv, HookTyped, ReadUnderLock
<1>6. \A s \in Session : StreakBacked(s)'
  BY <1>3 DEF HookInv, StreakBacked, OnFile
<1> QED
  BY <1>4, <1>5, <1>6 DEF HookInv

LEMMA RemoveLockStep ==
  ASSUME HookAssumption, HookInv, NEW f \in File, RemoveCountsLock(f)
  PROVE  HookInv'
PROOF
<1>1. /\ countsLock[f] \in Hook /\ hook[countsLock[f]].at = "dead"
      /\ countsLock' = [countsLock EXCEPT ![f] = None]
      /\ UNCHANGED <<scope, boundTo, openWork, counters, hook, streak, hookChanges>>
  BY DEF RemoveCountsLock, pipelines
<1>2. HookTyped'
  BY <1>1 DEF HookInv, HookTyped
<1>3. ReadUnderLock'
  <2>1. \A h \in Hook : hook[h].at \in {"clear", "count"} => FileOf(h) # f
    BY <1>1 DEF HookInv, ReadUnderLock
  <2> QED
    BY <1>1, <2>1 DEF HookInv, HookTyped, ReadUnderLock, FileOf
<1>4. \A s \in Session : StreakBacked(s)'
  BY <1>1 DEF HookInv, StreakBacked, OnFile
<1> QED
  BY <1>2, <1>3, <1>4 DEF HookInv

(* A hook replaces its file and gives the lock back. *)

LEMMA ReplaceStep ==
  ASSUME HookAssumption, HookInv, NEW h \in Hook, hook[h].at \in {"clear", "count"},
         NEW table, IsTable(table), counters' = [counters EXCEPT ![FileOf(h)] = table],
         countsLock' = CountsUnlocked(h), Put(h, HookAtRest), UNCHANGED <<pipelines, hookChanges>>,
         streak' \in [Session -> Streaks], \A s \in Session : StreakBacked(s)'
  PROVE  HookInv'
PROOF
<1> DEFINE f == FileOf(h)
<1>1. f \in File /\ countsLock[f] = h
  BY FileKnown DEF Working, HookInv, ReadUnderLock
<1>2. /\ countsLock' = [countsLock EXCEPT ![f] = None] /\ counters' = [counters EXCEPT ![f] = table]
      /\ UNCHANGED <<scope, boundTo, openWork, hookChanges>>
  BY <1>1 DEF CountsUnlocked, pipelines
<1>3. hook' = [hook EXCEPT ![h] = HookAtRest]
  BY DEF Put
<1>4. HookShape(HookAtRest) /\ HookAtRest.at = "idle"
  <2> IsTable(NoCounters)
    BY DEF IsTable, NoCounters
  <2> QED
    BY DEF HookShape, HookAtRest, Working
<1> HIDE DEF f
<1>5. HookTyped'
  <2>1. \A k \in Hook : HookShape(hook'[k])
    BY <1>3, <1>4 DEF HookInv, HookTyped
  <2>2. \A g \in File : IsTable(counters'[g])
    BY <1>1, <1>2 DEF HookInv, HookTyped
  <2> QED
    BY <1>1, <1>2, <1>3, <2>1, <2>2 DEF HookInv, HookTyped
<1>6. ReadUnderLock'
  <2>1. \A k \in Hook \ {h} : hook'[k] = hook[k] /\ FileOf(k)' = FileOf(k)
    BY <1>3 DEF FileOf, HookInv, HookTyped
  <2>2. \A k \in Hook \ {h} : hook[k].at \in {"clear", "count"} => FileOf(k) # f
    BY <1>1 DEF HookInv, ReadUnderLock
  <2>3. hook'[h].at = "idle"
    BY <1>3, <1>4 DEF HookInv, HookTyped
  <2>4. \A k \in Hook \ {h} : hook[k].at \in {"clear", "count"} => FileOf(k) \in File
    BY FileKnown DEF Working
  <2> QED
    BY <1>2, <2>1, <2>2, <2>3, <2>4 DEF HookInv, HookTyped, ReadUnderLock
<1> QED
  BY <1>5, <1>6 DEF HookInv

LEMMA ClearStep == ASSUME HookAssumption, HookInv, NEW h \in Hook, Clear(h) PROVE HookInv'
PROOF
<1> DEFINE f == FileOf(h)
           table == Restrict(hook[h].read, DOMAIN hook[h].read \ {KeyOf(h)})
<1>1. /\ hook[h].at = "clear" /\ f \in File /\ hook[h].read = counters[f]
      /\ hook[h].target \in Scope /\ KeyOf(h) = <<SessionOf[h], hook[h].target>>
      /\ IsTable(hook[h].read)
  BY FileKnown DEF Clear, Working, HookInv, ReadUnderLock
<1>2. IsTable(table)
  BY <1>1, TableWithout
<1>3. /\ counters' = [counters EXCEPT ![f] = table] /\ SessionOf[h] \in Session
      /\ streak' = [streak EXCEPT ![SessionOf[h]] = NoStreak] /\ countsLock' = CountsUnlocked(h)
      /\ Put(h, HookAtRest) /\ UNCHANGED <<pipelines, hookChanges>>
  BY DEF Clear, Let, HookAssumption
<1>4. NoStreak \in Streaks
  BY DEF NoStreak, StreakOf, Streaks
<1>5. ASSUME NEW s \in Session PROVE StreakBacked(s)'
  <2>1. CASE s = SessionOf[h] \/ streak[s] = NoStreak
    BY <1>3, <2>1 DEF StreakBacked, HookInv, HookTyped
  <2>2. CASE s # SessionOf[h] /\ streak[s] # NoStreak
    <3> DEFINE p == streak[s].target
               w == streak[s].hash
               g == IF w = "invalid" THEN "root" ELSE p
    <3>1. /\ streak'[s] = streak[s] /\ g \in File
          /\ streak[s].counted # 0 => OnFile(s, p, w, streak[s].counted)
          /\ p \in Scope /\ w \in Hashes /\ streak[s].counted \in 0..MAX_BLOCKS
          /\ streak[s].blind \in Nat /\ (streak[s].blind # 0 => w = "invalid")
      BY <1>3, <2>2 DEF StreakBacked, HookInv, HookTyped, File
    <3>2. <<s, p>> # KeyOf(h)
      BY <1>1, <2>2
    <3>3. /\ <<s, p>> \in DOMAIN counters[g] => <<s, p>> \in DOMAIN counters'[g]
          /\ <<s, p>> \in DOMAIN counters[g] => counters'[g][<<s, p>>] = counters[g][<<s, p>>]
      <4>1. CASE g = f
        BY <1>1, <1>3, <3>2, <4>1 DEF Restrict, HookInv, HookTyped
      <4>2. CASE g # f
        BY <1>3, <3>1, <4>2 DEF HookInv, HookTyped
      <4> QED
        BY <4>1, <4>2
    <3>4. streak[s].counted # 0 => OnFile(s, p, w, streak[s].counted)'
      BY <3>1, <3>3 DEF OnFile
    <3> QED
      BY <3>1, <3>4 DEF StreakBacked
  <2> QED
    BY <2>1, <2>2
<1> HIDE DEF f, table
<1>6. streak' \in [Session -> Streaks]
  BY <1>3, <1>4 DEF HookInv, HookTyped
<1> QED
  BY <1>1, <1>2, <1>3, <1>5, <1>6, ReplaceStep DEF f

LEMMA CountStep == ASSUME HookAssumption, HookInv, NEW h \in Hook, Count(h) PROVE HookInv'
PROOF
<1> DEFINE s == SessionOf[h]
           p == hook[h].target
           w == hook[h].hash
           f == FileOf(h)
           mine == KeyOf(h)
           read == hook[h].read
           blocks == Min({BlocksCounted(h) + 1, MAX_BLOCKS + 1})
           t == StreakSoFar(h)
           longer == [t EXCEPT !.counted = t.counted + 1]
           counter == [hash |-> w, blocks |-> blocks]
           keys == DOMAIN read \cup {mine}
           With(kept) == [key \in kept |-> IF key = mine THEN counter ELSE read[key]]
<1>1. /\ hook[h].at = "count" /\ s \in Session /\ p \in Scope /\ w \in Hashes /\ f \in File
      /\ read = counters[f] /\ IsTable(read) /\ mine = <<s, p>>
      /\ f = (IF w = "invalid" THEN "root" ELSE p)
  BY FileKnown DEF Count, Working, HookInv, ReadUnderLock, HookAssumption, FileOf
<1>2. PICK kept \in SUBSET keys :
        /\ counters' = [counters EXCEPT ![f] = With(kept)]
        /\ streak' = [d \in Session |->
             IF \E key \in keys \ kept : key[1] = d THEN NoStreak
             ELSE IF d # s THEN streak[d]
             ELSE IF blocks > MAX_BLOCKS THEN NoStreak ELSE longer]
  BY Zenon DEF Count
<1>3. countsLock' = CountsUnlocked(h) /\ Put(h, HookAtRest) /\ UNCHANGED <<pipelines, hookChanges>>
  BY DEF Count
<1>4. BlocksCounted(h) \in Nat /\ MAX_BLOCKS \in Nat \ {0}
  BY <1>1 DEF BlocksCounted, IsTable, Counter, HookAssumption
<1>5. blocks = IF BlocksCounted(h) + 1 <= MAX_BLOCKS + 1 THEN BlocksCounted(h) + 1 ELSE MAX_BLOCKS + 1
  BY <1>4, LessOfTwo
<1>6. blocks \in Nat /\ blocks >= 1 /\ (blocks <= MAX_BLOCKS => blocks = BlocksCounted(h) + 1)
  BY <1>4, <1>5
\* The blocks of an unbroken streak were counted: this one makes them one more.
<1>7. /\ blocks <= MAX_BLOCKS => longer.counted \in 1..MAX_BLOCKS /\ longer.counted <= blocks
      /\ longer \in Streaks /\ longer.target = p /\ longer.hash = w
      /\ longer.blind \in Nat /\ (longer.blind # 0 => w = "invalid")
  <2>1. /\ t \in Streaks /\ t.target = p /\ t.hash = w /\ t.counted \in 0..MAX_BLOCKS
        /\ (t.blind # 0 => w = "invalid") /\ (t.counted # 0 => OnFile(s, p, w, t.counted))
    BY <1>1, SoFar DEF Working
  <2>2. BlocksCounted(h) >= t.counted
    BY <1>1, <1>4, <2>1 DEF OnFile, BlocksCounted
  <2> HIDE DEF t
  <2>3. /\ longer \in Streaks /\ longer.target = p /\ longer.hash = w
        /\ longer.blind = t.blind /\ longer.counted = t.counted + 1 /\ t.counted \in Nat /\ t.blind \in Nat
    BY <1>4, <2>1 DEF Streaks
  <2> DEFINE c == t.counted
             m == BlocksCounted(h)
  <2>4. c \in Nat /\ m \in Nat /\ m >= c
    BY <1>4, <2>2, <2>3
  <2> HIDE DEF c, m, longer, blocks
  <2>5. blocks <= MAX_BLOCKS => c + 1 \in 1..MAX_BLOCKS /\ c + 1 <= blocks
    BY <1>4, <1>6, <2>4 DEF m
  <2> QED
    BY <2>1, <2>3, <2>5 DEF c
<1>8. counter \in Counter /\ mine \in Session \X Scope
  BY <1>1, <1>6 DEF Counter
<1>9. IsTable(With(kept))
  BY <1>1, <1>2, <1>8, TableWith
<1> HIDE DEF blocks, counter, t, longer
<1>10. /\ DOMAIN counters' = File /\ counters'[f] = With(kept)
       /\ \A g \in File \ {f} : counters'[g] = counters[g]
  BY <1>1, <1>2 DEF HookInv, HookTyped
<1>11. ASSUME NEW d \in Session PROVE StreakBacked(d)' /\ streak'[d] \in Streaks
  <2>0. NoStreak \in Streaks
    BY DEF NoStreak, StreakOf, Streaks
  <2>1. CASE streak'[d] = NoStreak
    BY <2>0, <2>1 DEF StreakBacked
  <2>2. CASE d # s /\ streak'[d] # NoStreak
    <3> DEFINE q == streak[d].target
               v == streak[d].hash
               g == IF v = "invalid" THEN "root" ELSE q
    <3>1. streak'[d] = streak[d] /\ \A key \in keys \ kept : key[1] # d
      BY <1>2, <2>2
    <3>2. /\ g \in File /\ (streak[d].counted # 0 => OnFile(d, q, v, streak[d].counted))
          /\ q \in Scope /\ v \in Hashes /\ streak[d].counted \in 0..MAX_BLOCKS
          /\ streak[d].blind \in Nat /\ (streak[d].blind # 0 => v = "invalid")
      BY <2>2, <3>1 DEF StreakBacked, HookInv, HookTyped, File
    <3>3. <<d, q>> # mine /\ <<d, q>>[1] = d
      BY <1>1, <2>2
    <3>4. /\ <<d, q>> \in DOMAIN counters[g] => <<d, q>> \in DOMAIN counters'[g]
          /\ <<d, q>> \in DOMAIN counters[g] => counters'[g][<<d, q>>] = counters[g][<<d, q>>]
      <4>1. CASE g = f
        <5>1. <<d, q>> \in DOMAIN counters[g] => <<d, q>> \in kept
          BY <1>1, <3>1, <3>3, <4>1
        <5> QED
          BY <1>1, <1>10, <3>3, <4>1, <5>1
      <4>2. CASE g # f
        BY <1>10, <3>2, <4>2
      <4> QED
        BY <4>1, <4>2
    <3>5. streak[d].counted # 0 => OnFile(d, q, v, streak[d].counted)'
      BY <3>1, <3>2, <3>4 DEF OnFile
    <3> QED
      BY <3>1, <3>2, <3>5 DEF StreakBacked, HookInv, HookTyped
  <2>3. CASE d = s /\ streak'[d] # NoStreak
    <3>1. streak'[d] = longer /\ ~(blocks > MAX_BLOCKS) /\ \A key \in keys \ kept : key[1] # s
      BY <1>2, <2>3
    <3>2. blocks <= MAX_BLOCKS
      BY <1>4, <1>6, <3>1
    <3>3. /\ streak'[d].target = p /\ streak'[d].hash = w /\ streak'[d].counted \in 1..MAX_BLOCKS
          /\ streak'[d].counted <= blocks /\ streak'[d] \in Streaks
          /\ streak'[d].blind \in Nat /\ (streak'[d].blind # 0 => w = "invalid")
      BY <1>7, <3>1, <3>2
    <3>4. mine \in kept
      BY <1>1, <3>1
    <3>5. /\ mine \in DOMAIN counters'[f] /\ counters'[f][mine].hash = w
          /\ counters'[f][mine].blocks = blocks
      BY <1>10, <3>4 DEF counter
    <3>6. StreakBacked(d)'
      <4>1. PICK a \in Scope, b \in Hashes, n \in 0..MAX_BLOCKS :
              a = p /\ b = w /\ n = streak'[d].counted
        BY <1>1, <1>4, <3>3
      <4>2. /\ <<d, a>> \in DOMAIN counters'[IF b = "invalid" THEN "root" ELSE a]
            /\ counters'[IF b = "invalid" THEN "root" ELSE a][<<d, a>>].hash = b
            /\ counters'[IF b = "invalid" THEN "root" ELSE a][<<d, a>>].blocks >= n
        BY <1>1, <2>3, <3>3, <3>5, <4>1
      <4>3. OnFile(d, a, b, n)'
        BY <4>2 DEF OnFile
      <4> QED
        BY <3>3, <4>1, <4>3, BackedNow
    <3> QED
      BY <3>3, <3>6
  <2> QED
    BY <2>1, <2>2, <2>3
<1>12. streak' \in [Session -> Streaks]
  <2>1. \A d \in Session : streak'[d] \in Streaks
    BY <1>11
  <2> QED
    BY <1>2, <2>1, Zenon
<1> HIDE DEF With
<1> QED
  BY <1>1, <1>2, <1>3, <1>9, <1>11, <1>12, ReplaceStep

\* Whatever hooks, agents and people do next, a blocked session's counter stays on file
\* or its streak is over.
LEMMA HookInvStep == ASSUME HookAssumption, HookInv, [HookNext]_hookVars PROVE HookInv'
PROOF
<1>1. CASE HookNext
  BY <1>1, QuietActions, LockStep, ClearStep, CountStep, RemoveLockStep DEF HookNext
<1>2. CASE UNCHANGED hookVars
  <2>1. UNCHANGED <<scope, boundTo, openWork, counters, countsLock, hook, streak, hookChanges>>
    BY <1>2 DEF hookVars, pipelines
  <2> QED
    BY <2>1, QuietStep DEF HookInv, HookTyped
<1> QED
  BY <1>1, <1>2

\* For every number of sessions, pipelines and hooks, every limit of blocks and of counters
\* in a file and any order of the hooks' clocks: a session that stops again and again
\* without progress is let go after MAX_BLOCKS blocks, as long as its counter is kept. Blocks
\* for an invalid scope that a hook issues without the lock come on top: of them there may
\* be any number.
THEOREM HooksRelease == ASSUME HookAssumption PROVE HookSpec => []HookReleases
PROOF
<1>1. HookInit => HookInv
  BY HookInvInit
<1>2. HookInv /\ [HookNext]_hookVars => HookInv'
  BY HookInvStep
<1>3. HookInv => HookReleases
  <2> SUFFICES ASSUME HookInv, NEW s \in Session PROVE Blocks(s) <= MAX_BLOCKS + Uncounted(s)
    BY DEF HookReleases
  <2> DEFINE c == streak[s].counted
             b == streak[s].blind
  <2>1. /\ c \in Nat /\ c <= MAX_BLOCKS /\ b \in Nat /\ MAX_BLOCKS \in Nat
        /\ b # 0 => streak[s].hash = "invalid"
    BY DEF HookInv, StreakBacked, NoStreak, StreakOf, HookAssumption
  <2>2. Blocks(s) = c + b /\ Uncounted(s) = (IF streak[s].hash = "invalid" THEN b ELSE 0)
    BY DEF Blocks, Uncounted
  <2> HIDE DEF c, b
  <2>3. Uncounted(s) = b
    BY <2>1, <2>2
  <2> QED
    BY <2>1, <2>2, <2>3
<1> QED
  BY <1>1, <1>2, <1>3, PTL DEF HookSpec
-----------------------------------------------------------------------------
(***************************************************************************)
(* Proofs about GateCoordination. Whoever holds a lock is the only process  *)
(* that writes the file, so that what it prepared from reading it is still  *)
(* what its command makes of the file, and what it is about to answer is    *)
(* still on file. Every prepared wave passed validateState and extends the  *)
(* one before, and a granted lease overlaps no pattern of another leaf.     *)
(***************************************************************************)

WaveStates == {"none", "open", "sealed", "complete", "abandoned"}
Handles == Handle \cup {NoOne}
IsWave(w) ==
  /\ w \in [state : WaveStates, started : [Leaf -> Handles], returned : SUBSET Leaf]
  /\ w.state = "none" => w = NoWave
IsLeases(held) == DOMAIN held = Leaf /\ \A l \in Leaf : held[l] \in {{}, Owns[l]}

Commands == DispatchCommand \cup LeaseCommand
LockHolder == {"holding", "writing", "done", "refused"}

SharedTyped ==
  /\ IsWave(wave) /\ IsLeases(leases)
  /\ fileLock \in [{"dispatch", "leases"} -> Process \cup {NoOne}]
  /\ DOMAIN process = Process
  /\ \A p \in Process :
       /\ DOMAIN process[p] = {"at", "cmd", "read"} /\ process[p].at \in LockHolder \cup {"idle", "dead"}
       /\ process[p].at \in LockHolder => process[p].cmd \in Commands
  /\ told \in [started : [Leaf -> Handles], returned : SUBSET Leaf, holds : SUBSET Leaf]

\* What a command may write, given what is on file.
Prepared(cmd) ==
  IF cmd.file = "dispatch" THEN {w \in Updated(wave, cmd) : ValidWave(w)} ELSE LeasesAfter(leases, cmd)

\* What a command that is done will say is on file.
AnswerHolds(cmd) ==
  /\ cmd.do = "start" => wave.started[cmd.leaf] = cmd.handle
  /\ cmd.do = "return" => cmd.leaf \in wave.returned
  /\ cmd.do = "claim" => leases[cmd.leaf] = Owns[cmd.leaf]

HolderInv(p) ==
  /\ process[p].at \in LockHolder => fileLock[process[p].cmd.file] = p
  /\ process[p].at = "writing" => process[p].read = Prepared(process[p].cmd)
  /\ process[p].at = "done" => AnswerHolds(process[p].cmd)

Apart(held) == \A l, m \in Leaf : l # m => \A a \in held[l], b \in held[m] : ~globsOverlap(a, b)

ToldHolds ==
  /\ \A l \in Leaf : told.started[l] # NoOne => wave.started[l] = told.started[l]
  /\ told.returned \subseteq wave.returned
  /\ \A l \in told.holds : leases[l] = Owns[l]

SharedInv ==
  /\ SharedTyped /\ ValidWave(wave) /\ Apart(leases) /\ ToldHolds
  /\ \A p \in Process : HolderInv(p)

(* Commands and what they make of a file. *)

LEMMA CommandCases ==
  ASSUME NEW cmd \in Commands
  PROVE  \/ /\ cmd.file = "dispatch"
            /\ \/ cmd.do \in {"open", "seal", "abandon"}
               \/ cmd.do = "start" /\ cmd.leaf \in Leaf /\ cmd.handle \in Handle
               \/ cmd.do = "return" /\ cmd.leaf \in Leaf
         \/ /\ cmd.file = "leases"
            /\ \/ cmd.do = "claim" /\ cmd.leaf \in Leaf
               \/ cmd.do = "release" /\ cmd.leaf \in Leaf \cup {NoOne}
PROOF
  BY DEF Commands, DispatchCommand, LeaseCommand

\* A wave only grows: launches and returns on file stay, and what the command adds is there.
LEMMA WaveGrows ==
  ASSUME CoordinationAssumption, NEW w, IsWave(w), NEW cmd \in Commands, cmd.file = "dispatch",
         NEW v \in Updated(w, cmd)
  PROVE  /\ IsWave(v) /\ w.returned \subseteq v.returned
         /\ \A l \in Leaf : w.started[l] # NoOne => v.started[l] = w.started[l]
         /\ cmd.do = "start" => v.started[cmd.leaf] = cmd.handle
         /\ cmd.do = "return" => cmd.leaf \in v.returned
PROOF
<1>1. /\ w.state \in WaveStates /\ w.started \in [Leaf -> Handles] /\ w.returned \subseteq Leaf
      /\ w \in [state : WaveStates, started : [Leaf -> Handles], returned : SUBSET Leaf]
  BY DEF IsWave
<1>2. CASE cmd.do = "open"
  <2>1. w = NoWave /\ v = [NoWave EXCEPT !.state = "open"]
    BY <1>2 DEF Updated, Opened, IsWave
  <2>2. v = [state |-> "open", started |-> [l \in Leaf |-> NoOne], returned |-> {}]
    BY <2>1 DEF NoWave
  <2>3. w.returned = {} /\ \A l \in Leaf : w.started[l] = NoOne
    BY <2>1 DEF NoWave
  <2> QED
    BY <1>2, <2>2, <2>3 DEF IsWave, WaveStates, Handles
<1>3. CASE cmd.do = "start"
  <2>1. cmd.leaf \in Leaf /\ cmd.handle \in Handle
    BY <1>3, CommandCases
  <2>2. /\ w.state = "open" /\ w.started[cmd.leaf] = NoOne
        /\ v = [w EXCEPT !.started[cmd.leaf] = cmd.handle]
    BY <1>3 DEF Updated, Started
  <2>3. /\ v.state = "open" /\ v.returned = w.returned
        /\ v.started = [w.started EXCEPT ![cmd.leaf] = cmd.handle]
        /\ v \in [state : WaveStates, started : [Leaf -> Handles], returned : SUBSET Leaf]
    BY <1>1, <2>1, <2>2 DEF Handles
  <2> QED
    BY <1>1, <1>3, <2>1, <2>2, <2>3 DEF IsWave
<1>4. CASE cmd.do = "return"
  <2>1. cmd.leaf \in Leaf
    BY <1>4, CommandCases
  <2>2. /\ w.state = "sealed"
        /\ v = [w EXCEPT !.returned = @ \cup {cmd.leaf},
                         !.state = IF w.returned \cup {cmd.leaf} = Leaf THEN "complete" ELSE @]
    BY <1>4 DEF Updated, Returned
  <2>3. /\ v.state \in {"sealed", "complete"} /\ v.returned = w.returned \cup {cmd.leaf}
        /\ v.started = w.started
        /\ v \in [state : WaveStates, started : [Leaf -> Handles], returned : SUBSET Leaf]
    BY <1>1, <2>1, <2>2 DEF WaveStates
  <2> QED
    BY <1>4, <2>1, <2>3 DEF IsWave
<1>5. CASE cmd.do \in {"seal", "abandon"}
  <2>1. \E s \in {"sealed", "abandoned"} : v = [w EXCEPT !.state = s]
    BY <1>5 DEF Updated, Sealed, Abandoned
  <2>2. /\ v.state \in {"sealed", "abandoned"} /\ v.returned = w.returned /\ v.started = w.started
        /\ v \in [state : WaveStates, started : [Leaf -> Handles], returned : SUBSET Leaf]
    BY <1>1, <2>1 DEF WaveStates
  <2> QED
    BY <1>5, <2>2 DEF IsWave
<1> QED
  BY <1>2, <1>3, <1>4, <1>5, CommandCases

LEMMA OverlapSymmetric ==
  ASSUME NEW a, NEW b, globsOverlap(a, b)
  PROVE  globsOverlap(b, a)
PROOF
<1>1. {Len(a), Len(b)} = {Len(b), Len(a)}
  OBVIOUS
<1>2. \A i : SegmentsDiffer(a, b, i) <=> SegmentsDiffer(b, a, i)
  BY DEF SegmentsDiffer
<1> DEFINE m == Min({Len(a), Len(b)})
<1>3. m = Min({Len(b), Len(a)})
  BY <1>1
<1> HIDE DEF m
<1>4. ~\E i \in 1..m : SegmentsDiffer(a, b, i) /\ \A j \in 1..i - 1 : a[j] \notin Wild /\ b[j] \notin Wild
  BY DEF globsOverlap, m
<1> QED
  BY <1>2, <1>3, <1>4, Zenon DEF globsOverlap

\* A granted lease overlaps no pattern of another leaf, and only the leases that the
\* command names change.
LEMMA LeasesStayApart ==
  ASSUME CoordinationAssumption, NEW held, IsLeases(held), Apart(held),
         NEW cmd \in Commands, cmd.file = "leases", NEW new \in LeasesAfter(held, cmd)
  PROVE  /\ IsLeases(new) /\ Apart(new)
         /\ cmd.do = "claim" => new[cmd.leaf] = Owns[cmd.leaf]
         /\ \A l \in Leaf : cmd.leaf \notin {l, NoOne} => new[l] = held[l]
         /\ \A l \in Leaf : held[l] # {} /\ new[l] # {} => new[l] = held[l]
PROOF
<1>1. CASE cmd.do = "claim"
  <2>1. /\ cmd.leaf \in Leaf /\ held[cmd.leaf] = {} /\ ~Conflict(held, cmd.leaf)
        /\ new = [held EXCEPT ![cmd.leaf] = Owns[cmd.leaf]]
    BY <1>1, CommandCases DEF LeasesAfter
  <2>2. new[cmd.leaf] = Owns[cmd.leaf] /\ \A l \in Leaf : l # cmd.leaf => new[l] = held[l]
    BY <2>1 DEF IsLeases
  <2>3. \A m \in Leaf : \A a \in Owns[cmd.leaf], b \in held[m] : ~globsOverlap(a, b)
    BY <2>1 DEF Conflict
  <2>4. \A m \in Leaf : \A a \in held[m], b \in Owns[cmd.leaf] : ~globsOverlap(a, b)
    BY <2>3, OverlapSymmetric
  <2>5. Apart(new)
    <3> SUFFICES ASSUME NEW l \in Leaf, NEW m \in Leaf, l # m, NEW a \in new[l], NEW b \in new[m]
                 PROVE  ~globsOverlap(a, b)
      BY DEF Apart
    <3>1. CASE l = cmd.leaf
      BY <2>2, <2>3, <3>1
    <3>2. CASE m = cmd.leaf
      BY <2>2, <2>4, <3>2
    <3>3. CASE l # cmd.leaf /\ m # cmd.leaf
      BY <2>2, <3>3 DEF Apart
    <3> QED
      BY <3>1, <3>2, <3>3
  <2> QED
    BY <1>1, <2>1, <2>2, <2>5 DEF IsLeases
<1>2. CASE cmd.do = "release"
  <2>1. new = [l \in Leaf |-> IF cmd.leaf \in {l, NoOne} THEN {} ELSE held[l]]
    BY <1>2 DEF LeasesAfter
  <2>2. Apart(new)
    BY <2>1 DEF Apart
  <2> QED
    BY <1>2, <2>1, <2>2 DEF IsLeases
<1> QED
  BY <1>1, <1>2, CommandCases

\* Two patterns that cover one path overlap.
LEMMA CoveredOnce ==
  ASSUME NEW a, NEW b, NEW path, Len(a) \in Nat, Len(b) \in Nat, Len(path) \in Nat,
         Covers(a, path), Covers(b, path)
  PROVE  globsOverlap(a, b)
PROOF
<1> DEFINE m == Min({Len(a), Len(b)})
<1>1. m \in Nat /\ m <= Len(a) /\ m <= Len(b)
  BY LessOfTwo
<1> HIDE DEF m
<1>2. \A i \in 1..m : ~SegmentsDiffer(a, b, i)
  BY <1>1 DEF Covers, SegmentsDiffer
<1> QED
  BY <1>2 DEF globsOverlap, m

LEMMA SharedInvInit == ASSUME CoordinationAssumption, CoordinationInit PROVE SharedInv
PROOF
<1>1. IsWave(wave) /\ Missing(wave) = Leaf
  BY DEF CoordinationInit, NoWave, IsWave, WaveStates, Handles, Missing
<1>2. ValidWave(wave)
  <2>1. wave.state = "none" /\ wave.returned = {} /\ \A l \in Leaf : wave.started[l] = NoOne
    BY DEF CoordinationInit, NoWave
  <2> QED
    BY <2>1 DEF ValidWave, CoordinationAssumption
<1>3. \A p \in Process : process[p] = NoCommand
  BY DEF CoordinationInit
<1>4. SharedTyped
  <2>1. told \in [started : [Leaf -> Handles], returned : SUBSET Leaf, holds : SUBSET Leaf]
    BY DEF CoordinationInit, NoWave, Handles
  <2>2. \A p \in Process : DOMAIN process[p] = {"at", "cmd", "read"} /\ process[p].at = "idle"
    BY <1>3 DEF NoCommand
  <2> QED
    BY <1>1, <2>1, <2>2 DEF CoordinationInit, SharedTyped, IsLeases, LockHolder
<1>5. \A p \in Process : HolderInv(p)
  BY <1>3 DEF HolderInv, NoCommand, LockHolder
<1>6. Apart(leases)
  BY DEF CoordinationInit, Apart
<1>7. ToldHolds
  BY DEF CoordinationInit, ToldHolds, NoWave
<1> QED
  BY <1>2, <1>4, <1>5, <1>6, <1>7 DEF SharedInv

(* One step of a process: what it does to its own record, and that nobody else is *)
(* disturbed.                                                                     *)

LEMMA TakeStep == ASSUME CoordinationAssumption, SharedInv, NEW p \in Process, TakeFileLock(p) PROVE SharedInv'
PROOF
<1>1. PICK cmd \in Commands :
        /\ fileLock[cmd.file] = NoOne /\ fileLock' = [fileLock EXCEPT ![cmd.file] = p]
        /\ process' = [process EXCEPT ![p] = [NoCommand EXCEPT !.at = "holding", !.cmd = cmd]]
  BY DEF TakeFileLock, Commands, Free, Set
<1>2. UNCHANGED <<wave, leases, told>>
  BY DEF TakeFileLock
<1>3. cmd.file \in {"dispatch", "leases"}
  BY CommandCases
<1>4. /\ DOMAIN process'[p] = {"at", "cmd", "read"} /\ process'[p].at = "holding"
      /\ process'[p].cmd = cmd
  BY <1>1 DEF SharedInv, SharedTyped, NoCommand
<1>5. DOMAIN process' = Process /\ \A q \in Process \ {p} : process'[q] = process[q]
  BY <1>1 DEF SharedInv, SharedTyped
<1>6. SharedTyped'
  BY <1>1, <1>2, <1>3, <1>4, <1>5 DEF SharedInv, SharedTyped, LockHolder
<1>7. \A q \in Process : HolderInv(q)'
  <2>1. HolderInv(p)'
    BY <1>1, <1>3, <1>4 DEF SharedInv, SharedTyped, HolderInv
  <2>2. ASSUME NEW q \in Process \ {p} PROVE HolderInv(q)'
    <3>1. process[q].at \in LockHolder => process[q].cmd.file # cmd.file
      BY <1>1, <2>2 DEF SharedInv, HolderInv, CoordinationAssumption
    <3>2. process[q].at \in LockHolder => process[q].cmd.file \in {"dispatch", "leases"}
      BY CommandCases DEF SharedInv, SharedTyped
    <3> QED
      BY <1>1, <1>2, <1>5, <3>1, <3>2 DEF SharedInv, SharedTyped, HolderInv, Prepared, AnswerHolds
  <2> QED
    BY <2>1, <2>2
<1> QED
  BY <1>2, <1>6, <1>7 DEF SharedInv, ToldHolds

LEMMA ReadStep == ASSUME CoordinationAssumption, SharedInv, NEW p \in Process, Read(p) PROVE SharedInv'
PROOF
<1> DEFINE cmd == process[p].cmd
<1>1. UNCHANGED <<wave, leases, fileLock, told>> /\ process[p].at = "holding"
  BY DEF Read
<1>2. \/ process' = [process EXCEPT ![p] = [process[p] EXCEPT !.at = "writing", !.read = Prepared(cmd)]]
      \/ process' = [process EXCEPT ![p] = [process[p] EXCEPT !.at = "refused"]]
  BY DEF Read, Set, Prepared
<1>3. /\ DOMAIN process'[p] = {"at", "cmd", "read"} /\ process'[p].cmd = cmd
      /\ \/ process'[p].at = "writing" /\ process'[p].read = Prepared(cmd)
         \/ process'[p].at = "refused"
  <2>1. DOMAIN process = Process /\ DOMAIN process[p] = {"at", "cmd", "read"}
    BY DEF SharedInv, SharedTyped
  <2>2. CASE process' = [process EXCEPT ![p] = [process[p] EXCEPT !.at = "writing", !.read = Prepared(cmd)]]
    <3>1. process'[p] = [process[p] EXCEPT !.at = "writing", !.read = Prepared(cmd)]
      BY <2>1, <2>2, Zenon
    <3> QED BY <2>1, <3>1
  <2>3. CASE process' = [process EXCEPT ![p] = [process[p] EXCEPT !.at = "refused"]]
    <3>1. process'[p] = [process[p] EXCEPT !.at = "refused"]
      BY <2>1, <2>3, Zenon
    <3> QED BY <2>1, <3>1
  <2> QED BY <1>2, <2>2, <2>3
<1>4. DOMAIN process' = Process /\ \A q \in Process \ {p} : process'[q] = process[q]
  BY <1>2 DEF SharedInv, SharedTyped
<1>5. SharedTyped'
  BY <1>1, <1>3, <1>4 DEF SharedInv, SharedTyped, LockHolder
<1>6. \A q \in Process : HolderInv(q)'
  BY <1>1, <1>3, <1>4 DEF SharedInv, HolderInv, Prepared, AnswerHolds, LockHolder
<1> QED
  BY <1>1, <1>5, <1>6 DEF SharedInv, ToldHolds

LEMMA WriteStep == ASSUME CoordinationAssumption, SharedInv, NEW p \in Process, Write(p) PROVE SharedInv'
PROOF
<1> DEFINE cmd == process[p].cmd
<1>1. /\ process[p].at = "writing" /\ UNCHANGED fileLock
      /\ process' = [process EXCEPT ![p] = [process[p] EXCEPT !.at = "done", !.read = {}]]
  BY DEF Write, Set
<1>2. /\ process[p].read = Prepared(cmd) /\ cmd \in Commands /\ fileLock[cmd.file] = p
      /\ cmd.file \in {"dispatch", "leases"}
  BY <1>1, CommandCases DEF SharedInv, SharedTyped, HolderInv, LockHolder
<1>3. /\ DOMAIN process'[p] = {"at", "cmd", "read"} /\ process'[p].cmd = cmd /\ process'[p].at = "done"
      /\ DOMAIN process' = Process /\ \A q \in Process \ {p} : process'[q] = process[q]
  BY <1>1 DEF SharedInv, SharedTyped
\* The others that hold a lock hold that of the other file.
<1>4. ASSUME NEW q \in Process \ {p}, process[q].at \in LockHolder
      PROVE  process[q].cmd.file # cmd.file /\ process[q].cmd \in Commands
  BY <1>2, <1>4 DEF SharedInv, SharedTyped, HolderInv
<1>5. CASE cmd.file = "dispatch"
  <2>1. wave' \in Updated(wave, cmd) /\ ValidWave(wave') /\ UNCHANGED <<leases, told>>
    BY <1>2, <1>5 DEF Write, Prepared
  <2>2. /\ IsWave(wave') /\ wave.returned \subseteq wave'.returned
        /\ \A l \in Leaf : wave.started[l] # NoOne => wave'.started[l] = wave.started[l]
        /\ cmd.do = "start" => wave'.started[cmd.leaf] = cmd.handle
        /\ cmd.do = "return" => cmd.leaf \in wave'.returned
    <3>1. \A w, v : /\ IsWave(w) /\ v \in Updated(w, cmd)
                    => /\ IsWave(v) /\ w.returned \subseteq v.returned
                       /\ \A l \in Leaf : w.started[l] # NoOne => v.started[l] = w.started[l]
                       /\ cmd.do = "start" => v.started[cmd.leaf] = cmd.handle
                       /\ cmd.do = "return" => cmd.leaf \in v.returned
      BY <1>2, <1>5, WaveGrows
    <3> QED
      BY <2>1, <3>1 DEF SharedInv, SharedTyped
  <2>3. SharedTyped'
    BY <1>1, <1>2, <1>3, <2>1, <2>2 DEF SharedInv, SharedTyped, LockHolder
  <2>4. ToldHolds'
    BY <2>1, <2>2 DEF SharedInv, SharedTyped, ToldHolds
  <2>5. HolderInv(p)'
    <3>1. cmd.do # "claim"
      BY <1>2, <1>5, CommandCases
    <3> QED
      BY <1>1, <1>2, <1>3, <2>2, <3>1 DEF HolderInv, AnswerHolds
  <2>6. ASSUME NEW q \in Process \ {p} PROVE HolderInv(q)'
    <3>1. CASE process[q].at \in LockHolder
      <4>1. process[q].cmd.file = "leases" /\ process[q].cmd.do \in {"claim", "release"}
        BY <1>4, <1>5, <3>1, CommandCases
      <4> QED
        BY <1>1, <1>3, <2>1, <4>1 DEF SharedInv, HolderInv, Prepared, AnswerHolds
    <3>2. CASE process[q].at \notin LockHolder
      BY <1>3, <3>2 DEF HolderInv, LockHolder
    <3> QED
      BY <3>1, <3>2
  <2> QED
    BY <2>1, <2>3, <2>4, <2>5, <2>6 DEF SharedInv
<1>6. CASE cmd.file = "leases"
  <2>1. PICK new \in LeasesAfter(leases, cmd) :
          leases' = [l \in Leaf |-> IF cmd.leaf \in {l, NoOne} THEN new[l] ELSE leases[l]]
    BY <1>2, <1>6 DEF Write, Prepared
  <2>2. told' = [told EXCEPT !.holds = {l \in @ : leases'[l] # {}}] /\ UNCHANGED wave
    BY <1>6 DEF Write
  <2>3. /\ IsLeases(new) /\ Apart(new) /\ (cmd.do = "claim" => new[cmd.leaf] = Owns[cmd.leaf])
        /\ \A l \in Leaf : cmd.leaf \notin {l, NoOne} => new[l] = leases[l]
        /\ \A l \in Leaf : leases[l] # {} /\ new[l] # {} => new[l] = leases[l]
    BY <1>2, <1>6, <2>1, LeasesStayApart DEF SharedInv, SharedTyped
  <2>4. /\ DOMAIN leases' = Leaf /\ \A l \in Leaf : leases'[l] = new[l]
        /\ IsLeases(leases') /\ Apart(leases')
    <3>1. DOMAIN leases' = Leaf /\ \A l \in Leaf : leases'[l] = new[l]
      BY <2>1, <2>3
    <3> QED
      BY <2>3, <3>1 DEF IsLeases, Apart
  <2>5. /\ told'.started = told.started /\ told'.returned = told.returned
        /\ told'.holds = {l \in told.holds : new[l] # {}}
        /\ told' \in [started : [Leaf -> Handles], returned : SUBSET Leaf, holds : SUBSET Leaf]
    BY <2>2, <2>4 DEF SharedInv, SharedTyped
  <2>6. SharedTyped'
    BY <1>1, <1>2, <1>3, <2>2, <2>3, <2>4, <2>5 DEF SharedInv, SharedTyped, LockHolder
  <2>7. ToldHolds'
    <3>1. \A l \in told'.holds : leases'[l] = Owns[l]
      BY <2>3, <2>4, <2>5 DEF SharedInv, SharedTyped, ToldHolds, CoordinationAssumption
    <3> QED
      BY <2>2, <2>5, <3>1 DEF SharedInv, ToldHolds
  <2>8. HolderInv(p)'
    <3>1. cmd.do \notin {"start", "return"}
      BY <1>2, <1>6, CommandCases
    <3> QED
      <4>1. cmd.do = "claim" => leases'[cmd.leaf] = Owns[cmd.leaf]
        BY <1>2, <2>3, <2>4, CommandCases
      <4> QED
        BY <1>1, <1>2, <1>3, <3>1, <4>1 DEF HolderInv, AnswerHolds
  <2>9. ASSUME NEW q \in Process \ {p} PROVE HolderInv(q)'
    <3>1. CASE process[q].at \in LockHolder
      <4>1. process[q].cmd.file = "dispatch" /\ process[q].cmd.do # "claim"
        BY <1>4, <1>6, <3>1, CommandCases
      <4> QED
        BY <1>1, <1>3, <2>2, <4>1 DEF SharedInv, HolderInv, Prepared, AnswerHolds
    <3>2. CASE process[q].at \notin LockHolder
      BY <1>3, <3>2 DEF HolderInv, LockHolder
    <3> QED
      BY <3>1, <3>2
  <2> QED
    BY <2>2, <2>3, <2>4, <2>6, <2>7, <2>8, <2>9 DEF SharedInv
<1> QED
  BY <1>2, <1>5, <1>6

LEMMA LeaveStep == ASSUME CoordinationAssumption, SharedInv, NEW p \in Process, LeaveFileLock(p) PROVE SharedInv'
PROOF
<1> DEFINE cmd == process[p].cmd
<1>1. /\ process[p].at \in {"done", "refused"} /\ UNCHANGED <<wave, leases>>
      /\ fileLock' = FileUnlocked(p, cmd.file) /\ process' = [process EXCEPT ![p] = NoCommand]
  BY DEF LeaveFileLock, Set
<1>2. /\ cmd \in Commands /\ fileLock[cmd.file] = p /\ cmd.file \in {"dispatch", "leases"}
  BY <1>1, CommandCases DEF SharedInv, SharedTyped, HolderInv, LockHolder
<1>3. fileLock' = [fileLock EXCEPT ![cmd.file] = NoOne]
  BY <1>1, <1>2 DEF FileUnlocked
<1>4. /\ DOMAIN process'[p] = {"at", "cmd", "read"} /\ process'[p].at = "idle"
      /\ DOMAIN process' = Process /\ \A q \in Process \ {p} : process'[q] = process[q]
  BY <1>1 DEF SharedInv, SharedTyped, NoCommand
<1>5. /\ told' \in [started : [Leaf -> Handles], returned : SUBSET Leaf, holds : SUBSET Leaf]
      /\ ToldHolds'
  <2>1. CASE process[p].at = "refused"
    BY <1>1, <2>1 DEF LeaveFileLock, SharedInv, SharedTyped, ToldHolds
  <2>2. CASE process[p].at = "done"
    <3>1. told' = Told(cmd) /\ AnswerHolds(cmd)
      BY <2>2 DEF LeaveFileLock, SharedInv, HolderInv
    <3>2. CASE cmd.do = "start"
      <4>1. cmd.leaf \in Leaf /\ cmd.handle \in Handle /\ told' = [told EXCEPT !.started[cmd.leaf] = cmd.handle]
        BY <1>2, <3>1, <3>2, CommandCases DEF Told
      <4>2. /\ told'.started = [told.started EXCEPT ![cmd.leaf] = cmd.handle]
            /\ told'.returned = told.returned /\ told'.holds = told.holds
            /\ told' \in [started : [Leaf -> Handles], returned : SUBSET Leaf, holds : SUBSET Leaf]
        BY <4>1 DEF SharedInv, SharedTyped, Handles
      <4> QED
        BY <1>1, <3>1, <3>2, <4>1, <4>2 DEF SharedInv, SharedTyped, ToldHolds, AnswerHolds
    <3>3. CASE cmd.do = "return"
      <4>1. cmd.leaf \in Leaf /\ told' = [told EXCEPT !.returned = @ \cup {cmd.leaf}]
        BY <1>2, <3>1, <3>3, CommandCases DEF Told
      <4>2. /\ told'.returned = told.returned \cup {cmd.leaf}
            /\ told'.started = told.started /\ told'.holds = told.holds
            /\ told' \in [started : [Leaf -> Handles], returned : SUBSET Leaf, holds : SUBSET Leaf]
        BY <4>1 DEF SharedInv, SharedTyped
      <4> QED
        BY <1>1, <3>1, <3>3, <4>2 DEF SharedInv, ToldHolds, AnswerHolds
    <3>4. CASE cmd.do = "claim"
      <4>1. cmd.leaf \in Leaf /\ told' = [told EXCEPT !.holds = @ \cup {cmd.leaf}]
        BY <1>2, <3>1, <3>4, CommandCases DEF Told
      <4>2. /\ told'.holds = told.holds \cup {cmd.leaf}
            /\ told'.started = told.started /\ told'.returned = told.returned
            /\ told' \in [started : [Leaf -> Handles], returned : SUBSET Leaf, holds : SUBSET Leaf]
        BY <4>1 DEF SharedInv, SharedTyped
      <4> QED
        BY <1>1, <3>1, <3>4, <4>2 DEF SharedInv, ToldHolds, AnswerHolds
    <3>5. CASE cmd.do \notin {"start", "return", "claim"}
      BY <1>1, <3>1, <3>5 DEF Told, SharedInv, SharedTyped, ToldHolds
    <3> QED
      BY <3>2, <3>3, <3>4, <3>5
  <2> QED
    BY <1>1, <2>1, <2>2
<1>6. SharedTyped'
  BY <1>1, <1>2, <1>3, <1>4, <1>5 DEF SharedInv, SharedTyped, LockHolder
<1>7. ASSUME NEW q \in Process PROVE HolderInv(q)'
  <2>1. CASE q = p
    BY <1>4, <2>1 DEF HolderInv, LockHolder
  <2>2. CASE q # p /\ process[q].at \in LockHolder
    <3>1. process[q].cmd.file # cmd.file /\ process[q].cmd.file \in {"dispatch", "leases"}
      BY <1>2, <2>2, CommandCases DEF SharedInv, SharedTyped, HolderInv
    <3> QED
      BY <1>1, <1>3, <1>4, <2>2, <3>1, SMTT(30) DEF SharedInv, SharedTyped, HolderInv, Prepared, AnswerHolds
  <2>3. CASE q # p /\ process[q].at \notin LockHolder
    BY <1>4, <2>3 DEF HolderInv, LockHolder
  <2> QED
    BY <2>1, <2>2, <2>3
<1> QED
  BY <1>1, <1>5, <1>6, <1>7 DEF SharedInv

LEMMA CrashStep == ASSUME SharedInv, NEW p \in Process, Crash(p) PROVE SharedInv'
PROOF
<1>1. /\ process' = [process EXCEPT ![p] = [NoCommand EXCEPT !.at = "dead"]]
      /\ UNCHANGED <<wave, leases, fileLock, told>>
  BY DEF Crash, Set
<1>2. /\ DOMAIN process'[p] = {"at", "cmd", "read"} /\ process'[p].at = "dead"
      /\ DOMAIN process' = Process /\ \A q \in Process \ {p} : process'[q] = process[q]
  BY <1>1 DEF SharedInv, SharedTyped, NoCommand
<1>3. SharedTyped'
  BY <1>1, <1>2 DEF SharedInv, SharedTyped, LockHolder
<1>4. \A q \in Process : HolderInv(q)'
  BY <1>1, <1>2 DEF SharedInv, HolderInv, Prepared, AnswerHolds, LockHolder
<1> QED
  BY <1>1, <1>3, <1>4 DEF SharedInv, ToldHolds

LEMMA RemoveFileLockStep ==
  ASSUME CoordinationAssumption, SharedInv, NEW f \in DOMAIN fileLock, RemoveFileLock(f)
  PROVE  SharedInv'
PROOF
<1>1. /\ process[fileLock[f]].at = "dead" /\ fileLock' = [fileLock EXCEPT ![f] = NoOne]
      /\ UNCHANGED <<wave, leases, process, told>>
  BY DEF RemoveFileLock
<1>2. SharedTyped'
  BY <1>1 DEF SharedInv, SharedTyped
<1>3. ASSUME NEW q \in Process PROVE HolderInv(q)'
  <2>1. process[q].at \in LockHolder => process[q].cmd.file # f /\ process[q].cmd.file \in {"dispatch", "leases"}
    BY <1>1, CommandCases DEF SharedInv, SharedTyped, HolderInv, LockHolder
  <2> QED
    BY <1>1, <2>1 DEF SharedInv, SharedTyped, HolderInv, Prepared, AnswerHolds
<1> QED
  BY <1>1, <1>2, <1>3 DEF SharedInv, ToldHolds

LEMMA SharedInvStep ==
  ASSUME CoordinationAssumption, SharedInv, [CoordinationNext]_coordinationVars
  PROVE  SharedInv'
PROOF
<1>1. CASE CoordinationNext
  BY <1>1, TakeStep, ReadStep, WriteStep, LeaveStep, CrashStep, RemoveFileLockStep DEF CoordinationNext
<1>2. CASE UNCHANGED coordinationVars
  BY <1>2 DEF coordinationVars, SharedInv, SharedTyped, ToldHolds, HolderInv, Prepared, AnswerHolds
<1> QED
  BY <1>1, <1>2

\* For every number of processes, leaves, handles and patterns of paths, wherever processes
\* die: an acknowledged launch, return or lease is on file, nobody returns before all were
\* launched, and no path is leased to two leaves.
THEOREM SharedFilesStay == ASSUME CoordinationAssumption PROVE CoordinationSpec => []SharedFilesAgree
PROOF
<1>1. CoordinationInit => SharedInv
  BY SharedInvInit
<1>2. SharedInv /\ [CoordinationNext]_coordinationVars => SharedInv'
  BY SharedInvStep
<1>3. SharedInv => SharedFilesAgree
  <2> SUFFICES ASSUME SharedInv PROVE SharedFilesAgree
    OBVIOUS
  <2>1. WaveKeepsEvents
    BY DEF SharedInv, SharedTyped, ToldHolds, ValidWave, WaveKeepsEvents
  <2>2. \A l, m \in Leaf : l # m =>
          ~\E a \in leases[l], b \in leases[m] : \E path \in RepoPath : Covers(a, path) /\ Covers(b, path)
    <3> SUFFICES ASSUME NEW l \in Leaf, NEW m \in Leaf, l # m, NEW a \in leases[l], NEW b \in leases[m],
                        NEW path \in RepoPath, Covers(a, path), Covers(b, path)
                 PROVE  FALSE
      OBVIOUS
    <3>1. Len(a) \in Nat /\ Len(b) \in Nat /\ Len(path) \in Nat
      BY DEF SharedInv, SharedTyped, IsLeases, CoordinationAssumption
    <3> QED
      BY <3>1, CoveredOnce DEF SharedInv, Apart
  <2>3. \A l \in told.holds : leases[l] = Owns[l]
    BY DEF SharedInv, ToldHolds
  <2> QED
    BY <2>1, <2>2, <2>3 DEF SharedFilesAgree, LeasesDisjoint
<1> QED
  BY <1>1, <1>2, <1>3, PTL DEF CoordinationSpec

-----------------------------------------------------------------------------
(***************************************************************************)
(* Proofs about GateLedger. What a parse says of a text, and that a result  *)
(* written back changes the state and the evidence of one gate and nothing  *)
(* else a reader sees. A checker that has the lock works on the text of the *)
(* ledger, unless the editor saved since. What its tasks found holds for    *)
(* all the commands of the ledger: each has a task, and a gate that is met  *)
(* was found met by a task still to be written, or was written since.       *)
(***************************************************************************)

LEMMA LeastOf ==
  ASSUME NEW R, IsWellFoundedOn(R, Nat), \A x, y \in Nat : y < x => <<y, x>> \in R,
         NEW T, T \subseteq Nat, T # {}
  PROVE  \E x \in T : \A y \in T : x <= y
<1>1. PICK x \in T : \A y \in T : ~(<<y, x>> \in R)
  BY WFMin
<1>2. ASSUME NEW y \in T PROVE x <= y
  <2>1. x \in Nat /\ y \in Nat
    OBVIOUS
  <2>2. ~(y < x)
    BY <1>1, <2>1
  <2> QED BY <2>1, <2>2
<1> QED BY <1>2

LEMMA LeastNatural ==
  ASSUME NEW T, T \subseteq Nat, T # {} PROVE \E x \in T : \A y \in T : x <= y
<1> DEFINE R == OpToRel(<, Nat)
<1>1. IsWellFoundedOn(R, Nat)
  BY NatLessThanWellFounded
<1>2. \A x, y \in Nat : y < x => <<y, x>> \in R
  <2>1. R = {ss \in Nat \X Nat : ss[1] < ss[2]}
    BY Zenon DEF OpToRel
  <2> HIDE DEF R
  <2> QED BY <2>1
<1> HIDE DEF R
<1> QED BY <1>1, <1>2, LeastOf

\* The provers do not know that a literal is a string.
Str == STRING \cup {"-", "", "attr", "evidence", "pending", "x", " "}
TextLine == [kind : Str, id : Str, key : Str, value : Str]
GateRecord ==
  [id : Str, line : Nat, checked : BOOLEAN, check : Str, expect : Str, cwd : Str,
   evidence : Str, evidenceLine : Nat]
ParseState ==
  [gates : Seq(GateRecord), abandoned : SUBSET Str, owns : SUBSET Str,
   errors : BOOLEAN, current : Nat, fenced : BOOLEAN]
IsLine(line) ==
  /\ line \in TextLine
  /\ line.kind = "attr" => /\ line.key \in Attributes /\ line.value # Unset
                           /\ line.key = "check" => line.value \notin Words \ {""}
IsState(s) == s \in ParseState /\ s.current \in 0..Len(s.gates)

IsLedger(lines) == lines \in Seq(TextLine) /\ \A n \in 1..Len(lines) : IsLine(lines[n])

LEMMA TextIsLedger ==
  ASSUME NEW lines, IsText(lines)
  PROVE  IsLedger(lines)
<1> DEFINE S == [kind : STRING, id : STRING, key : STRING, value : STRING]
<1>0. S \subseteq TextLine
  BY DEF TextLine, Str
<1>1. lines \in Seq(S)
  BY Zenon DEF IsText
<1> HIDE DEF S
<1>2. lines \in Seq(TextLine) /\ DOMAIN lines = 1..Len(lines)
  BY <1>0, <1>1
<1>3. \A n \in 1..Len(lines) : lines[n] \in TextLine
  BY <1>2
<1>4. \A n \in 1..Len(lines) : IsLine(lines[n])
  BY <1>2, <1>3, Zenon DEF IsText, IsLine
<1> QED BY <1>2, <1>4 DEF IsLedger

(* What one line does to each part of the parse. *)

LEMMA GateOnTyped ==
  ASSUME NEW line \in TextLine, NEW n \in Nat
  PROVE  /\ GateOn(n, line) \in GateRecord
         /\ GateOn(n, line).id = line.id /\ GateOn(n, line).line = n
         /\ GateOn(n, line).checked = (line.value = "x") /\ GateOn(n, line).check = Unset
         /\ GateOn(n, line).expect = Unset /\ GateOn(n, line).cwd = Unset
         /\ GateOn(n, line).evidence = Unset /\ GateOn(n, line).evidenceLine = 0
<1>0. (line.value = "x") \in BOOLEAN
  OBVIOUS
<1>1. line.id \in Str /\ 0 \in Nat
  BY DEF TextLine
<1>4. Unset \in Str
  BY DEF Unset, Str
<1>2. GateOn(n, line) \in GateRecord
  BY <1>0, <1>1, <1>4 DEF GateOn, GateRecord
<1>3. GateOn(n, line).checked = (line.value = "x")
  BY Zenon DEF GateOn
<1> QED BY <1>2, <1>3 DEF GateOn

AttributeSet(d, g, n, line) ==
  /\ d \in GateRecord /\ d.id = g.id /\ d.line = g.line /\ d.checked = g.checked
  /\ d.check = (IF line.key = "check" THEN line.value ELSE g.check)
  /\ d.expect = (IF line.key = "expect" THEN line.value ELSE g.expect)
  /\ d.cwd = (IF line.key = "cwd" THEN line.value ELSE g.cwd)
  /\ d.evidence = (IF line.key = "evidence" THEN line.value ELSE g.evidence)
  /\ d.evidenceLine = (IF line.key = "evidence" THEN n ELSE g.evidenceLine)

LEMMA WithAttributeTyped ==
  ASSUME NEW g \in GateRecord, NEW line, IsLine(line), line.kind = "attr", NEW n \in Nat
  PROVE  AttributeSet(WithAttribute(g, n, line), g, n, line)
<1>1. line.key \in Attributes /\ line.value \in Str
  BY DEF IsLine, TextLine
<1>2. CASE line.key = "check"
  BY <1>1, <1>2 DEF AttributeSet, WithAttribute, GateRecord
<1>3. CASE line.key = "expect"
  BY <1>1, <1>3 DEF AttributeSet, WithAttribute, GateRecord
<1>4. CASE line.key = "cwd"
  BY <1>1, <1>4 DEF AttributeSet, WithAttribute, GateRecord
<1>5. CASE line.key = "evidence"
  BY <1>1, <1>5 DEF AttributeSet, WithAttribute, GateRecord
<1> QED BY <1>1, <1>2, <1>3, <1>4, <1>5 DEF Attributes

LEMMA ReplacedInSeq ==
  ASSUME NEW S, NEW q \in Seq(S), NEW i \in 1..Len(q), NEW x \in S
  PROVE  /\ [q EXCEPT ![i] = x] \in Seq(S) /\ Len([q EXCEPT ![i] = x]) = Len(q)
         /\ \A j \in 1..Len(q) : [q EXCEPT ![i] = x][j] = IF j = i THEN x ELSE q[j]
<1> DEFINE r == [q EXCEPT ![i] = x]
<1>1. Len(q) \in Nat /\ q \in [1..Len(q) -> S]
  OBVIOUS
<1>2. r \in [1..Len(q) -> S] /\ \A j \in 1..Len(q) : r[j] = IF j = i THEN x ELSE q[j]
  BY <1>1
<1> HIDE DEF r
<1>3. r \in Seq(S)
  BY <1>1, <1>2, SeqDef, Zenon
<1>4. Len(r) = Len(q)
  BY <1>1, <1>2, <1>3
<1> QED BY <1>2, <1>3, <1>4 DEF r

LEMMA ReadsFence ==
  ASSUME NEW s \in ParseState, NEW n, NEW line \in TextLine, s.fenced \/ line.kind = "fence",
         NEW t, t = ParseLine(s, n, line)
  PROVE  /\ t \in ParseState
         /\ t.gates = s.gates /\ t.abandoned = s.abandoned /\ t.owns = s.owns
         /\ t.errors = s.errors /\ t.current = s.current
         /\ t.fenced <=> ((line.kind = "fence") # s.fenced)
BY DEF ParseLine, ParseState

HasNewGate(s, n, line, t) ==
  /\ t \in ParseState
  /\ t.gates = Append(s.gates, GateOn(n, line)) /\ t.current = Len(s.gates) + 1
  /\ t.abandoned = s.abandoned /\ t.owns = s.owns /\ ~t.fenced
  /\ t.errors <=> (s.errors \/ \E i \in 1..Len(s.gates) : s.gates[i].id = line.id)

LEMMA ReadsGate ==
  ASSUME NEW s \in ParseState, NEW n \in Nat, NEW line \in TextLine, ~s.fenced, line.kind = "gate",
         NEW t, t = ParseLine(s, n, line)
  PROVE  HasNewGate(s, n, line, t)
<1> DEFINE d == GateOn(n, line)
           e == s.errors \/ \E i \in DOMAIN s.gates : s.gates[i].id = line.id
<1>1. ParseLine(s, n, line) =
        [s EXCEPT !.gates = Append(@, d), !.current = Len(s.gates) + 1, !.errors = e]
  BY Zenon DEF ParseLine
<1>2. d \in GateRecord
  BY GateOnTyped
<1>3. e \in BOOLEAN /\ e = (s.errors \/ \E i \in 1..Len(s.gates) : s.gates[i].id = line.id)
  BY DEF ParseState
<1> HIDE DEF d, e
<1>4. Append(s.gates, d) \in Seq(GateRecord) /\ Len(s.gates) + 1 \in Nat
  BY <1>2 DEF ParseState
<1>5. ParseLine(s, n, line) \in ParseState
  BY <1>1, <1>3, <1>4 DEF ParseState
<1> QED BY <1>1, <1>3, <1>5 DEF ParseState, HasNewGate, d

LEMMA ReadsAttribute ==
  ASSUME NEW s, IsState(s), NEW n \in Nat, NEW line, IsLine(line),
         ~s.fenced, line.kind = "attr",
         NEW t, t = ParseLine(s, n, line)
  PROVE  /\ t \in ParseState
         /\ t.gates = IF s.current = 0 THEN s.gates
                      ELSE [s.gates EXCEPT ![s.current] = WithAttribute(s.gates[s.current], n, line)]
         /\ t.abandoned = s.abandoned /\ t.owns = s.owns /\ ~t.fenced /\ t.current = s.current
         /\ t.errors <=> (s.errors \/ s.current = 0 \/ s.gates[s.current][line.key] # Unset)
<1>0. s \in ParseState /\ s.errors \in BOOLEAN
  BY DEF IsState, ParseState
<1>1. ParseLine(s, n, line) = Attribute(s, n, line)
  BY Zenon DEF ParseLine
<1>2. CASE s.current = 0
  BY <1>0, <1>1, <1>2 DEF Attribute, ParseState
<1>3. CASE s.current # 0
  <2> DEFINE d == WithAttribute(s.gates[s.current], n, line)
             e == s.errors \/ s.gates[s.current][line.key] # Unset
  <2>1. ParseLine(s, n, line) = [s EXCEPT !.gates[s.current] = d, !.errors = e]
    BY <1>1, <1>3, Zenon DEF Attribute
  <2>2. s.gates[s.current] \in GateRecord /\ d \in GateRecord
    <3>1. s.gates[s.current] \in GateRecord
      BY <1>0, <1>3 DEF IsState, ParseState
    <3>2. AttributeSet(d, s.gates[s.current], n, line)
      BY <3>1, WithAttributeTyped
    <3> QED BY <3>1, <3>2 DEF AttributeSet
  <2>3. e \in BOOLEAN
    BY <1>0
  <2> HIDE DEF d, e
  <2>4. [s.gates EXCEPT ![s.current] = d] \in Seq(GateRecord)
    <3>1. s.gates \in Seq(GateRecord) /\ s.current \in 1..Len(s.gates)
      BY <1>0, <1>3 DEF ParseState, IsState
    <3> QED BY <2>2, <3>1, ReplacedInSeq
  <2>5. ParseLine(s, n, line) \in ParseState
    BY <1>0, <2>1, <2>3, <2>4 DEF ParseState
  <2> QED BY <1>0, <1>3, <2>1, <2>5 DEF ParseState, d, e
<1> QED BY <1>2, <1>3

LEMMA ReadsOther ==
  ASSUME NEW s \in ParseState, NEW n, NEW line \in TextLine,
         ~s.fenced, line.kind \notin {"fence", "gate", "attr"},
         NEW t, t = ParseLine(s, n, line)
  PROVE  /\ t \in ParseState
         /\ t.gates = s.gates /\ ~t.fenced /\ t.current \in {0, s.current}
         /\ s.errors => t.errors
<1>1. CASE line.kind \in {"unindented", "indentedAbandon"}
  BY <1>1 DEF ParseLine, Detached, ParseState
<1>2. CASE line.kind = "abandon"
  BY <1>2 DEF ParseLine, ParseState, TextLine
<1>3. CASE line.kind = "owns"
  BY <1>3 DEF ParseLine, Detached, ParseState, TextLine
<1>4. CASE line.kind = "heading"
  BY <1>4 DEF ParseLine, ParseState
<1>5. CASE line.kind \notin {"unindented", "indentedAbandon", "abandon", "owns", "heading"}
  BY <1>5 DEF ParseLine, ParseState
<1> QED BY <1>1, <1>2, <1>3, <1>4, <1>5

(* The parse, line by line. *)

ParseUpTo(p, n, lines) ==
  p = [m \in 0..n |-> IF m = 0 THEN Unparsed ELSE ParseLine(p[m - 1], m, lines[m])]
Parsing(p, lines) ==
  /\ p[0] = Unparsed
  /\ \A n \in 1..Len(lines) : p[n] = ParseLine(p[n - 1], n, lines[n])

LEMMA ParseExtends ==
  ASSUME NEW n \in Nat, n > 0, NEW lines, NEW p, ParseUpTo(p, n - 1, lines)
  PROVE  \E q : ParseUpTo(q, n, lines)
<1> DEFINE q == [m \in 0..n |-> IF m = n THEN ParseLine(p[n - 1], n, lines[n]) ELSE p[m]]
<1>1. \A m \in 0..(n - 1) : p[m] = IF m = 0 THEN Unparsed ELSE ParseLine(p[m - 1], m, lines[m])
  BY DEF ParseUpTo
<1>2. ASSUME NEW m \in 0..n
      PROVE  q[m] = IF m = 0 THEN Unparsed ELSE ParseLine(q[m - 1], m, lines[m])
  <2>1. CASE m = n
    <3>1. m # 0 /\ m - 1 \in 0..n /\ m - 1 # n
      BY <2>1
    <3>2. q[m - 1] = p[m - 1] /\ q[m] = ParseLine(p[n - 1], n, lines[n])
      BY <2>1, <3>1
    <3> HIDE DEF q
    <3> QED BY <2>1, <3>1, <3>2
  <2>2. CASE m # n /\ m # 0
    <3>1. m \in 0..(n - 1) /\ m - 1 \in 0..n /\ m - 1 # n
      BY <2>2
    <3>2. q[m] = p[m] /\ q[m - 1] = p[m - 1]
      BY <2>2, <3>1
    <3> HIDE DEF q
    <3> QED BY <1>1, <2>2, <3>1, <3>2
  <2>3. CASE m = 0
    <3>1. q[0] = p[0] /\ 0 \in 0..(n - 1)
      BY <2>3
    <3> HIDE DEF q
    <3> QED BY <1>1, <2>3, <3>1
  <2> QED BY <2>1, <2>2, <2>3
<1>3. q = [m \in 0..n |-> q[m]]
  OBVIOUS
<1> HIDE DEF q
<1>4. q = [m \in 0..n |-> IF m = 0 THEN Unparsed ELSE ParseLine(q[m - 1], m, lines[m])]
  BY <1>2, <1>3, Zenon
<1> QED BY <1>4, Zenon DEF ParseUpTo

LEMMA ParseExists ==
  ASSUME NEW lines, Len(lines) \in Nat
  PROVE  \E p : Parsing(p, lines) /\ LinesParsed(lines) = p[Len(lines)]
<1> DEFINE Bad == {n \in Nat : ~\E p : ParseUpTo(p, n, lines)}
<1>1. Bad = {}
  <2>1. SUFFICES ASSUME Bad # {} PROVE FALSE
    OBVIOUS
  <2>2. PICK n \in Bad : \A m \in Bad : n <= m
    BY <2>1, LeastNatural
  <2>3. CASE n = 0
    <3> DEFINE p == [m \in 0..0 |-> Unparsed]
    <3>1. p = [m \in 0..0 |-> IF m = 0 THEN Unparsed ELSE ParseLine(p[m - 1], m, lines[m])]
      OBVIOUS
    <3> HIDE DEF p
    <3>2. ParseUpTo(p, 0, lines)
      BY <3>1, Zenon DEF ParseUpTo
    <3> QED BY <2>3, <3>2
  <2>4. CASE n # 0
    <3>1. n \in Nat /\ n > 0 /\ n - 1 \in Nat /\ ~(n <= n - 1)
      BY <2>4
    <3>2. n - 1 \notin Bad
      BY <2>2, <3>1
    <3>3. PICK p : ParseUpTo(p, n - 1, lines)
      BY <3>1, <3>2
    <3>4. \E q : ParseUpTo(q, n, lines)
      BY <3>1, <3>3, ParseExtends
    <3> QED BY <3>4
  <2> QED BY <2>3, <2>4
<1> DEFINE it == CHOOSE p : ParseUpTo(p, Len(lines), lines)
<1>2. ParseUpTo(it, Len(lines), lines)
  <2>1. \E p : ParseUpTo(p, Len(lines), lines)
    BY <1>1
  <2> QED BY <2>1, Zenon
<1>3. LinesParsed(lines) = it[Len(lines)]
  BY Zenon DEF LinesParsed, ParseUpTo
<1> HIDE DEF it
<1>4. Parsing(it, lines)
  BY <1>2 DEF ParseUpTo, Parsing
<1> QED BY <1>3, <1>4

\* What the parse of the first n lines says of a gate.
GateOf(g, p, n, lines) ==
  /\ g.line \in 1..n /\ lines[g.line].kind = "gate" /\ ~p[g.line - 1].fenced
  /\ g.evidenceLine \in 0..n /\ (g.evidenceLine = 0 <=> g.evidence = Unset)
  /\ g.evidenceLine # 0 => LET line == lines[g.evidenceLine] IN
       line.kind = "attr" /\ line.key = "evidence" /\ line.value = g.evidence
  /\ g.check \notin Words \ {""}
LinesApart(s) ==
  \A i, j \in 1..Len(s.gates) : i # j =>
    /\ s.gates[i].line # s.gates[j].line
    /\ s.gates[i].evidenceLine # 0 => s.gates[i].evidenceLine # s.gates[j].evidenceLine
    /\ ~s.errors => s.gates[i].id # s.gates[j].id
Parsed(p, n, lines) ==
  /\ IsState(p[n]) /\ LinesApart(p[n])
  /\ \A i \in 1..Len(p[n].gates) : GateOf(p[n].gates[i], p, n, lines)

LEMMA ParsedStep ==
  ASSUME NEW lines, IsLedger(lines), NEW p, Parsing(p, lines),
         NEW n \in 1..Len(lines), Parsed(p, n - 1, lines)
  PROVE  Parsed(p, n, lines)
<1> DEFINE s == p[n - 1]
           t == p[n]
           line == lines[n]
<1>1. t = ParseLine(s, n, line) /\ n \in Nat /\ n - 1 \in Nat /\ Len(lines) \in Nat
  BY DEF Parsing, IsLedger
<1>2. IsState(s) /\ LinesApart(s) /\ s \in ParseState /\ s.gates \in Seq(GateRecord)
      /\ Len(s.gates) \in Nat /\ s.current \in 0..Len(s.gates)
  BY DEF Parsed, IsState, ParseState
<1>3. IsLine(line) /\ line \in TextLine
  BY DEF IsLedger, IsLine
<1>4. \A i \in 1..Len(s.gates) : GateOf(s.gates[i], p, n - 1, lines) /\ s.gates[i] \in GateRecord
  BY <1>2 DEF Parsed
<1>5. \A i \in 1..Len(s.gates) : GateOf(s.gates[i], p, n, lines)
  <2> SUFFICES ASSUME NEW i \in 1..Len(s.gates) PROVE GateOf(s.gates[i], p, n, lines)
    OBVIOUS
  <2> DEFINE g == s.gates[i]
  <2>1. GateOf(g, p, n - 1, lines)
    BY <1>4
  <2> HIDE DEF g
  <2>2. g.line \in 1..n /\ g.evidenceLine \in 0..n
    <3>1. g.line \in 1..(n - 1) /\ g.evidenceLine \in 0..(n - 1)
      BY <2>1, Zenon DEF GateOf
    <3> QED BY <1>1, <3>1
  <2>3. GateOf(g, p, n, lines)
    BY <2>1, <2>2, Zenon DEF GateOf
  <2> QED BY <2>3 DEF g
<1> HIDE DEF s, t, line
<1>6. CASE t.gates = s.gates /\ t \in ParseState /\ t.current \in {0, s.current}
           /\ (s.errors => t.errors)
  <2>1. IsState(t)
    BY <1>2, <1>6 DEF IsState
  <2>2. LinesApart(t)
    BY <1>2, <1>6 DEF LinesApart
  <2> QED BY <1>5, <1>6, <2>1, <2>2 DEF Parsed, t
<1>7. CASE s.fenced \/ line.kind = "fence"
  <2>1. t \in ParseState /\ t.gates = s.gates /\ t.current = s.current /\ t.errors = s.errors
    BY <1>1, <1>2, <1>3, <1>7, ReadsFence
  <2> QED BY <1>6, <2>1
<1>8. CASE ~s.fenced /\ line.kind \notin {"fence", "gate", "attr"}
  <2>1. t \in ParseState /\ t.gates = s.gates /\ t.current \in {0, s.current} /\ (s.errors => t.errors)
    BY <1>1, <1>2, <1>3, <1>8, ReadsOther
  <2> QED BY <1>6, <2>1
<1>9. CASE ~s.fenced /\ line.kind = "gate"
  <2> DEFINE d == GateOn(n, line)
             k == Len(s.gates)
  <2>0. /\ t \in ParseState
        /\ t.gates = Append(s.gates, GateOn(n, line)) /\ t.current = Len(s.gates) + 1
        /\ (t.errors <=> (s.errors \/ \E i \in 1..Len(s.gates) : s.gates[i].id = line.id))
    <3> HIDE DEF d, k
    <3>1. ~s.fenced /\ line.kind = "gate" /\ n \in Nat /\ line \in TextLine /\ s \in ParseState
      BY <1>1, <1>2, <1>3, <1>9
    <3>2. HasNewGate(s, n, line, t)
      BY <1>1, <3>1, ReadsGate
    <3> QED BY <3>2, Zenon DEF HasNewGate
  <2>1. /\ t \in ParseState /\ t.gates = Append(s.gates, d) /\ t.current = k + 1
        /\ (t.errors <=> (s.errors \/ \E i \in 1..k : s.gates[i].id = line.id))
    BY <2>0, Zenon
  <2>2. /\ d \in GateRecord /\ d.id = line.id /\ d.line = n /\ d.evidence = Unset
        /\ d.evidenceLine = 0 /\ d.check = Unset
    BY <1>1, <1>3, GateOnTyped
  <2> HIDE DEF d
  <2>3. /\ Len(t.gates) = k + 1 /\ t.gates[k + 1] = d /\ \A i \in 1..k : t.gates[i] = s.gates[i]
        /\ k \in Nat
    BY <1>2, <2>1, <2>2
  <2>4. GateOf(d, p, n, lines)
    <3>1. ~p[n - 1].fenced /\ lines[n].kind = "gate"
      BY <1>9 DEF s, line
    <3>2. n \in 1..n /\ 0 \in 0..n /\ Unset \notin Words \ {""}
      BY <1>1 DEF Unset, Words
    <3> QED BY <2>2, <3>1, <3>2 DEF GateOf
  <2> HIDE DEF k
  <2>5. ASSUME NEW i \in 1..Len(t.gates) PROVE GateOf(t.gates[i], p, n, lines)
    <3>1. i = k + 1 \/ i \in 1..k
      BY <2>3
    <3> QED BY <1>5, <2>3, <2>4, <3>1 DEF k
  <2>6. LinesApart(t)
    <3> SUFFICES ASSUME NEW i \in 1..(k + 1), NEW j \in 1..(k + 1), i # j
                 PROVE  /\ t.gates[i].line # t.gates[j].line
                        /\ t.gates[i].evidenceLine # 0 =>
                             t.gates[i].evidenceLine # t.gates[j].evidenceLine
                        /\ ~t.errors => t.gates[i].id # t.gates[j].id
      BY <2>3, Zenon DEF LinesApart
    <3>1. \A m \in 1..k : s.gates[m].line \in 1..(n - 1)
      BY <1>4 DEF GateOf, k
    <3>2. CASE i \in 1..k /\ j \in 1..k
      <4>1. /\ s.gates[i].line # s.gates[j].line
            /\ s.gates[i].evidenceLine # 0 => s.gates[i].evidenceLine # s.gates[j].evidenceLine
            /\ ~s.errors => s.gates[i].id # s.gates[j].id
        BY <1>2, <3>2 DEF LinesApart, k
      <4>2. t.gates[i] = s.gates[i] /\ t.gates[j] = s.gates[j]
        BY <2>3, <3>2
      <4>3. ~t.errors => ~s.errors
        BY <2>1
      <4> QED BY <4>1, <4>2, <4>3
    <3>3. CASE i \in 1..k /\ j = k + 1
      <4>1. t.gates[i] = s.gates[i] /\ t.gates[j] = d /\ s.gates[i].line # n
        BY <1>1, <2>3, <3>1, <3>3
      <4> QED BY <2>1, <2>2, <3>3, <4>1 DEF k
    <3>4. CASE j \in 1..k /\ i = k + 1
      <4>1. t.gates[j] = s.gates[j] /\ t.gates[i] = d /\ s.gates[j].line # n
        BY <1>1, <2>3, <3>1, <3>4
      <4> QED BY <2>1, <2>2, <3>4, <4>1 DEF k
    <3> QED BY <2>3, <3>2, <3>3, <3>4
  <2>7. IsState(t)
    BY <2>1, <2>3 DEF IsState, k
  <2> QED BY <2>5, <2>6, <2>7 DEF Parsed, t
<1>10. CASE ~s.fenced /\ line.kind = "attr" /\ s.current # 0
  <2> DEFINE c == s.current
             g == s.gates[c]
             d == WithAttribute(g, n, line)
  <2>1. /\ t \in ParseState /\ t.gates = [s.gates EXCEPT ![c] = d] /\ t.current = c
        /\ (s.errors => t.errors)
    BY <1>1, <1>2, <1>3, <1>10, ReadsAttribute
  <2>2. c \in 1..Len(s.gates) /\ g \in GateRecord
    BY <1>2, <1>4, <1>10
  <2>3. /\ d \in GateRecord /\ d.id = g.id /\ d.line = g.line
        /\ d.check = (IF line.key = "check" THEN line.value ELSE g.check)
        /\ d.evidence = (IF line.key = "evidence" THEN line.value ELSE g.evidence)
        /\ d.evidenceLine = (IF line.key = "evidence" THEN n ELSE g.evidenceLine)
    <3>1. AttributeSet(d, g, n, line)
      BY <1>1, <1>3, <1>10, <2>2, WithAttributeTyped
    <3> HIDE DEF g, d
    <3> QED BY <3>1 DEF AttributeSet
  <2> HIDE DEF d
  <2>4. /\ Len(t.gates) = Len(s.gates)
        /\ \A i \in 1..Len(s.gates) : t.gates[i] = IF i = c THEN d ELSE s.gates[i]
    BY <1>2, <2>1, <2>2, <2>3, ReplacedInSeq
  <2>5. line.value # Unset /\ (line.key = "check" => line.value \notin Words \ {""})
    BY <1>3, <1>10 DEF IsLine
  <2>6. GateOf(g, p, n, lines)
    BY <1>5, <2>2
  <2> HIDE DEF g, c
  <2>7. GateOf(d, p, n, lines)
    <3>1. CASE line.key = "evidence"
      <4>1. d.evidenceLine = n /\ d.evidence = line.value /\ d.check = g.check /\ n # 0
            /\ n \in 0..n /\ lines[n] = line
        BY <1>1, <2>3, <3>1 DEF line
      <4> QED BY <1>10, <2>3, <2>5, <2>6, <3>1, <4>1 DEF GateOf
    <3>2. CASE line.key # "evidence"
      BY <2>3, <2>5, <2>6, <3>2 DEF GateOf
    <3> QED BY <3>1, <3>2
  <2>8. \A i \in 1..Len(t.gates) : GateOf(t.gates[i], p, n, lines)
    BY <1>5, <2>4, <2>7
  <2>9. LinesApart(t)
    <3> SUFFICES ASSUME NEW i \in 1..Len(s.gates), NEW j \in 1..Len(s.gates), i # j
                 PROVE  /\ t.gates[i].line # t.gates[j].line
                        /\ t.gates[i].evidenceLine # 0 =>
                             t.gates[i].evidenceLine # t.gates[j].evidenceLine
                        /\ ~t.errors => t.gates[i].id # t.gates[j].id
      BY <2>4, Zenon DEF LinesApart
    <3>1. \A m \in 1..Len(s.gates) : s.gates[m].evidenceLine \in 0..(n - 1)
      BY <1>4 DEF GateOf
    <3>2. /\ s.gates[i].line # s.gates[j].line
          /\ s.gates[i].evidenceLine # 0 => s.gates[i].evidenceLine # s.gates[j].evidenceLine
          /\ ~s.errors => s.gates[i].id # s.gates[j].id
      BY <1>2 DEF LinesApart
    <3>3. s.gates[i].evidenceLine # n /\ s.gates[j].evidenceLine # n
      BY <1>1, <3>1
    <3>4. s.gates[c] = g
      BY DEF g
    <3>5. CASE i # c /\ j # c
      BY <2>1, <2>4, <3>2, <3>5
    <3>6. CASE i = c
      <4>1. t.gates[i] = d /\ t.gates[j] = s.gates[j] /\ s.gates[i] = g
        BY <2>4, <3>4, <3>6
      <4> QED BY <2>1, <2>3, <3>2, <3>3, <4>1
    <3>7. CASE j = c
      <4>1. t.gates[j] = d /\ t.gates[i] = s.gates[i] /\ s.gates[j] = g
        BY <2>4, <3>4, <3>7
      <4> QED BY <2>1, <2>3, <3>2, <3>3, <4>1
    <3> QED BY <3>5, <3>6, <3>7
  <2>10. IsState(t)
    BY <1>2, <2>1, <2>4 DEF IsState, c
  <2> QED BY <2>8, <2>9, <2>10 DEF Parsed, t
<1>11. CASE ~s.fenced /\ line.kind = "attr" /\ s.current = 0
  <2>1. t \in ParseState /\ t.gates = s.gates /\ t.current = s.current /\ (s.errors => t.errors)
    BY <1>1, <1>2, <1>3, <1>11, ReadsAttribute
  <2> QED BY <1>6, <2>1
<1> QED BY <1>7, <1>8, <1>9, <1>10, <1>11

LEMMA ParsedAll ==
  ASSUME NEW lines, IsLedger(lines), NEW p, Parsing(p, lines)
  PROVE  \A n \in 0..Len(lines) : Parsed(p, n, lines)
<1> DEFINE Bad == {n \in 0..Len(lines) : ~Parsed(p, n, lines)}
<1>1. Len(lines) \in Nat
  BY DEF IsLedger
<1>2. SUFFICES ASSUME Bad # {} PROVE FALSE
  OBVIOUS
<1>3. PICK n \in Bad : \A m \in Bad : n <= m
  <2>1. Bad \subseteq Nat
    BY <1>1
  <2> HIDE DEF Bad
  <2> QED BY <1>2, <2>1, LeastNatural
<1>4. CASE n = 0
  <2>1. p[0] = Unparsed
    BY DEF Parsing
  <2>2. /\ p[0] \in ParseState /\ p[0].gates = <<>> /\ Len(p[0].gates) = 0 /\ p[0].current = 0
    BY <2>1 DEF Unparsed, ParseState
  <2>3. Parsed(p, 0, lines)
    BY <2>2 DEF Parsed, IsState, LinesApart
  <2> QED BY <1>4, <2>3
<1>5. CASE n # 0
  <2>1. n \in 1..Len(lines) /\ n - 1 \in 0..Len(lines) /\ ~(n <= n - 1)
    BY <1>1, <1>5
  <2>2. n - 1 \notin Bad
    BY <1>3, <2>1
  <2>3. Parsed(p, n - 1, lines)
    BY <2>1, <2>2
  <2>4. Parsed(p, n, lines)
    BY <2>1, <2>3, ParsedStep
  <2> QED BY <2>4
<1> QED BY <1>4, <1>5

(* What is found in a text, and in two texts that differ in little. *)

Wrong(s) ==
  \/ s.errors \/ s.fenced \/ s.gates = <<>>
  \/ ~(s.abandoned \subseteq {s.gates[i].id : i \in 1..Len(s.gates)})
  \/ \E i \in 1..Len(s.gates) : HalfRunnable(s.gates[i])

LEMMA DocOf ==
  ASSUME NEW lines, IsLedger(lines), NEW p, Parsing(p, lines),
         NEW s, s = p[Len(lines)], LinesParsed(lines) = s, NEW doc, doc = parseGates(lines)
  PROVE  /\ doc \in ParseState /\ doc.gates = s.gates /\ doc.abandoned = s.abandoned
         /\ doc.errors <=> Wrong(s)
<1>1. Parsed(p, Len(lines), lines)
  <2>1. Len(lines) \in Nat
    BY DEF IsLedger
  <2> QED BY <2>1, ParsedAll
<1>2. s \in ParseState /\ DOMAIN s.gates = 1..Len(s.gates)
  <2>1. s \in ParseState
    BY <1>1 DEF Parsed, IsState
  <2> QED BY <2>1 DEF ParseState
<1> DEFINE ids == {s.gates[i].id : i \in DOMAIN s.gates}
           e == s.errors \/ s.fenced \/ s.gates = <<>> \/ ~(s.abandoned \subseteq ids)
                \/ \E i \in DOMAIN s.gates : HalfRunnable(s.gates[i])
<1>3. doc = [s EXCEPT !.errors = e]
  BY Zenon DEF parseGates
<1>4. e <=> Wrong(s)
  BY <1>2, Zenon DEF Wrong
<1>5. e \in BOOLEAN
  BY <1>2 DEF ParseState
<1> HIDE DEF e
<1> QED BY <1>2, <1>3, <1>4, <1>5 DEF ParseState

\* Gates that differ in box and evidence only; W says whose evidence.
SameGate(g, h, at, ok, W, said) ==
  /\ h.id = g.id /\ h.check = g.check /\ h.expect = g.expect /\ h.cwd = g.cwd
  /\ h.checked <=> (IF g.line = at THEN ok ELSE g.checked)
  /\ h.evidence = IF <<g.line, g.evidenceLine>> \in W THEN said ELSE g.evidence
SameShape(s, t) ==
  /\ t.errors <=> s.errors
  /\ t.fenced <=> s.fenced
  /\ t.current = s.current /\ t.abandoned = s.abandoned /\ t.owns = s.owns
  /\ Len(t.gates) = Len(s.gates)
Alike(s, t, at, ok, W, said) ==
  /\ SameShape(s, t)
  /\ \A i \in 1..Len(s.gates) : SameGate(s.gates[i], t.gates[i], at, ok, W, said)

LEMMA AlikeOther ==
  ASSUME NEW s, IsState(s), NEW t, IsState(t), NEW line \in TextLine, NEW line2 \in TextLine,
         NEW n, NEW m, line2.kind = line.kind, s.fenced \/ line2 = line,
         s.fenced \/ line.kind \notin {"gate", "attr"}, SameShape(s, t),
         NEW u, u = ParseLine(s, n, line), NEW v, v = ParseLine(t, m, line2)
  PROVE  SameShape(u, v) /\ u.gates = s.gates /\ v.gates = t.gates
<1> USE DEF SameShape
<1>0. s \in ParseState /\ t \in ParseState /\ s.gates \in Seq(GateRecord) /\ t.gates \in Seq(GateRecord)
      /\ (s.gates = <<>> <=> t.gates = <<>>)
  <2>1. s \in ParseState /\ t \in ParseState /\ s.gates \in Seq(GateRecord) /\ t.gates \in Seq(GateRecord)
    BY DEF IsState, ParseState
  <2> QED BY <2>1
<1>1. CASE s.fenced \/ line.kind = "fence"
  BY <1>0, <1>1 DEF ParseLine, ParseState
<1>2. CASE ~s.fenced /\ line.kind \in {"unindented", "indentedAbandon"}
  BY <1>0, <1>2 DEF ParseLine, Detached, ParseState
<1>3. CASE ~s.fenced /\ line.kind = "abandon"
  BY <1>0, <1>3 DEF ParseLine, ParseState
<1>4. CASE ~s.fenced /\ line.kind = "owns"
  BY <1>0, <1>4 DEF ParseLine, Detached, ParseState
<1>5. CASE ~s.fenced /\ line.kind = "heading"
  BY <1>0, <1>5 DEF ParseLine, ParseState
<1>6. CASE ~s.fenced /\ line.kind \notin
             {"fence", "gate", "attr", "unindented", "indentedAbandon", "abandon", "owns", "heading"}
  BY <1>0, <1>6 DEF ParseLine, ParseState
<1> QED BY <1>1, <1>2, <1>3, <1>4, <1>5, <1>6

LEMMA AlikeGate ==
  ASSUME NEW s, IsState(s), NEW t, IsState(t), ~s.fenced,
         NEW line \in TextLine, NEW line2 \in TextLine, line.kind = "gate", line2.kind = "gate",
         line2.id = line.id, NEW n \in Nat, NEW m \in Nat,
         NEW at, NEW ok, NEW W, NEW said, Alike(s, t, at, ok, W, said), <<n, 0>> \notin W,
         (line2.value = "x") <=> (IF n = at THEN ok ELSE line.value = "x"),
         NEW u, u = ParseLine(s, n, line), NEW v, v = ParseLine(t, m, line2)
  PROVE  Alike(u, v, at, ok, W, said)
<1> DEFINE k == Len(s.gates)
           g == GateOn(n, line)
           h == GateOn(m, line2)
<1>1. s \in ParseState /\ t \in ParseState /\ s.gates \in Seq(GateRecord) /\ t.gates \in Seq(GateRecord)
      /\ k \in Nat
  <2>1. s \in ParseState /\ t \in ParseState /\ s.gates \in Seq(GateRecord) /\ t.gates \in Seq(GateRecord)
    BY DEF IsState, ParseState
  <2> QED BY <2>1
<1>2. SameShape(s, t) /\ Len(t.gates) = k /\ ~t.fenced /\ (s.errors <=> t.errors)
      /\ s.abandoned = t.abandoned /\ s.owns = t.owns
  BY DEF Alike, SameShape
<1>3. \A i \in 1..k : SameGate(s.gates[i], t.gates[i], at, ok, W, said)
  BY Zenon DEF Alike
<1>4. HasNewGate(s, n, line, u) /\ HasNewGate(t, m, line2, v)
  BY <1>1, <1>2, ReadsGate
<1>5. /\ u.gates = Append(s.gates, g) /\ u.current = k + 1 /\ u.abandoned = s.abandoned
      /\ u.owns = s.owns /\ ~u.fenced
      /\ (u.errors <=> (s.errors \/ \E i \in 1..k : s.gates[i].id = line.id))
  BY <1>4, Zenon DEF HasNewGate
<1>6. /\ v.gates = Append(t.gates, h) /\ v.current = k + 1 /\ v.abandoned = t.abandoned
      /\ v.owns = t.owns /\ ~v.fenced
      /\ (v.errors <=> (t.errors \/ \E i \in 1..k : t.gates[i].id = line.id))
  BY <1>2, <1>4, Zenon DEF HasNewGate
<1>7. SameGate(g, h, at, ok, W, said)
  <2>1. /\ g.id = line.id /\ g.line = n /\ g.checked = (line.value = "x") /\ g.check = Unset
        /\ g.expect = Unset /\ g.cwd = Unset /\ g.evidence = Unset /\ g.evidenceLine = 0
    BY GateOnTyped
  <2>2. /\ h.id = line.id /\ h.checked = (line2.value = "x") /\ h.check = Unset
        /\ h.expect = Unset /\ h.cwd = Unset /\ h.evidence = Unset
    BY GateOnTyped
  <2> HIDE DEF g, h
  <2>3. h.checked <=> (IF g.line = at THEN ok ELSE g.checked)
    BY <2>1, <2>2
  <2>4. <<g.line, g.evidenceLine>> \notin W
    BY <2>1
  <2> QED BY <2>1, <2>2, <2>3, <2>4 DEF SameGate
<1>8. g \in GateRecord /\ h \in GateRecord
  BY GateOnTyped
<1> HIDE DEF g, h
<1>9. /\ Len(u.gates) = k + 1 /\ u.gates[k + 1] = g /\ \A i \in 1..k : u.gates[i] = s.gates[i]
      /\ Len(v.gates) = k + 1 /\ v.gates[k + 1] = h /\ \A i \in 1..k : v.gates[i] = t.gates[i]
  BY <1>1, <1>2, <1>5, <1>6, <1>8
<1> HIDE DEF k
<1>10. u.errors <=> v.errors
  <2>1. \A i \in 1..k : t.gates[i].id = s.gates[i].id
    BY <1>3 DEF SameGate
  <2> QED BY <1>2, <1>5, <1>6, <2>1
<1>11. SameShape(u, v)
  BY <1>2, <1>5, <1>6, <1>9, <1>10 DEF SameShape
<1>12. ASSUME NEW i \in 1..(k + 1) PROVE SameGate(u.gates[i], v.gates[i], at, ok, W, said)
  <2>1. CASE i = k + 1
    BY <1>7, <1>9, <2>1
  <2>2. CASE i # k + 1
    <3>1. i \in 1..k
      BY <1>1, <2>2
    <3> QED BY <1>3, <1>9, <3>1
  <2> QED BY <2>1, <2>2
<1> QED BY <1>9, <1>11, <1>12 DEF Alike

LEMMA AlikeAttribute ==
  ASSUME NEW s, IsState(s), NEW t, IsState(t), ~s.fenced,
         NEW line, IsLine(line), NEW line2, IsLine(line2), line.kind = "attr", line2.kind = "attr",
         line2.key = line.key, NEW n \in Nat, NEW m \in Nat,
         NEW at, NEW ok, NEW W, NEW said, Alike(s, t, at, ok, W, said),
         line.key # "evidence" => line2.value = line.value,
         line.key = "evidence" /\ s.current # 0 =>
           /\ line2.value = IF <<s.gates[s.current].line, n>> \in W THEN said ELSE line.value
           /\ s.gates[s.current].evidence = Unset <=> t.gates[s.current].evidence = Unset,
         NEW u, u = ParseLine(s, n, line), NEW v, v = ParseLine(t, m, line2)
  PROVE  Alike(u, v, at, ok, W, said)
<1> DEFINE c == s.current
           k == Len(s.gates)
<1>1. s \in ParseState /\ t \in ParseState /\ s.gates \in Seq(GateRecord) /\ t.gates \in Seq(GateRecord)
      /\ k \in Nat /\ c \in 0..k
  <2>1. s \in ParseState /\ t \in ParseState /\ s.gates \in Seq(GateRecord) /\ t.gates \in Seq(GateRecord)
        /\ c \in 0..k
    BY DEF IsState, ParseState
  <2> QED BY <2>1
<1>2. SameShape(s, t) /\ Len(t.gates) = k /\ ~t.fenced /\ (s.errors <=> t.errors)
      /\ s.abandoned = t.abandoned /\ s.owns = t.owns /\ t.current = c
  BY DEF Alike, SameShape
<1>3. \A i \in 1..k : SameGate(s.gates[i], t.gates[i], at, ok, W, said)
  BY Zenon DEF Alike
<1>4. /\ u.gates = IF c = 0 THEN s.gates ELSE [s.gates EXCEPT ![c] = WithAttribute(s.gates[c], n, line)]
      /\ u.abandoned = s.abandoned /\ u.owns = s.owns /\ ~u.fenced /\ u.current = c
      /\ (u.errors <=> (s.errors \/ c = 0 \/ s.gates[c][line.key] # Unset))
  BY ReadsAttribute
<1>5. /\ v.gates = IF c = 0 THEN t.gates ELSE [t.gates EXCEPT ![c] = WithAttribute(t.gates[c], m, line2)]
      /\ v.abandoned = t.abandoned /\ v.owns = t.owns /\ ~v.fenced /\ v.current = c
      /\ (v.errors <=> (t.errors \/ c = 0 \/ t.gates[c][line.key] # Unset))
  <2>1. /\ v.gates = IF t.current = 0 THEN t.gates
                     ELSE [t.gates EXCEPT ![t.current] = WithAttribute(t.gates[t.current], m, line2)]
        /\ v.abandoned = t.abandoned /\ v.owns = t.owns /\ ~v.fenced /\ v.current = t.current
        /\ (v.errors <=> (t.errors \/ t.current = 0 \/ t.gates[t.current][line2.key] # Unset))
    BY <1>2, ReadsAttribute
  <2> HIDE DEF c
  <2> QED BY <1>2, <2>1
<1>6. CASE c = 0
  <2>1. u.gates = s.gates /\ v.gates = t.gates /\ u.errors /\ v.errors
    BY <1>4, <1>5, <1>6
  <2>2. SameShape(u, v)
    BY <1>2, <1>4, <1>5, <2>1 DEF SameShape
  <2> QED BY <1>3, <2>1, <2>2 DEF Alike
<1>7. CASE c # 0
  <2> DEFINE g == s.gates[c]
             h == t.gates[c]
             d == WithAttribute(g, n, line)
             f == WithAttribute(h, m, line2)
  <2>1. c \in 1..k /\ g \in GateRecord /\ h \in GateRecord /\ SameGate(g, h, at, ok, W, said)
    BY <1>1, <1>2, <1>3, <1>7
  <2>2. /\ d \in GateRecord /\ d.id = g.id /\ d.line = g.line /\ d.checked = g.checked
        /\ d.check = (IF line.key = "check" THEN line.value ELSE g.check)
        /\ d.expect = (IF line.key = "expect" THEN line.value ELSE g.expect)
        /\ d.cwd = (IF line.key = "cwd" THEN line.value ELSE g.cwd)
        /\ d.evidence = (IF line.key = "evidence" THEN line.value ELSE g.evidence)
        /\ d.evidenceLine = (IF line.key = "evidence" THEN n ELSE g.evidenceLine)
    <3>1. AttributeSet(d, g, n, line)
      BY <2>1, WithAttributeTyped
    <3> HIDE DEF g, d
    <3> QED BY <3>1 DEF AttributeSet
  <2>3. /\ f \in GateRecord /\ f.id = h.id /\ f.checked = h.checked
        /\ f.check = (IF line.key = "check" THEN line2.value ELSE h.check)
        /\ f.expect = (IF line.key = "expect" THEN line2.value ELSE h.expect)
        /\ f.cwd = (IF line.key = "cwd" THEN line2.value ELSE h.cwd)
        /\ f.evidence = (IF line.key = "evidence" THEN line2.value ELSE h.evidence)
    <3>1. /\ f \in GateRecord /\ f.id = h.id /\ f.checked = h.checked
          /\ f.check = (IF line2.key = "check" THEN line2.value ELSE h.check)
          /\ f.expect = (IF line2.key = "expect" THEN line2.value ELSE h.expect)
          /\ f.cwd = (IF line2.key = "cwd" THEN line2.value ELSE h.cwd)
          /\ f.evidence = (IF line2.key = "evidence" THEN line2.value ELSE h.evidence)
      <4>1. h \in GateRecord
        BY <2>1
      <4>2. AttributeSet(f, h, m, line2)
        BY <4>1, WithAttributeTyped
      <4> HIDE DEF f, h
      <4> QED BY <4>2 DEF AttributeSet
    <3> HIDE DEF f, h
    <3> QED BY <3>1
  <2> HIDE DEF d, f
  <2>4. /\ Len(u.gates) = k /\ \A i \in 1..k : u.gates[i] = IF i = c THEN d ELSE s.gates[i]
        /\ Len(v.gates) = k /\ \A i \in 1..k : v.gates[i] = IF i = c THEN f ELSE t.gates[i]
    <3>1. u.gates = [s.gates EXCEPT ![c] = d] /\ v.gates = [t.gates EXCEPT ![c] = f]
      BY <1>4, <1>5, <1>7 DEF d, f
    <3>2. Len(u.gates) = k /\ \A i \in 1..k : u.gates[i] = IF i = c THEN d ELSE s.gates[i]
      BY <1>1, <2>1, <2>2, <3>1, ReplacedInSeq
    <3>3. Len(v.gates) = k /\ \A i \in 1..k : v.gates[i] = IF i = c THEN f ELSE t.gates[i]
      <4> HIDE DEF k, c
      <4>1. c \in 1..Len(t.gates)
        BY <1>2, <2>1
      <4> QED BY <1>1, <1>2, <2>3, <3>1, <4>1, ReplacedInSeq
    <3> QED BY <3>2, <3>3
  <2>5. line.key = "evidence" =>
          /\ line2.value = IF <<g.line, n>> \in W THEN said ELSE line.value
          /\ (g.evidence = Unset <=> h.evidence = Unset)
    BY <1>7
  <2>6. /\ h.id = g.id /\ h.check = g.check /\ h.expect = g.expect /\ h.cwd = g.cwd
        /\ (h.checked <=> (IF g.line = at THEN ok ELSE g.checked))
        /\ h.evidence = IF <<g.line, g.evidenceLine>> \in W THEN said ELSE g.evidence
    BY <2>1, Zenon DEF SameGate
  <2>7. g[line.key] # Unset <=> h[line.key] # Unset
    <3>1. line.key \in Attributes
      BY DEF IsLine
    <3> HIDE DEF g, h
    <3> QED BY <2>5, <2>6, <3>1 DEF Attributes
  <2> HIDE DEF g, h, k, c
  <2>8. SameGate(d, f, at, ok, W, said)
    <3>1. d.line = g.line /\ f.id = d.id /\ f.check = d.check /\ f.expect = d.expect /\ f.cwd = d.cwd
      BY <2>2, <2>3, <2>6
    <3>2. f.checked <=> (IF d.line = at THEN ok ELSE d.checked)
      BY <2>2, <2>3, <2>6
    <3>3. f.evidence = IF <<d.line, d.evidenceLine>> \in W THEN said ELSE d.evidence
      <4>1. CASE line.key = "evidence"
        BY <2>2, <2>3, <2>5, <4>1
      <4>2. CASE line.key # "evidence"
        BY <2>2, <2>3, <2>6, <4>2
      <4> QED BY <4>1, <4>2
    <3> QED BY <3>1, <3>2, <3>3, Zenon DEF SameGate
  <2>9. SameShape(u, v)
    <3>1. u.errors <=> v.errors
      BY <1>2, <1>4, <1>5, <1>7, <2>7 DEF g, h
    <3> QED BY <1>2, <1>4, <1>5, <2>4, <3>1 DEF SameShape
  <2>10. \A i \in 1..k : SameGate(u.gates[i], v.gates[i], at, ok, W, said)
    BY <1>3, <2>4, <2>8
  <2> QED BY <2>4, <2>9, <2>10 DEF Alike
<1> QED BY <1>6, <1>7

\* The n-th line of one text and a line of the other, to be read after s and a state like it.
Twin(s, n, line, line2, at, ok, W, said) ==
  /\ IsLine(line) /\ IsLine(line2)
  /\ line2.kind = line.kind /\ line2.id = line.id /\ line2.key = line.key
  /\ line.kind \notin {"gate", "attr"} => line2 = line
  /\ ~s.fenced /\ line.kind = "gate" =>
       /\ <<n, 0>> \notin W
       /\ (line2.value = "x") <=> (IF n = at THEN ok ELSE line.value = "x")
  /\ ~s.fenced /\ line.kind = "attr" /\ line.key # "evidence" => line2.value = line.value
  /\ ~s.fenced /\ line.kind = "attr" /\ line.key = "evidence" /\ s.current # 0 =>
       LET g == s.gates[s.current] IN
       /\ line2.value = IF <<g.line, n>> \in W THEN said ELSE line.value
       /\ <<g.line, g.evidenceLine>> \in W => g.evidence # Unset /\ said # Unset

LEMMA AlikeStep ==
  ASSUME NEW s, IsState(s), NEW t, IsState(t), NEW line, NEW line2, NEW n \in Nat, NEW m \in Nat,
         NEW at, NEW ok, NEW W, NEW said, Alike(s, t, at, ok, W, said),
         Twin(s, n, line, line2, at, ok, W, said),
         NEW u, u = ParseLine(s, n, line), NEW v, v = ParseLine(t, m, line2)
  PROVE  Alike(u, v, at, ok, W, said)
<1>1. /\ line \in TextLine /\ line2 \in TextLine /\ IsLine(line) /\ IsLine(line2)
      /\ line2.kind = line.kind /\ line2.id = line.id /\ line2.key = line.key
  BY DEF Twin, IsLine
<1>2. CASE s.fenced \/ line.kind \notin {"gate", "attr"}
  <2>1. SameShape(s, t)
    BY DEF Alike
  <2>2. s.fenced \/ line2 = line
    BY <1>2 DEF Twin
  <2>3. SameShape(u, v) /\ u.gates = s.gates /\ v.gates = t.gates
    BY <1>1, <1>2, <2>1, <2>2, AlikeOther
  <2> QED BY <2>3 DEF Alike
<1>3. CASE ~s.fenced /\ line.kind = "gate"
  <2>1. <<n, 0>> \notin W
    BY <1>3, Zenon DEF Twin
  <2>2. (line2.value = "x") <=> (IF n = at THEN ok ELSE line.value = "x")
    BY <1>3, Zenon DEF Twin
  <2> QED BY <1>1, <1>3, <2>1, <2>2, AlikeGate
<1>4. CASE ~s.fenced /\ line.kind = "attr"
  <2>1. line.key # "evidence" => line2.value = line.value
    BY <1>4, Zenon DEF Twin
  <2>2. ASSUME line.key = "evidence", s.current # 0
        PROVE  /\ line2.value = IF <<s.gates[s.current].line, n>> \in W THEN said ELSE line.value
               /\ s.gates[s.current].evidence = Unset <=> t.gates[s.current].evidence = Unset
    <3> DEFINE g == s.gates[s.current]
               h == t.gates[s.current]
    <3>1. /\ line2.value = IF <<g.line, n>> \in W THEN said ELSE line.value
          /\ <<g.line, g.evidenceLine>> \in W => g.evidence # Unset /\ said # Unset
      BY <1>4, <2>2, Zenon DEF Twin
    <3>2. s.current \in 1..Len(s.gates)
      BY <2>2 DEF IsState, ParseState
    <3>3. SameGate(g, h, at, ok, W, said)
      BY <3>2, Zenon DEF Alike
    <3>4. h.evidence = IF <<g.line, g.evidenceLine>> \in W THEN said ELSE g.evidence
      BY <3>3, Zenon DEF SameGate
    <3> HIDE DEF g, h
    <3>5. g.evidence = Unset <=> h.evidence = Unset
      BY <3>1, <3>4
    <3> QED BY <3>1, <3>5 DEF g, h
  <2> QED BY <1>1, <1>4, <2>1, <2>2, AlikeAttribute
<1> QED BY <1>2, <1>3, <1>4

\* Evidence of a gate, once read, is there to the end.
HasEvidence(s, at) == \E i \in 1..Len(s.gates) : s.gates[i].line = at /\ s.gates[i].evidence # Unset

LEMMA EvidenceStays ==
  ASSUME NEW s, IsState(s), NEW line, IsLine(line), NEW n \in Nat, NEW at, HasEvidence(s, at),
         NEW t, t = ParseLine(s, n, line)
  PROVE  HasEvidence(t, at)
<1>1. PICK i \in 1..Len(s.gates) : s.gates[i].line = at /\ s.gates[i].evidence # Unset
  BY DEF HasEvidence
<1>2. s \in ParseState /\ line \in TextLine /\ s.gates \in Seq(GateRecord) /\ Len(s.gates) \in Nat
      /\ s.current \in 0..Len(s.gates)
  <2>1. s \in ParseState /\ line \in TextLine /\ s.gates \in Seq(GateRecord) /\ s.current \in 0..Len(s.gates)
    BY DEF IsState, IsLine, ParseState
  <2> QED BY <2>1
<1>3. CASE t.gates = s.gates
  BY <1>1, <1>3 DEF HasEvidence
<1>4. CASE ~s.fenced /\ line.kind = "gate"
  <2>1. t.gates = Append(s.gates, GateOn(n, line))
    <3>1. HasNewGate(s, n, line, t)
      BY <1>2, <1>4, ReadsGate
    <3> QED BY <3>1, Zenon DEF HasNewGate
  <2>2. i \in 1..Len(t.gates) /\ t.gates[i] = s.gates[i]
    BY <1>1, <1>2, <2>1, GateOnTyped
  <2> QED BY <1>1, <2>2 DEF HasEvidence
<1>5. CASE ~s.fenced /\ line.kind = "attr" /\ s.current # 0
  <2> DEFINE c == s.current
             d == WithAttribute(s.gates[c], n, line)
  <2>1. t.gates = [s.gates EXCEPT ![c] = d]
    BY <1>5, ReadsAttribute
  <2>2. c \in 1..Len(s.gates) /\ s.gates[c] \in GateRecord
    BY <1>2, <1>5
  <2>3. /\ d \in GateRecord /\ d.line = s.gates[c].line
        /\ d.evidence = (IF line.key = "evidence" THEN line.value ELSE s.gates[c].evidence)
    <3>1. AttributeSet(d, s.gates[c], n, line)
      BY <1>5, <2>2, WithAttributeTyped
    <3> HIDE DEF c, d
    <3> QED BY <3>1 DEF AttributeSet
  <2>4. line.value # Unset
    BY <1>5 DEF IsLine
  <2> HIDE DEF d
  <2>5. Len(t.gates) = Len(s.gates) /\ \A j \in 1..Len(s.gates) : t.gates[j] = IF j = c THEN d ELSE s.gates[j]
    BY <1>2, <2>1, <2>2, <2>3, ReplacedInSeq
  <2> HIDE DEF c
  <2>6. t.gates[i].line = at /\ t.gates[i].evidence # Unset
    BY <1>1, <2>3, <2>4, <2>5
  <2> QED BY <1>1, <2>5, <2>6 DEF HasEvidence
<1>6. CASE s.fenced \/ line.kind = "fence"
  BY <1>2, <1>3, <1>6, ReadsFence
<1>7. CASE ~s.fenced /\ line.kind \notin {"fence", "gate", "attr"}
  BY <1>2, <1>3, <1>7, ReadsOther
<1>8. CASE ~s.fenced /\ line.kind = "attr" /\ s.current = 0
  <2>1. ParseLine(s, n, line) = Attribute(s, n, line)
    BY <1>8, Zenon DEF ParseLine
  <2>2. t.gates = s.gates
    BY <1>2, <1>8, <2>1 DEF Attribute, ParseState
  <2> QED BY <1>3, <2>2
<1> QED BY <1>4, <1>5, <1>6, <1>7, <1>8

LEMMA StatesOf ==
  ASSUME NEW lines, IsLedger(lines), NEW p, Parsing(p, lines)
  PROVE  /\ Len(lines) \in Nat
         /\ \A n \in 0..Len(lines) : IsState(p[n]) /\ LinesApart(p[n])
         /\ \A n \in 0..Len(lines) : \A i \in 1..Len(p[n].gates) : GateOf(p[n].gates[i], p, n, lines)
         /\ \A n \in 1..Len(lines) : p[n] = ParseLine(p[n - 1], n, lines[n]) /\ IsLine(lines[n])
<1>1. Len(lines) \in Nat
  BY DEF IsLedger
<1>2. \A n \in 0..Len(lines) : Parsed(p, n, lines)
  BY ParsedAll
<1> QED BY <1>1, <1>2 DEF Parsed, Parsing, IsLedger

LEMMA EvidenceLasts ==
  ASSUME NEW lines, IsLedger(lines), NEW p, Parsing(p, lines),
         NEW n \in 0..Len(lines), NEW at, HasEvidence(p[n], at)
  PROVE  HasEvidence(p[Len(lines)], at)
<1> DEFINE N == Len(lines)
           Bad == {m \in n..N : ~HasEvidence(p[m], at)}
<1>1. N \in Nat /\ n \in Nat /\ n <= N
  BY DEF IsLedger
<1>2. SUFFICES ASSUME Bad # {} PROVE FALSE
  <2>1. N \in n..N
    BY <1>1
  <2> QED BY <2>1
<1>3. PICK m \in Bad : \A k \in Bad : m <= k
  <2>1. Bad \subseteq Nat
    BY <1>1
  <2> HIDE DEF Bad
  <2> QED BY <1>2, <2>1, LeastNatural
<1>4. m \in Nat /\ m > n /\ m - 1 \in n..N /\ m \in 1..N /\ ~(m <= m - 1)
  <2>1. m # n /\ m \in n..N
    BY <1>3
  <2> HIDE DEF N
  <2> QED BY <1>1, <2>1
<1>5. HasEvidence(p[m - 1], at)
  BY <1>3, <1>4
<1>6. IsState(p[m - 1]) /\ p[m] = ParseLine(p[m - 1], m, lines[m]) /\ IsLine(lines[m])
  <2>1. m - 1 \in 0..N
    BY <1>1, <1>4
  <2> QED BY <1>4, <2>1, StatesOf
<1>7. HasEvidence(p[m], at)
  BY <1>4, <1>5, <1>6, EvidenceStays
<1> QED BY <1>3, <1>7

LEMMA AlikeThrough ==
  ASSUME NEW lines, IsLedger(lines), NEW p, Parsing(p, lines),
         NEW new, IsLedger(new), NEW q, Parsing(q, new),
         NEW a \in Nat, NEW b \in 0..Len(lines), NEW d \in Nat, b + d <= Len(new),
         NEW at, NEW ok, NEW W, NEW said, Alike(p[a], q[a + d], at, ok, W, said),
         \A n \in (a + 1)..b : Twin(p[n - 1], n, lines[n], new[n + d], at, ok, W, said)
  PROVE  \A n \in a..b : Alike(p[n], q[n + d], at, ok, W, said)
<1> DEFINE Bad == {n \in a..b : ~Alike(p[n], q[n + d], at, ok, W, said)}
<1>1. b \in Nat /\ Len(lines) \in Nat /\ Len(new) \in Nat /\ b <= Len(lines)
  BY DEF IsLedger
<1>2. SUFFICES ASSUME Bad # {} PROVE FALSE
  OBVIOUS
<1>3. PICK n \in Bad : \A m \in Bad : n <= m
  <2>1. Bad \subseteq Nat
    BY <1>1
  <2> HIDE DEF Bad
  <2> QED BY <1>2, <2>1, LeastNatural
<1>4. n \in a..b /\ n # a
  BY <1>3
<1>5. n \in Nat /\ n \in (a + 1)..b /\ n - 1 \in a..b /\ ~(n <= n - 1) /\ n \in 1..Len(lines)
      /\ n - 1 \in 0..Len(lines) /\ n + d \in 1..Len(new) /\ (n - 1) + d = (n + d) - 1 /\ n + d \in Nat
      /\ (n + d) - 1 \in 0..Len(new)
  BY <1>1, <1>4
<1>6. Alike(p[n - 1], q[(n + d) - 1], at, ok, W, said)
  <2>1. n - 1 \notin Bad
    BY <1>3, <1>5
  <2>2. Alike(p[n - 1], q[(n - 1) + d], at, ok, W, said)
    BY <1>5, <2>1
  <2> QED BY <1>5, <2>2
<1>7. IsState(p[n - 1]) /\ p[n] = ParseLine(p[n - 1], n, lines[n])
  BY <1>5, StatesOf
<1>8. IsState(q[(n + d) - 1]) /\ q[n + d] = ParseLine(q[(n + d) - 1], n + d, new[n + d])
  BY <1>5, StatesOf
<1>9. Twin(p[n - 1], n, lines[n], new[n + d], at, ok, W, said)
  BY <1>5
<1>10. Alike(p[n], q[n + d], at, ok, W, said)
  BY <1>5, <1>6, <1>7, <1>8, <1>9, AlikeStep
<1> QED BY <1>3, <1>10

LEMMA AlikeAtStart ==
  ASSUME NEW lines, NEW p, Parsing(p, lines), NEW new, NEW q, Parsing(q, new),
         NEW at, NEW ok, NEW W, NEW said
  PROVE  Alike(p[0], q[0], at, ok, W, said)
<1>1. p[0] = Unparsed /\ q[0] = Unparsed
  BY DEF Parsing
<1>2. Len(Unparsed.gates) = 0
  BY DEF Unparsed
<1> QED BY <1>1, <1>2 DEF Alike, SameShape

\* The text with the evidence replaced.
Restated(lines, new, at, ev, ok, said) ==
  /\ \A n \in 1..Len(lines) :
       /\ new[n].kind = lines[n].kind /\ new[n].id = lines[n].id /\ new[n].key = lines[n].key
       /\ n \notin {at, ev} => new[n] = lines[n]
  /\ (new[at].value = "x" <=> ok) /\ new[ev].value = said

Marked(ev) == {<<l, ev>> : l \in Nat}

LEMMA ReplacedAlike ==
  ASSUME NEW lines, IsLedger(lines), NEW p, Parsing(p, lines),
         NEW new, IsLedger(new), NEW q, Parsing(q, new), Len(new) = Len(lines),
         NEW at \in 1..Len(lines), NEW ev \in 1..Len(lines), NEW ok \in BOOLEAN, NEW said, said # Unset,
         lines[at].kind = "gate", lines[ev].kind = "attr", lines[ev].key = "evidence",
         Restated(lines, new, at, ev, ok, said)
  PROVE  Alike(p[Len(lines)], q[Len(lines)], at, ok, Marked(ev), said)
<1> DEFINE N == Len(lines)
           W == Marked(ev)
<1>1. N \in Nat /\ ev \in Nat /\ ev # 0
  BY DEF IsLedger
<1>0. /\ \A n \in 1..N : /\ new[n].kind = lines[n].kind /\ new[n].id = lines[n].id
                          /\ new[n].key = lines[n].key /\ (n \notin {at, ev} => new[n] = lines[n])
      /\ (new[at].value = "x" <=> ok) /\ new[ev].value = said
  BY DEF Restated
<1>2. \A x, y : <<x, y>> \in W <=> x \in Nat /\ y = ev
  BY DEF Marked
<1> HIDE DEF W
<1>3. ASSUME NEW n \in (0 + 1)..N PROVE Twin(p[n - 1], n, lines[n], new[n + 0], at, ok, W, said)
  <2> DEFINE s == p[n - 1]
             line == lines[n]
             line2 == new[n]
  <2>1. n \in 1..N /\ n + 0 = n /\ n - 1 \in 0..N
    BY <1>1
  <2>2. IsState(s) /\ IsLine(line) /\ IsLine(line2)
    BY <2>1, StatesOf DEF IsLedger
  <2>3. /\ line2.kind = line.kind /\ line2.id = line.id /\ line2.key = line.key
        /\ line.kind \notin {"gate", "attr"} => line2 = line
    BY <1>0, <2>1
  <2>4. line.kind = "gate" => (line2.value = "x" <=> (IF n = at THEN ok ELSE line.value = "x"))
    <3>1. line.kind = "gate" => n # ev
      OBVIOUS
    <3>2. n # at /\ n # ev => line2 = line
      BY <1>0, <2>1
    <3>3. n = at => (line2.value = "x" <=> ok)
      BY <1>0
    <3> HIDE DEF line, line2
    <3> QED BY <3>1, <3>2, <3>3
  <2>5. line.kind = "attr" => line2.value = IF n = ev THEN said ELSE line.value
    <3>1. line.kind = "attr" => n # at
      OBVIOUS
    <3>2. n # at /\ n # ev => line2 = line
      BY <1>0, <2>1
    <3>3. n = ev => line2.value = said
      BY <1>0
    <3> HIDE DEF line, line2
    <3> QED BY <3>1, <3>2, <3>3
  <2>6. line.kind = "attr" /\ n = ev => line.key = "evidence"
    OBVIOUS
  <2>7. \A i \in 1..Len(s.gates) : s.gates[i].line \in Nat /\ (s.gates[i].evidenceLine = ev => s.gates[i].evidence # Unset)
    <3>1. \A i \in 1..Len(s.gates) : GateOf(s.gates[i], p, n - 1, lines)
      BY <2>1, StatesOf
    <3> SUFFICES ASSUME NEW i \in 1..Len(s.gates)
                 PROVE  s.gates[i].line \in Nat /\ (s.gates[i].evidenceLine = ev => s.gates[i].evidence # Unset)
      OBVIOUS
    <3> DEFINE g == s.gates[i]
    <3>2. GateOf(g, p, n - 1, lines)
      BY <3>1
    <3> HIDE DEF g
    <3>3. g.line \in 1..(n - 1) /\ (g.evidenceLine = 0 <=> g.evidence = Unset)
      BY <3>2, Zenon DEF GateOf
    <3>4. g.line \in Nat /\ (g.evidenceLine = ev => g.evidence # Unset)
      BY <1>1, <2>1, <3>3
    <3> QED BY <3>4 DEF g
  <2>8. s.current # 0 => s.current \in 1..Len(s.gates)
    BY <2>2 DEF IsState, ParseState
  <2> HIDE DEF s, line, line2, N
  <2>9. Twin(s, n, line, line2, at, ok, W, said)
    <3>1. <<n, 0>> \notin W
      BY <1>1, <1>2
    <3>2. ASSUME s.current # 0, line.kind = "attr", line.key = "evidence"
          PROVE  /\ line2.value = IF <<s.gates[s.current].line, n>> \in W THEN said ELSE line.value
                 /\ <<s.gates[s.current].line, s.gates[s.current].evidenceLine>> \in W =>
                      s.gates[s.current].evidence # Unset /\ said # Unset
      BY <1>2, <2>5, <2>7, <2>8, <3>2
    <3>3. line.kind = "attr" /\ line.key # "evidence" => line2.value = line.value
      BY <2>5, <2>6
    <3> QED BY <2>2, <2>3, <2>4, <3>1, <3>2, <3>3, Zenon DEF Twin
  <2> QED BY <2>1, <2>9 DEF s, line, line2
<1>4. Alike(p[0], q[0 + 0], at, ok, W, said)
  BY AlikeAtStart
<1>5. 0 \in Nat /\ N \in 0..Len(lines) /\ N + 0 <= Len(new) /\ N \in 0..N /\ N + 0 = N
  BY <1>1
<1>6. \A n \in 0..N : Alike(p[n], q[n + 0], at, ok, W, said)
  BY <1>3, <1>4, <1>5, AlikeThrough
<1>7. Alike(p[N], q[N + 0], at, ok, W, said)
  BY <1>5, <1>6
<1> QED BY <1>5, <1>7 DEF W

\* The attributes that follow a gate are its own.
AtGate(s, at) == ~s.fenced /\ s.current \in 1..Len(s.gates) /\ s.gates[s.current].line = at

LEMMA GateBegins ==
  ASSUME NEW s, IsState(s), NEW line, IsLine(line), NEW n \in Nat, ~s.fenced, line.kind = "gate",
         NEW t, t = ParseLine(s, n, line)
  PROVE  AtGate(t, n)
<1> DEFINE k == Len(s.gates)
           d == GateOn(n, line)
<1>1. s \in ParseState /\ line \in TextLine /\ s.gates \in Seq(GateRecord) /\ k \in Nat
  <2>1. s \in ParseState /\ line \in TextLine /\ s.gates \in Seq(GateRecord)
    BY DEF IsState, IsLine, ParseState
  <2> QED BY <2>1
<1>2. HasNewGate(s, n, line, t)
  BY <1>1, ReadsGate
<1>3. t.gates = Append(s.gates, d) /\ t.current = k + 1 /\ ~t.fenced
  BY <1>2, Zenon DEF HasNewGate
<1>4. d \in GateRecord /\ d.line = n
  BY <1>1, GateOnTyped
<1> HIDE DEF d
<1>5. Len(t.gates) = k + 1 /\ t.gates[k + 1] = d
  BY <1>1, <1>3, <1>4
<1> QED BY <1>1, <1>3, <1>4, <1>5 DEF AtGate

LEMMA GateGoesOn ==
  ASSUME NEW s, IsState(s), NEW line, IsLine(line), NEW n \in Nat, NEW at, AtGate(s, at),
         line.kind = "attr", NEW t, t = ParseLine(s, n, line)
  PROVE  /\ AtGate(t, at)
         /\ line.key = "evidence" => HasEvidence(t, at)
<1> DEFINE c == s.current
           d == WithAttribute(s.gates[c], n, line)
<1>1. s \in ParseState /\ s.gates \in Seq(GateRecord) /\ c \in 1..Len(s.gates) /\ c # 0
      /\ ~s.fenced /\ s.gates[c].line = at /\ Len(s.gates) \in Nat
  <2>1. s \in ParseState /\ s.gates \in Seq(GateRecord) /\ c \in 1..Len(s.gates)
        /\ ~s.fenced /\ s.gates[c].line = at
    BY DEF IsState, ParseState, AtGate
  <2> QED BY <2>1
<1>2. t.gates = [s.gates EXCEPT ![c] = d] /\ t.current = c /\ ~t.fenced
  BY <1>1, ReadsAttribute
<1>3. /\ d \in GateRecord /\ d.line = at
      /\ d.evidence = (IF line.key = "evidence" THEN line.value ELSE s.gates[c].evidence)
  <2>1. s.gates[c] \in GateRecord
    BY <1>1
  <2>2. AttributeSet(d, s.gates[c], n, line)
    BY <2>1, WithAttributeTyped
  <2> HIDE DEF c, d
  <2> QED BY <1>1, <2>2 DEF AttributeSet
<1> HIDE DEF d
<1>4. Len(t.gates) = Len(s.gates) /\ t.gates[c] = d
  BY <1>1, <1>2, <1>3, ReplacedInSeq
<1>5. line.value # Unset
  BY DEF IsLine
<1> HIDE DEF c
<1>6. AtGate(t, at)
  BY <1>1, <1>2, <1>3, <1>4 DEF AtGate
<1>7. line.key = "evidence" => HasEvidence(t, at)
  BY <1>1, <1>3, <1>4, <1>5 DEF HasEvidence
<1> QED BY <1>6, <1>7

LEMMA AttributesFollow ==
  ASSUME NEW lines, IsLedger(lines), NEW p, Parsing(p, lines),
         NEW at \in 1..Len(lines), lines[at].kind = "gate", ~p[at - 1].fenced,
         NEW e \in (at + 1)..(Len(lines) + 1), \A n \in (at + 1)..(e - 1) : lines[n].kind = "attr"
  PROVE  \A n \in at..(e - 1) : AtGate(p[n], at)
<1> DEFINE N == Len(lines)
           Bad == {n \in at..(e - 1) : ~AtGate(p[n], at)}
<1>1. N \in Nat /\ at \in Nat /\ e \in Nat /\ e - 1 <= N /\ at >= 1
  BY DEF IsLedger
<1>2. SUFFICES ASSUME Bad # {} PROVE FALSE
  OBVIOUS
<1>3. PICK n \in Bad : \A m \in Bad : n <= m
  <2>1. Bad \subseteq Nat
    BY <1>1
  <2> HIDE DEF Bad
  <2> QED BY <1>2, <2>1, LeastNatural
<1>4. n \in at..(e - 1) /\ n \in Nat /\ n \in 1..N /\ n - 1 \in 0..N /\ ~(n <= n - 1)
  <2>1. n \in at..(e - 1)
    BY <1>3
  <2> HIDE DEF N
  <2> QED BY <1>1, <2>1
<1>5. IsState(p[n - 1]) /\ p[n] = ParseLine(p[n - 1], n, lines[n]) /\ IsLine(lines[n])
  BY <1>4, StatesOf
<1>6. CASE n = at
  <2>1. AtGate(p[n], n)
    BY <1>4, <1>5, <1>6, GateBegins
  <2> QED BY <1>3, <1>6, <2>1
<1>7. CASE n # at
  <2>1. n - 1 \in at..(e - 1) /\ n \in (at + 1)..(e - 1)
    BY <1>1, <1>4, <1>7
  <2>2. AtGate(p[n - 1], at)
    <3>1. n - 1 \notin Bad
      BY <1>3, <1>4
    <3> QED BY <2>1, <3>1
  <2>3. AtGate(p[n], at)
    BY <1>4, <1>5, <2>1, <2>2, GateGoesOn
  <2> QED BY <1>3, <2>3
<1> QED BY <1>6, <1>7

\* Above the e-th line, a box is what changed.
Boxed(lines, new, at, e, ok) ==
  /\ lines[at].kind = "gate" /\ (new[at].value = "x" <=> ok)
  /\ \A n \in 1..(e - 1) :
       /\ new[n].kind = lines[n].kind /\ new[n].id = lines[n].id /\ new[n].key = lines[n].key
       /\ n # at => new[n] = lines[n]

\* The text with one line more, the evidence of a gate that had none.
LEMMA AlikeBefore ==
  ASSUME NEW lines, IsLedger(lines), NEW p, Parsing(p, lines),
         NEW new, IsLedger(new), NEW q, Parsing(q, new), Len(new) = Len(lines) + 1,
         NEW at \in 1..Len(lines), NEW e \in (at + 1)..(Len(lines) + 1), NEW ok \in BOOLEAN, NEW said,
         Boxed(lines, new, at, e, ok)
  PROVE  Alike(p[e - 1], q[e - 1], at, ok, {}, said)
<1>1. Len(lines) \in Nat /\ at \in Nat /\ e \in Nat /\ e - 1 \in 0..Len(lines) /\ e - 1 <= Len(new)
      /\ e - 1 \in Nat
  BY DEF IsLedger
<1>2. ASSUME NEW n \in (0 + 1)..(e - 1) PROVE Twin(p[n - 1], n, lines[n], new[n + 0], at, ok, {}, said)
  <2> DEFINE s == p[n - 1]
             line == lines[n]
             line2 == new[n]
  <2>1. n \in 1..Len(lines) /\ n + 0 = n /\ n \in 1..Len(new) /\ n \in 1..(e - 1)
    BY <1>1
  <2>2. IsLine(line) /\ IsLine(line2)
    BY <2>1 DEF IsLedger
  <2>3. /\ line2.kind = line.kind /\ line2.id = line.id /\ line2.key = line.key
        /\ n # at => line2 = line
    BY <2>1 DEF Boxed
  <2>4. n = at => line.kind = "gate" /\ (line2.value = "x" <=> ok)
    BY DEF Boxed
  <2> HIDE DEF s, line, line2
  <2>5. Twin(s, n, line, line2, at, ok, {}, said)
    <3>1. line.kind \notin {"gate", "attr"} => line2 = line
      BY <2>3, <2>4
    <3>2. line2.value = "x" <=> (IF n = at THEN ok ELSE line.value = "x")
      BY <2>3, <2>4
    <3>3. line.kind = "attr" => line2.value = line.value
      BY <2>3, <2>4
    <3> QED BY <2>2, <2>3, <3>1, <3>2, <3>3 DEF Twin
  <2> QED BY <2>1, <2>5 DEF s, line, line2
<1>3. Alike(p[0], q[0 + 0], at, ok, {}, said)
  BY AlikeAtStart
<1>4. 0 \in Nat /\ (e - 1) + 0 <= Len(new) /\ e - 1 \in 0..(e - 1) /\ (e - 1) + 0 = e - 1
  BY <1>1
<1>5. \A n \in 0..(e - 1) : Alike(p[n], q[n + 0], at, ok, {}, said)
  BY <1>1, <1>2, <1>3, <1>4, AlikeThrough
<1>6. Alike(p[e - 1], q[(e - 1) + 0], at, ok, {}, said)
  BY <1>4, <1>5
<1> QED BY <1>4, <1>6

LEMMA AlikeHere ==
  ASSUME NEW lines, IsLedger(lines), NEW p, NEW n \in Nat,
         NEW s, IsState(s), LinesApart(s), \A i \in 1..Len(s.gates) : GateOf(s.gates[i], p, n, lines),
         NEW at, AtGate(s, at), ~HasEvidence(s, at),
         NEW t, IsState(t), NEW ok, NEW said, Alike(s, t, at, ok, {}, said),
         NEW line, IsLine(line), line.kind = "attr", line.key = "evidence", line.value = said,
         NEW e \in Nat, NEW v, v = ParseLine(t, e, line)
  PROVE  Alike(s, v, at, ok, {<<at, 0>>}, said)
<1> DEFINE c == s.current
           k == Len(s.gates)
           g == s.gates[c]
           h == t.gates[c]
           f == WithAttribute(h, e, line)
<1>1. /\ SameShape(s, t) /\ Len(t.gates) = k /\ t.current = c /\ ~t.fenced /\ ~s.fenced
      /\ t.abandoned = s.abandoned /\ t.owns = s.owns /\ (t.errors <=> s.errors)
  BY DEF Alike, SameShape, AtGate
<1>2. t.gates \in Seq(GateRecord) /\ c \in 1..k /\ c # 0 /\ g.line = at /\ k \in Nat /\ h \in GateRecord
  <2>1. t.gates \in Seq(GateRecord) /\ s.gates \in Seq(GateRecord) /\ c \in 1..k /\ g.line = at
    BY DEF IsState, ParseState, AtGate
  <2> QED BY <1>1, <2>1
<1>3. g.evidence = Unset /\ g.evidenceLine = 0
  <2>1. g.evidence = Unset
    BY <1>2, Zenon DEF HasEvidence
  <2>2. GateOf(g, p, n, lines)
    BY <1>2
  <2> HIDE DEF g
  <2>3. g.evidenceLine = 0 <=> g.evidence = Unset
    BY <2>2, Zenon DEF GateOf
  <2> QED BY <2>1, <2>3
<1>4. \A i \in 1..k : SameGate(s.gates[i], t.gates[i], at, ok, {}, said)
  BY Zenon DEF Alike
<1>5. /\ v.gates = [t.gates EXCEPT ![c] = f] /\ v.abandoned = t.abandoned /\ v.owns = t.owns
      /\ ~v.fenced /\ v.current = c /\ (v.errors <=> (t.errors \/ h.evidence # Unset))
  <2>1. /\ v.gates = IF t.current = 0 THEN t.gates
                     ELSE [t.gates EXCEPT ![t.current] = WithAttribute(t.gates[t.current], e, line)]
        /\ v.abandoned = t.abandoned /\ v.owns = t.owns /\ ~v.fenced /\ v.current = t.current
        /\ (v.errors <=> (t.errors \/ t.current = 0 \/ t.gates[t.current][line.key] # Unset))
    BY <1>1, ReadsAttribute
  <2> HIDE DEF c
  <2> QED BY <1>1, <1>2, <2>1
<1>6. /\ f \in GateRecord /\ f.id = h.id /\ f.checked = h.checked /\ f.check = h.check
      /\ f.expect = h.expect /\ f.cwd = h.cwd /\ f.evidence = said
  <2>1. AttributeSet(f, h, e, line)
    BY <1>2, WithAttributeTyped
  <2> HIDE DEF f, h
  <2> QED BY <1>2, <2>1 DEF AttributeSet
<1> HIDE DEF f
<1>7. Len(v.gates) = k /\ \A i \in 1..k : v.gates[i] = IF i = c THEN f ELSE t.gates[i]
  <2> HIDE DEF h, k, c
  <2>1. c \in 1..Len(t.gates)
    BY <1>1, <1>2
  <2> QED BY <1>1, <1>2, <1>5, <1>6, <2>1, ReplacedInSeq
<1>8. SameGate(g, h, at, ok, {}, said)
  BY <1>2, <1>4
<1>9. h.evidence = g.evidence
  BY <1>8, Zenon DEF SameGate
<1>10. SameShape(s, v)
  BY <1>1, <1>3, <1>5, <1>7, <1>9 DEF SameShape
<1>11. ASSUME NEW i \in 1..k PROVE SameGate(s.gates[i], v.gates[i], at, ok, {<<at, 0>>}, said)
  <2>1. CASE i = c
    <3>1. v.gates[i] = f /\ s.gates[i] = g
      BY <1>7, <2>1
    <3>2. <<g.line, g.evidenceLine>> \in {<<at, 0>>}
      BY <1>2, <1>3
    <3> HIDE DEF g, h
    <3>3. SameGate(g, f, at, ok, {<<at, 0>>}, said)
      BY <1>6, <1>8, <3>2 DEF SameGate
    <3> QED BY <3>1, <3>3
  <2>2. CASE i # c
    <3> DEFINE d == s.gates[i]
               b == t.gates[i]
    <3>1. v.gates[i] = b /\ SameGate(d, b, at, ok, {}, said)
      BY <1>4, <1>7, <2>2
    <3>2. d.line # at
      BY <1>2, <2>2 DEF LinesApart
    <3> HIDE DEF d, b
    <3>3. SameGate(d, b, at, ok, {<<at, 0>>}, said)
      BY <3>1, <3>2 DEF SameGate
    <3> QED BY <3>1, <3>3 DEF d
  <2> QED BY <2>1, <2>2
<1> QED BY <1>10, <1>11 DEF Alike

Followed(lines, at, e) == \A n \in (at + 1)..(e - 1) : lines[n].kind = "attr"
Moved(lines, new, e) == \A n \in e..Len(lines) : new[n + 1] = lines[n]

LEMMA InsertedAlike ==
  ASSUME NEW lines, IsLedger(lines), NEW p, Parsing(p, lines),
         NEW new, IsLedger(new), NEW q, Parsing(q, new), Len(new) = Len(lines) + 1,
         NEW at \in 1..Len(lines), NEW e \in (at + 1)..(Len(lines) + 1), NEW ok \in BOOLEAN,
         NEW said, said # Unset,
         lines[at].kind = "gate", ~p[at - 1].fenced, ~HasEvidence(p[Len(lines)], at),
         Followed(lines, at, e), Boxed(lines, new, at, e, ok),
         new[e] = Line("attr", Unset, "evidence", said), Moved(lines, new, e)
  PROVE  Alike(p[Len(lines)], q[Len(lines) + 1], at, ok, {<<at, 0>>}, said)
<1> DEFINE N == Len(lines)
           W == {<<at, 0>>}
<1>1. /\ N \in Nat /\ at \in Nat /\ e \in Nat /\ e - 1 \in 0..N /\ e \in 1..Len(new) /\ e - 1 \in Nat
      /\ e - 1 \in 0..Len(new) /\ e - 1 \in at..(e - 1) /\ (e - 1) + 1 = e /\ N + 1 <= Len(new)
      /\ at >= 1
  BY DEF IsLedger
<1>2. Alike(p[e - 1], q[e - 1], at, ok, {}, said)
  BY AlikeBefore
<1>3. AtGate(p[e - 1], at)
  <2>1. \A n \in at..(e - 1) : AtGate(p[n], at)
    BY AttributesFollow, Zenon DEF Followed
  <2> QED BY <1>1, <2>1
<1>4. ~HasEvidence(p[e - 1], at)
  BY <1>1, EvidenceLasts
<1>5. /\ IsState(p[e - 1]) /\ LinesApart(p[e - 1]) /\ IsState(q[e - 1])
      /\ \A i \in 1..Len(p[e - 1].gates) : GateOf(p[e - 1].gates[i], p, e - 1, lines)
      /\ q[e] = ParseLine(q[e - 1], e, new[e]) /\ IsLine(new[e])
  <2>1. /\ IsState(p[e - 1]) /\ LinesApart(p[e - 1])
        /\ \A i \in 1..Len(p[e - 1].gates) : GateOf(p[e - 1].gates[i], p, e - 1, lines)
    BY <1>1, StatesOf
  <2>2. IsState(q[e - 1]) /\ q[e] = ParseLine(q[e - 1], e, new[e]) /\ IsLine(new[e])
    <3>1. /\ \A n \in 0..Len(new) : IsState(q[n])
          /\ \A n \in 1..Len(new) : q[n] = ParseLine(q[n - 1], n, new[n]) /\ IsLine(new[n])
      BY StatesOf
    <3> QED BY <1>1, <3>1
  <2> QED BY <2>1, <2>2
<1>6. new[e].kind = "attr" /\ new[e].key = "evidence" /\ new[e].value = said
  BY DEF Line
<1>7. Alike(p[e - 1], q[(e - 1) + 1], at, ok, W, said)
  <2>1. Alike(p[e - 1], q[e], at, ok, W, said)
    <3>1. e - 1 \in Nat /\ e \in Nat
      BY <1>1
    <3> DEFINE s == p[e - 1]
               t == q[e - 1]
               v == q[e]
               line == new[e]
    <3>2. /\ IsState(s) /\ LinesApart(s) /\ \A i \in 1..Len(s.gates) : GateOf(s.gates[i], p, e - 1, lines)
          /\ AtGate(s, at) /\ ~HasEvidence(s, at) /\ IsState(t) /\ Alike(s, t, at, ok, {}, said)
          /\ IsLine(line) /\ line.kind = "attr" /\ line.key = "evidence" /\ line.value = said
          /\ v = ParseLine(t, e, line)
      BY <1>2, <1>3, <1>4, <1>5, <1>6
    <3> HIDE DEF s, t, v, line, W
    <3>3. Alike(s, v, at, ok, {<<at, 0>>}, said)
      BY <3>1, <3>2, AlikeHere, Zenon
    <3> QED BY <3>3 DEF s, v, W
  <2> QED BY <1>1, <2>1
<1>8. ASSUME NEW n \in ((e - 1) + 1)..N PROVE Twin(p[n - 1], n, lines[n], new[n + 1], at, ok, W, said)
  <2> DEFINE s == p[n - 1]
             line == lines[n]
  <2>1. n \in Nat /\ n \in 1..N /\ n \in e..N /\ n - 1 \in 0..N /\ n # at /\ n # 0 /\ n \in 0..N
    BY <1>1
  <2>2. new[n + 1] = line /\ IsLine(line) /\ IsState(s) /\ p[n] = ParseLine(s, n, line)
    BY <2>1, StatesOf DEF Moved
  <2>3. <<n, 0>> \notin W /\ \A x : <<x, n>> \notin W
    BY <2>1
  <2>4. ~HasEvidence(p[n], at)
    BY <2>1, EvidenceLasts
  <2> HIDE DEF s, line, N
  <2>5. ASSUME ~s.fenced, line.kind = "attr", line.key = "evidence", s.current # 0
        PROVE  <<s.gates[s.current].line, s.gates[s.current].evidenceLine>> \notin W
    <3>1. SUFFICES ASSUME s.gates[s.current].line = at PROVE FALSE
      OBVIOUS
    <3>2. s.current \in 1..Len(s.gates)
      BY <2>2, <2>5 DEF IsState, ParseState
    <3>3. AtGate(s, at)
      BY <2>5, <3>1, <3>2 DEF AtGate
    <3>4. HasEvidence(p[n], at)
      BY <2>1, <2>2, <2>5, <3>3, GateGoesOn
    <3> QED BY <2>4, <3>4
  <2> HIDE DEF W
  <2>6. Twin(s, n, line, line, at, ok, W, said)
    BY <2>1, <2>2, <2>3, <2>5, Zenon DEF Twin
  <2> QED BY <2>2, <2>6 DEF s, line
<1> HIDE DEF W
<1>9. \A n \in (e - 1)..N : Alike(p[n], q[n + 1], at, ok, W, said)
  <2>1. e - 1 \in Nat /\ N \in 0..Len(lines) /\ 1 \in Nat /\ N + 1 <= Len(new)
    BY <1>1
  <2> QED BY <1>7, <1>8, <2>1, AlikeThrough
<1>10. N \in (e - 1)..N
  BY <1>1
<1> QED BY <1>9, <1>10 DEF W

LEMMA EndFound ==
  ASSUME NEW lines, IsLedger(lines), NEW g, g.line \in 1..Len(lines),
         NEW e, e = EndOfAttributes(lines, g)
  PROVE  /\ e \in (g.line + 1)..(Len(lines) + 1)
         /\ \A n \in (g.line + 1)..(e - 1) : lines[n].kind = "attr"
<1> DEFINE N == Len(lines)
           a == g.line + 1
           Ends == {n \in a..(N + 1) : n > N \/ lines[n].kind # "attr"}
<1>1. N \in Nat /\ a \in Nat /\ a <= N + 1
  BY DEF IsLedger
<1>2. \E n \in a..(N + 1) : (n > N \/ lines[n].kind # "attr") /\ \A m \in a..(n - 1) : lines[m].kind = "attr"
  <2> HIDE DEF N, a
  <2>1. N + 1 \in Ends
    BY <1>1
  <2>2. PICK n \in Ends : \A m \in Ends : n <= m
    <3>1. Ends \subseteq Nat
      BY <1>1
    <3> HIDE DEF Ends
    <3> QED BY <2>1, <3>1, LeastNatural
  <2>3. ASSUME NEW m \in a..(n - 1) PROVE lines[m].kind = "attr"
    <3>1. n \in a..(N + 1) /\ m \in a..(N + 1) /\ ~(n <= m)
      BY <1>1, <2>2
    <3>2. m \notin Ends
      BY <2>2, <3>1
    <3> QED BY <3>1, <3>2
  <2>4. n \in a..(N + 1) /\ (n > N \/ lines[n].kind # "attr")
    BY <2>2
  <2> QED BY <2>3, <2>4
<1>3. e = CHOOSE n \in a..(N + 1) :
        (n > N \/ lines[n].kind # "attr") /\ \A m \in a..(n - 1) : lines[m].kind = "attr"
  BY Zenon DEF EndOfAttributes
<1> HIDE DEF a, N
<1>4. e \in a..(N + 1) /\ \A m \in a..(e - 1) : lines[m].kind = "attr"
  BY <1>2, <1>3, Zenon
<1> QED BY <1>4 DEF a, N

Inserted(q, e, x, r, S) ==
  /\ r \in Seq(S) /\ Len(r) = Len(q) + 1 /\ r[e] = x
  /\ \A i \in 1..(e - 1) : r[i] = q[i]
  /\ \A i \in e..Len(q) : r[i + 1] = q[i]

LEMMA InsertedInSeq ==
  ASSUME NEW S, NEW q \in Seq(S), NEW e \in 1..(Len(q) + 1), NEW x \in S,
         NEW r, r = InsertAt(q, e, x)
  PROVE  Inserted(q, e, x, r, S)
<1> DEFINE N == Len(q)
           before == SubSeq(q, 1, e - 1)
           after == SubSeq(q, e, N)
<1>1. N \in Nat /\ e \in Nat /\ e >= 1 /\ e <= N + 1
  OBVIOUS
<1>2. before \in Seq(S) /\ Len(before) = e - 1 /\ \A i \in 1..(e - 1) : before[i] = q[i]
  BY <1>1
<1>3. after \in Seq(S) /\ Len(after) = N - e + 1 /\ \A i \in 1..(N - e + 1) : after[i] = q[e + i - 1]
  BY <1>1
<1>4. r = before \o <<x>> \o after
  BY DEF InsertAt
<1> HIDE DEF before, after
<1> DEFINE b == before \o <<x>>
<1>5. b \in Seq(S) /\ Len(b) = e /\ b[e] = x /\ \A i \in 1..(e - 1) : b[i] = q[i]
  BY <1>1, <1>2
<1>6. r = b \o after
  BY <1>4
<1> HIDE DEF b, N
<1>7. r \in Seq(S) /\ Len(r) = N + 1 /\ \A i \in 1..e : r[i] = b[i]
  <2>1. r \in Seq(S) /\ Len(r) = N + 1
    <3>1. b \in Seq(S) /\ after \in Seq(S)
      BY <1>3, <1>5
    <3>2. r \in Seq(S)
      BY <1>6, <3>1
    <3>3. Len(r) = Len(b) + Len(after)
      BY <1>6, <3>1
    <3> QED BY <1>1, <1>3, <1>5, <3>2, <3>3
  <2>2. ASSUME NEW i \in 1..e PROVE r[i] = b[i]
    <3>1. i \in 1..Len(b) /\ i \in 1..(Len(b) + Len(after))
      BY <1>1, <1>3, <1>5
    <3> QED BY <1>3, <1>5, <1>6, <3>1
  <2> QED BY <2>1, <2>2
<1>8. ASSUME NEW i \in e..N PROVE r[i + 1] = q[i]
  <2>1. i + 1 - e \in 1..(N - e + 1) /\ i + 1 = e + (i + 1 - e) /\ e + (i + 1 - e) - 1 = i
    BY <1>1
  <2>2. r[i + 1] = after[i + 1 - e]
    BY <1>1, <1>3, <1>5, <1>6, <2>1
  <2>3. after[i + 1 - e] = q[e + (i + 1 - e) - 1]
    BY <1>3, <2>1
  <2> QED BY <2>1, <2>2, <2>3
<1>9. e \in 1..e /\ \A i \in 1..(e - 1) : i \in 1..e
  BY <1>1
<1> QED BY <1>5, <1>7, <1>8, <1>9 DEF N, Inserted

\* What a written result changes: box and evidence of one gate.
Rewritten(doc, new, k, ok, said) ==
  /\ new.abandoned = doc.abandoned /\ Len(new.gates) = Len(doc.gates)
  /\ \A i \in 1..Len(doc.gates) :
       LET g == doc.gates[i] h == new.gates[i] IN
       /\ h.id = g.id /\ h.check = g.check /\ h.expect = g.expect /\ h.cwd = g.cwd
       /\ h.checked <=> (IF i = k THEN ok ELSE g.checked)
       /\ h.evidence = IF i = k THEN said ELSE g.evidence

OnlyOf(s, k, W) ==
  \A i \in 1..Len(s.gates) : <<s.gates[i].line, s.gates[i].evidenceLine>> \in W <=> i = k

LEMMA RewrittenLike ==
  ASSUME NEW s, NEW t, NEW k, NEW ok, NEW said, Rewritten(s, t, k, ok, said),
         NEW doc, doc.gates = s.gates, doc.abandoned = s.abandoned,
         NEW text, text.gates = t.gates, text.abandoned = t.abandoned
  PROVE  Rewritten(doc, text, k, ok, said)
BY DEF Rewritten

LEMMA AlikeAtEnd ==
  ASSUME NEW s, IsState(s), LinesApart(s), ~Wrong(s), NEW t, IsState(t),
         NEW at, NEW ok, NEW W, NEW said, Alike(s, t, at, ok, W, said),
         NEW k \in 1..Len(s.gates), s.gates[k].line = at,
         OnlyOf(s, k, W)
  PROVE  ~Wrong(t) /\ Rewritten(s, t, k, ok, said)
<1> DEFINE N == Len(s.gates)
<1>1. /\ Len(t.gates) = N /\ t.abandoned = s.abandoned /\ (t.errors <=> s.errors)
      /\ (t.fenced <=> s.fenced)
  BY DEF Alike, SameShape
<1>2. s.gates \in Seq(GateRecord) /\ t.gates \in Seq(GateRecord)
  BY DEF IsState, ParseState
<1>3. ASSUME NEW i \in 1..N
      PROVE  LET g == s.gates[i] h == t.gates[i] IN
             /\ h.id = g.id /\ h.check = g.check /\ h.expect = g.expect /\ h.cwd = g.cwd
             /\ h.checked <=> (IF i = k THEN ok ELSE g.checked)
             /\ h.evidence = IF i = k THEN said ELSE g.evidence
  <2> DEFINE g == s.gates[i]
             h == t.gates[i]
  <2>1. SameGate(g, h, at, ok, W, said)
    BY Zenon DEF Alike
  <2>2. g.line = at <=> i = k
    BY DEF LinesApart
  <2>3. <<g.line, g.evidenceLine>> \in W <=> i = k
    BY Zenon DEF OnlyOf
  <2> HIDE DEF g, h
  <2>4. /\ h.id = g.id /\ h.check = g.check /\ h.expect = g.expect /\ h.cwd = g.cwd
        /\ h.checked <=> (IF i = k THEN ok ELSE g.checked)
        /\ h.evidence = IF i = k THEN said ELSE g.evidence
    BY <2>1, <2>2, <2>3 DEF SameGate
  <2> QED BY <2>4 DEF g, h
<1>4. Rewritten(s, t, k, ok, said)
  BY <1>1, <1>3, Zenon DEF Rewritten
<1>5. ~Wrong(t)
  <2>1. \A i \in 1..N : t.gates[i].id = s.gates[i].id /\ (HalfRunnable(t.gates[i]) <=> HalfRunnable(s.gates[i]))
    BY <1>3 DEF HalfRunnable
  <2>2. t.gates # <<>>
    <3>1. s.gates # <<>>
      BY DEF Wrong
    <3> QED BY <1>1, <1>2, <3>1
  <2>3. ~s.errors /\ ~s.fenced
    BY DEF Wrong
  <2>4. t.abandoned \subseteq {t.gates[i].id : i \in 1..N}
    <3>1. s.abandoned \subseteq {s.gates[i].id : i \in 1..N}
      BY DEF Wrong
    <3> QED BY <1>1, <2>1, <3>1
  <2>5. \A i \in 1..N : ~HalfRunnable(s.gates[i])
    BY DEF Wrong
  <2> HIDE DEF N
  <2> QED BY <1>1, <2>1, <2>2, <2>3, <2>4, <2>5, Zenon DEF Wrong
<1> QED BY <1>4, <1>5

LEMMA LedgerParsed ==
  ASSUME NEW lines, IsLedger(lines), NEW doc, doc = parseGates(lines)
  PROVE  \E p : /\ Parsing(p, lines) /\ IsState(p[Len(lines)]) /\ LinesApart(p[Len(lines)])
                /\ doc.gates = p[Len(lines)].gates /\ doc.abandoned = p[Len(lines)].abandoned
                /\ (doc.errors <=> Wrong(p[Len(lines)])) /\ doc \in ParseState
<1>1. Len(lines) \in Nat
  BY DEF IsLedger
<1>2. PICK p : Parsing(p, lines) /\ LinesParsed(lines) = p[Len(lines)]
  BY <1>1, ParseExists
<1>3. IsState(p[Len(lines)]) /\ LinesApart(p[Len(lines)])
  BY <1>1, <1>2, StatesOf
<1>4. /\ doc \in ParseState /\ doc.gates = p[Len(lines)].gates
      /\ doc.abandoned = p[Len(lines)].abandoned /\ (doc.errors <=> Wrong(p[Len(lines)]))
  BY <1>2, DocOf
<1> QED BY <1>2, <1>3, <1>4

Valued(lines, n, value) == [lines EXCEPT ![n].value = value]

LEMMA SetValue ==
  ASSUME NEW lines \in Seq(TextLine), NEW n \in 1..Len(lines), NEW value \in Str,
         NEW new, new = Valued(lines, n, value)
  PROVE  /\ new \in Seq(TextLine) /\ Len(new) = Len(lines)
         /\ \A i \in 1..Len(lines) : i # n => new[i] = lines[i]
         /\ new[n].kind = lines[n].kind /\ new[n].id = lines[n].id /\ new[n].key = lines[n].key
         /\ new[n].value = value
<1> DEFINE line == [lines[n] EXCEPT !.value = value]
<1>1. lines[n] \in TextLine
  OBVIOUS
<1>2. /\ line \in TextLine /\ line.kind = lines[n].kind /\ line.id = lines[n].id
      /\ line.key = lines[n].key /\ line.value = value
  BY <1>1 DEF TextLine
<1>3. new = [lines EXCEPT ![n] = line]
  BY Zenon DEF Valued
<1> HIDE DEF line
<1>4. new \in Seq(TextLine) /\ Len(new) = Len(lines)
      /\ \A j \in 1..Len(lines) : new[j] = IF j = n THEN line ELSE lines[j]
  BY <1>2, <1>3, ReplacedInSeq
<1> QED BY <1>2, <1>4

LEMMA WriteKeeps ==
  ASSUME NEW lines, IsLedger(lines), NEW doc, doc = parseGates(lines), ~doc.errors,
         NEW k \in 1..Len(doc.gates), NEW g, g = doc.gates[k], g.check # Unset, NEW ok \in BOOLEAN,
         NEW said, said = IF ok THEN g.check ELSE "pending",
         NEW new, new = WriteResult(lines, g, ok), NEW text, text = parseGates(new)
  PROVE  IsLedger(new) /\ ~text.errors /\ Rewritten(doc, text, k, ok, said)
<1> DEFINE N == Len(lines)
           box == IF ok THEN "x" ELSE " "
           boxed == [lines EXCEPT ![g.line].value = box]
           at == g.line
           ev == g.evidenceLine
<1>1. PICK p : /\ Parsing(p, lines) /\ IsState(p[N]) /\ LinesApart(p[N])
               /\ doc.gates = p[N].gates /\ doc.abandoned = p[N].abandoned
               /\ (doc.errors <=> Wrong(p[N])) /\ doc \in ParseState
  BY LedgerParsed
<1> DEFINE s == p[N]
<1>2. N \in Nat /\ lines \in Seq(TextLine) /\ \A n \in 1..N : IsLine(lines[n])
  BY DEF IsLedger
<1>3. k \in 1..Len(s.gates) /\ g = s.gates[k] /\ ~Wrong(s) /\ g \in GateRecord
  BY <1>1 DEF ParseState
<1>4. GateOf(g, p, N, lines)
  <2>1. N \in 0..N
    BY <1>2
  <2>2. \A i \in 1..Len(p[N].gates) : GateOf(p[N].gates[i], p, N, lines)
    BY <1>1, <2>1, StatesOf
  <2> QED BY <1>3, <2>2
<1>5. /\ at \in 1..N /\ lines[at].kind = "gate" /\ ~p[at - 1].fenced /\ ev \in 0..N
      /\ (ev = 0 <=> g.evidence = Unset)
      /\ ev # 0 => lines[ev].kind = "attr" /\ lines[ev].key = "evidence"
  BY <1>4, Zenon DEF GateOf
<1>6. said \in Str /\ said # Unset /\ box \in Str /\ (box = "x" <=> ok)
  <2>1. said \in Str /\ box \in Str
    BY <1>3 DEF GateRecord, Str
  <2> QED BY <2>1 DEF Unset
<1>7. /\ boxed \in Seq(TextLine) /\ Len(boxed) = N
      /\ \A n \in 1..N : n # at => boxed[n] = lines[n]
      /\ boxed[at].kind = lines[at].kind /\ boxed[at].id = lines[at].id /\ boxed[at].key = lines[at].key
      /\ boxed[at].value = box
  <2>1. boxed = Valued(lines, at, box)
    BY Zenon DEF Valued
  <2> HIDE DEF box, boxed, at
  <2>2. lines \in Seq(TextLine) /\ at \in 1..Len(lines) /\ box \in Str
    BY <1>2, <1>5, <1>6
  <2> QED BY <2>1, <2>2, SetValue
<1> HIDE DEF box, boxed
<1>8. \A n \in 1..N : IsLine(boxed[n])
  <2> SUFFICES ASSUME NEW n \in 1..N PROVE IsLine(boxed[n])
    OBVIOUS
  <2>1. CASE n # at
    BY <1>2, <1>7, <2>1
  <2>2. CASE n = at
    <3>1. boxed[n] \in TextLine /\ boxed[n].kind # "attr"
      BY <1>5, <1>7, <2>2
    <3> QED BY <3>1 DEF IsLine
  <2> QED BY <2>1, <2>2
<1>9. CASE ev # 0
  <2>1. new = [boxed EXCEPT ![ev].value = said] /\ ev \in 1..N /\ ev # at
    <3>1. new = [boxed EXCEPT ![ev].value = said]
      BY <1>9, Zenon DEF WriteResult, boxed, box
    <3>2. ev \in 1..N
      BY <1>2, <1>5, <1>9
    <3>3. ev # at
      <4> HIDE DEF ev, at
      <4> QED BY <1>5, <1>9
    <3> QED BY <3>1, <3>2, <3>3
  <2> HIDE DEF ev, at
  <2>2. /\ new \in Seq(TextLine) /\ Len(new) = N
        /\ \A n \in 1..N : n # ev => new[n] = boxed[n]
        /\ new[ev].kind = boxed[ev].kind /\ new[ev].id = boxed[ev].id /\ new[ev].key = boxed[ev].key
        /\ new[ev].value = said
    <3>1. new = Valued(boxed, ev, said)
      BY <2>1, Zenon DEF Valued
    <3>2. boxed \in Seq(TextLine) /\ ev \in 1..Len(boxed) /\ said \in Str /\ Len(boxed) = N
      BY <1>6, <1>7, <2>1
    <3> HIDE DEF N
    <3>3. /\ new \in Seq(TextLine) /\ Len(new) = Len(boxed)
          /\ \A i \in 1..Len(boxed) : i # ev => new[i] = boxed[i]
          /\ new[ev].kind = boxed[ev].kind /\ new[ev].id = boxed[ev].id /\ new[ev].key = boxed[ev].key
          /\ new[ev].value = said
      BY <3>1, <3>2, SetValue
    <3> QED BY <3>2, <3>3
  <2>3. /\ \A n \in 1..N : /\ new[n].kind = lines[n].kind /\ new[n].id = lines[n].id
                           /\ new[n].key = lines[n].key
                           /\ n \notin {at, ev} => new[n] = lines[n]
        /\ (new[at].value = "x" <=> ok) /\ new[ev].value = said
    BY <1>5, <1>6, <1>7, <2>1, <2>2
  <2>4. IsLedger(new)
    <3>1. ASSUME NEW n \in 1..N PROVE IsLine(new[n])
      <4>1. CASE n # ev
        BY <1>8, <2>2, <4>1
      <4>2. CASE n = ev
        <5>1. new[n] \in TextLine /\ new[n].key = "evidence" /\ new[n].value # Unset
          BY <1>5, <1>6, <1>9, <2>2, <2>3, <4>2
        <5> QED BY <5>1 DEF IsLine, Attributes
      <4> QED BY <4>1, <4>2
    <3> QED BY <2>2, <3>1 DEF IsLedger
  <2>5. PICK q : /\ Parsing(q, new) /\ IsState(q[Len(new)]) /\ LinesApart(q[Len(new)])
                 /\ text.gates = q[Len(new)].gates /\ text.abandoned = q[Len(new)].abandoned
                 /\ (text.errors <=> Wrong(q[Len(new)])) /\ text \in ParseState
    BY <2>4, LedgerParsed
  <2> DEFINE t == q[N]
             W == Marked(ev)
  <2>6. Alike(s, t, at, ok, W, said)
    <3>1. at \in 1..Len(lines) /\ ev \in 1..Len(lines) /\ Len(new) = Len(lines)
      BY <1>5, <2>1, <2>2
    <3>2. lines[at].kind = "gate" /\ lines[ev].kind = "attr" /\ lines[ev].key = "evidence"
      BY <1>5, <1>9
    <3>3. Restated(lines, new, at, ev, ok, said)
      BY <2>3, Zenon DEF Restated
    <3>5. Parsing(p, lines) /\ Parsing(q, new)
      BY <1>1, <2>5
    <3>6. Alike(p[Len(lines)], q[Len(lines)], at, ok, Marked(ev), said)
      BY <1>2, <1>6, <2>4, <3>1, <3>2, <3>3, <3>5, ReplacedAlike
    <3> QED BY <3>6
  <2>7. OnlyOf(s, k, W)
    <3>1. \A i \in 1..Len(s.gates) : s.gates[i] \in GateRecord
      BY <1>1 DEF IsState, ParseState
    <3>2. \A i \in 1..Len(s.gates) : s.gates[i].evidenceLine = ev <=> i = k
      BY <1>1, <1>3, <1>9 DEF LinesApart, ev
    <3> HIDE DEF s
    <3> QED BY <3>1, <3>2 DEF GateRecord, OnlyOf, Marked
  <2>8. ~Wrong(t) /\ Rewritten(s, t, k, ok, said) /\ IsState(t)
    <3>1. s.gates[k].line = at
      BY <1>3 DEF at
    <3>2. IsState(t)
      BY <2>2, <2>5
    <3>3. IsState(s) /\ LinesApart(s)
      BY <1>1
    <3> HIDE DEF s, t, W
    <3> QED BY <1>3, <2>6, <2>7, <3>1, <3>2, <3>3, AlikeAtEnd
  <2>9. Rewritten(doc, text, k, ok, said)
    <3>1. text.gates = t.gates /\ text.abandoned = t.abandoned
      BY <2>2, <2>5
    <3>2. doc.gates = s.gates /\ doc.abandoned = s.abandoned
      BY <1>1
    <3> HIDE DEF s, t
    <3> QED BY <2>8, <3>1, <3>2, RewrittenLike
  <2> QED BY <2>2, <2>4, <2>5, <2>8, <2>9
<1>10. CASE ev = 0
  <2> DEFINE e == EndOfAttributes(lines, g)
             line == Line("attr", Unset, "evidence", said)
  <2>1. /\ e \in (at + 1)..(N + 1) /\ \A n \in (at + 1)..(e - 1) : lines[n].kind = "attr"
    BY <1>5, EndFound
  <2>2. new = InsertAt(boxed, e, line)
    BY <1>10, Zenon DEF WriteResult, boxed, box
  <2>3. line \in TextLine /\ IsLine(line)
    <3>1. "attr" \in Str /\ Unset \in Str /\ "evidence" \in Str
      BY DEF Str, Unset
    <3>2. line \in TextLine
      BY <1>6, <3>1 DEF Line, TextLine
    <3>3. line.key = "evidence" /\ line.value = said
      BY DEF Line
    <3> HIDE DEF line
    <3> QED BY <1>6, <3>2, <3>3 DEF IsLine, Attributes
  <2> HIDE DEF e, line, at, ev
  <2>4. e \in Nat /\ e \in 1..(Len(boxed) + 1) /\ at \in Nat /\ at >= 1 /\ at <= e - 1
    BY <1>2, <1>5, <1>7, <2>1
  <2>5. /\ new \in Seq(TextLine) /\ Len(new) = N + 1 /\ new[e] = line
        /\ \A n \in 1..(e - 1) : new[n] = boxed[n]
        /\ \A n \in e..N : new[n + 1] = boxed[n]
    <3>1. Inserted(boxed, e, line, new, TextLine)
      BY <1>7, <2>2, <2>3, <2>4, InsertedInSeq
    <3> HIDE DEF N
    <3> QED BY <1>7, <3>1 DEF Inserted
  <2>6. IsLedger(new)
    <3>1. ASSUME NEW n \in 1..(N + 1) PROVE IsLine(new[n])
      <4>1. CASE n = e
        BY <2>3, <2>5, <4>1
      <4>2. CASE n < e
        <5>1. n \in 1..(e - 1) /\ n \in 1..N
          BY <1>2, <2>1, <2>4, <4>2
        <5> QED BY <1>8, <2>5, <5>1
      <4>3. CASE n > e
        <5>1. n - 1 \in e..N /\ n - 1 \in 1..N /\ (n - 1) + 1 = n
          BY <1>2, <2>4, <4>3
        <5>2. new[(n - 1) + 1] = boxed[n - 1]
          BY <2>5, <5>1
        <5> QED BY <1>8, <5>1, <5>2
      <4> QED BY <1>2, <2>4, <4>1, <4>2, <4>3
    <3> QED BY <2>5, <3>1 DEF IsLedger
  <2>7. PICK q : /\ Parsing(q, new) /\ IsState(q[Len(new)]) /\ LinesApart(q[Len(new)])
                 /\ text.gates = q[Len(new)].gates /\ text.abandoned = q[Len(new)].abandoned
                 /\ (text.errors <=> Wrong(q[Len(new)])) /\ text \in ParseState
    BY <2>6, LedgerParsed
  <2> DEFINE t == q[N + 1]
             W == {<<at, 0>>}
  <2>8. Alike(s, t, at, ok, W, said)
    <3>1. at \in 1..Len(lines) /\ e \in (at + 1)..(Len(lines) + 1) /\ Len(new) = Len(lines) + 1
      BY <1>5, <2>1, <2>5
    <3>2. lines[at].kind = "gate" /\ ~p[at - 1].fenced
      BY <1>5
    <3>3. ~HasEvidence(p[Len(lines)], at)
      <4>1. \A i \in 1..Len(s.gates) : s.gates[i].line = at => i = k
        BY <1>1, <1>3 DEF LinesApart, at
      <4>2. s.gates[k].evidence = Unset
        BY <1>3, <1>5, <1>10
      <4> QED BY <4>1, <4>2 DEF HasEvidence
    <3>4. Boxed(lines, new, at, e, ok)
      <4>1. ASSUME NEW n \in 1..(e - 1)
            PROVE  /\ new[n].kind = lines[n].kind /\ new[n].id = lines[n].id /\ new[n].key = lines[n].key
                   /\ n # at => new[n] = lines[n]
        <5>1. n \in 1..N /\ new[n] = boxed[n]
          BY <1>2, <2>1, <2>4, <2>5
        <5> QED BY <1>7, <5>1
      <4>2. new[at].value = "x" <=> ok
        <5>1. at \in 1..(e - 1)
          BY <2>4
        <5> QED BY <1>6, <1>7, <2>5, <5>1
      <4> QED BY <1>5, <4>1, <4>2, Zenon DEF Boxed
    <3>5. new[e] = Line("attr", Unset, "evidence", said)
      BY <2>5 DEF line
    <3>6. Moved(lines, new, e)
      <4>1. ASSUME NEW n \in e..N PROVE new[n + 1] = lines[n]
        <5>1. n \in 1..N /\ n # at
          BY <1>2, <2>4
        <5> QED BY <1>7, <2>5, <5>1
      <4> QED BY <4>1 DEF Moved
    <3>9. Followed(lines, at, e)
      BY <2>1 DEF Followed
    <3>7. Parsing(p, lines) /\ Parsing(q, new)
      BY <1>1, <2>7
    <3>8. Alike(p[Len(lines)], q[Len(lines) + 1], at, ok, {<<at, 0>>}, said)
      BY <1>6, <2>6, <3>1, <3>2, <3>3, <3>4, <3>5, <3>6, <3>7, <3>9, InsertedAlike
    <3> QED BY <3>8
  <2>9. OnlyOf(s, k, W)
    <3>1. \A i \in 1..Len(s.gates) : s.gates[i].line = at => i = k
      BY <1>1, <1>3 DEF LinesApart, at
    <3>2. s.gates[k].line = at /\ s.gates[k].evidenceLine = 0
      BY <1>3, <1>10 DEF at, ev
    <3> HIDE DEF s
    <3> QED BY <3>1, <3>2 DEF OnlyOf
  <2>10. ~Wrong(t) /\ Rewritten(s, t, k, ok, said) /\ IsState(t)
    <3>1. s.gates[k].line = at
      BY <1>3 DEF at
    <3>2. IsState(t)
      BY <2>5, <2>7
    <3>3. IsState(s) /\ LinesApart(s)
      BY <1>1
    <3> HIDE DEF s, t, W
    <3> QED BY <1>3, <2>8, <2>9, <3>1, <3>2, <3>3, AlikeAtEnd
  <2>11. Rewritten(doc, text, k, ok, said)
    <3>1. text.gates = t.gates /\ text.abandoned = t.abandoned
      BY <2>5, <2>7
    <3>2. doc.gates = s.gates /\ doc.abandoned = s.abandoned
      BY <1>1
    <3> HIDE DEF s, t
    <3> QED BY <2>10, <3>1, <3>2, RewrittenLike
  <2> QED BY <2>5, <2>6, <2>7, <2>10, <2>11
<1> QED BY <1>9, <1>10

(* What a text says, gate by gate. *)

Signature == Str \X Str \X Str
Known(lines) == {<<g.id, signature(g)>> : g \in Gates(parseGates(lines))}
AbandonedIn(lines) == parseGates(lines).abandoned
Fine(lines) == ~parseGates(lines).errors
StatesIn(lines, id) == StateOf(parseGates(lines), id)
IsMet(lines, id) == "met" \in StatesIn(lines, id)
Backed(lines, approved, passing) ==
  \A g \in Gates(parseGates(lines)) : g.evidence \notin {Unset, "", "pending", "by hand"} =>
    g.evidence = g.check /\ <<g.id, signature(g)>> \in approved \cap passing
IdsApart(gates) == \A i, j \in 1..Len(gates) : i # j => gates[i].id # gates[j].id

LEMMA DocKnown ==
  ASSUME NEW lines, IsLedger(lines), NEW doc, doc = parseGates(lines)
  PROVE  /\ doc \in ParseState /\ doc.gates \in Seq(GateRecord) /\ Len(doc.gates) \in Nat
         /\ DOMAIN doc.gates = 1..Len(doc.gates) /\ \A i \in 1..Len(doc.gates) : doc.gates[i] \in GateRecord
         /\ Gates(doc) = {doc.gates[i] : i \in 1..Len(doc.gates)}
         /\ \A i \in 1..Len(doc.gates) : doc.gates[i].check \notin Words \ {""}
         /\ ~doc.errors => IdsApart(doc.gates) /\ \A i \in 1..Len(doc.gates) : ~HalfRunnable(doc.gates[i])
<1>1. PICK p : /\ Parsing(p, lines) /\ IsState(p[Len(lines)]) /\ LinesApart(p[Len(lines)])
               /\ doc.gates = p[Len(lines)].gates /\ doc.abandoned = p[Len(lines)].abandoned
               /\ (doc.errors <=> Wrong(p[Len(lines)])) /\ doc \in ParseState
  BY LedgerParsed
<1> DEFINE s == p[Len(lines)]
<1>2. doc.gates \in Seq(GateRecord)
  BY <1>1 DEF ParseState
<1>3. Len(doc.gates) \in Nat /\ DOMAIN doc.gates = 1..Len(doc.gates)
      /\ \A i \in 1..Len(doc.gates) : doc.gates[i] \in GateRecord
  BY <1>2
<1>4. Gates(doc) = {doc.gates[i] : i \in 1..Len(doc.gates)}
  BY <1>3 DEF Gates
<1>5. \A i \in 1..Len(doc.gates) : doc.gates[i].check \notin Words \ {""}
  <2>1. \A i \in 1..Len(s.gates) : GateOf(s.gates[i], p, Len(lines), lines)
    <3>1. Len(lines) \in 0..Len(lines)
      BY DEF IsLedger
    <3> QED BY <1>1, <3>1, StatesOf
  <2>2. \A i \in 1..Len(s.gates) : s.gates[i].check \notin Words \ {""}
    BY <2>1, Zenon DEF GateOf
  <2> QED BY <1>1, <2>2
<1>6. ASSUME ~doc.errors
      PROVE  IdsApart(doc.gates) /\ \A i \in 1..Len(doc.gates) : ~HalfRunnable(doc.gates[i])
  <2>1. ~Wrong(s)
    BY <1>1, <1>6
  <2>2. ~s.errors /\ \A i \in 1..Len(s.gates) : ~HalfRunnable(s.gates[i])
    BY <2>1, Zenon DEF Wrong
  <2>3. LinesApart(s) /\ doc.gates = s.gates
    BY <1>1
  <2> HIDE DEF s
  <2>4. \A i, j \in 1..Len(s.gates) : i # j => s.gates[i].id # s.gates[j].id
    BY <2>2, <2>3, Zenon DEF LinesApart
  <2> QED BY <2>2, <2>3, <2>4 DEF IdsApart
<1> QED BY <1>1, <1>2, <1>3, <1>4, <1>5, <1>6

\* A text saved by the editor claims no command.
LEMMA DraftBacked ==
  ASSUME NEW lines, IsText(lines), Unproved(lines), NEW approved, NEW passing
  PROVE  IsLedger(lines) /\ Backed(lines, approved, passing)
<1>1. IsLedger(lines)
  BY TextIsLedger
<1> DEFINE doc == parseGates(lines)
<1>2. PICK p : /\ Parsing(p, lines) /\ doc.gates = p[Len(lines)].gates
  BY <1>1, LedgerParsed
<1>3. \A i \in 1..Len(doc.gates) : GateOf(doc.gates[i], p, Len(lines), lines)
  <2>1. Len(lines) \in 0..Len(lines)
    BY <1>1 DEF IsLedger
  <2>2. \A i \in 1..Len(p[Len(lines)].gates) : GateOf(p[Len(lines)].gates[i], p, Len(lines), lines)
    BY <1>1, <1>2, <2>1, StatesOf
  <2> HIDE DEF doc
  <2> QED BY <1>2, <2>2
<1>4. Gates(doc) = {doc.gates[i] : i \in 1..Len(doc.gates)}
  BY <1>1, DocKnown
<1>5. ASSUME NEW g \in Gates(doc) PROVE g.evidence \in {Unset} \cup Words
  <2>1. GateOf(g, p, Len(lines), lines)
    <3> HIDE DEF doc
    <3> QED BY <1>3, <1>4
  <2>2. g.evidenceLine \in 0..Len(lines) /\ (g.evidenceLine = 0 <=> g.evidence = Unset)
        /\ (g.evidenceLine # 0 => /\ lines[g.evidenceLine].kind = "attr"
                                  /\ lines[g.evidenceLine].key = "evidence"
                                  /\ lines[g.evidenceLine].value = g.evidence)
    BY <2>1, Zenon DEF GateOf
  <2>3. CASE g.evidenceLine # 0
    <3>1. g.evidenceLine \in DOMAIN lines
      BY <1>1, <2>2, <2>3 DEF IsLedger
    <3>2. lines[g.evidenceLine].value \in Words
      BY <2>2, <2>3, <3>1, Zenon DEF Unproved
    <3> QED BY <2>2, <2>3, <3>2
  <2> QED BY <2>2, <2>3
<1> HIDE DEF doc
<1>6. \A g \in Gates(doc) : g.evidence \in {Unset, "", "pending", "by hand"}
  BY <1>5 DEF Words
<1> QED BY <1>1, <1>6 DEF Backed, doc

(* What a result written back changes: only the states and the evidence of one gate. *)

NoNamesake(gates, n, k, id) == \A i \in 1..n : i # k => gates[i].id # id

LEMMA GateChosen ==
  ASSUME NEW lines, IsLedger(lines), Fine(lines), NEW doc, doc = parseGates(lines),
         NEW id, NEW s, <<id, s>> \in Known(lines),
         NEW g \in GateNamed(doc, id)
  PROVE  \E k \in 1..Len(doc.gates) :
           /\ g = doc.gates[k] /\ g.id = id /\ signature(g) = s
           /\ NoNamesake(doc.gates, Len(doc.gates), k, id)
<1>1. /\ Gates(doc) = {doc.gates[i] : i \in 1..Len(doc.gates)}
      /\ IdsApart(doc.gates)
  <2>1. ~doc.errors
    BY DEF Fine
  <2>2. Gates(doc) = {doc.gates[i] : i \in 1..Len(doc.gates)}
    <3>1. DOMAIN doc.gates = 1..Len(doc.gates)
      BY DocKnown
    <3> QED BY <3>1 DEF Gates
  <2>3. IdsApart(doc.gates)
    BY <2>1, DocKnown
  <2> QED BY <2>2, <2>3
<1>2. PICK h \in Gates(doc) : h.id = id /\ signature(h) = s
  BY DEF Known
<1>4. g \in Gates(doc) /\ g.id = id
  BY DEF GateNamed
<1>5. PICK k \in 1..Len(doc.gates) : g = doc.gates[k]
  BY <1>1, <1>4
<1>6. PICK i \in 1..Len(doc.gates) : h = doc.gates[i]
  BY <1>1, <1>2
<1>7. i = k
  BY <1>1, <1>2, <1>4, <1>5, <1>6 DEF IdsApart
<1>8. NoNamesake(doc.gates, Len(doc.gates), k, id)
  BY <1>1, <1>4, <1>5 DEF IdsApart, NoNamesake
<1> QED BY <1>2, <1>4, <1>5, <1>6, <1>7, <1>8

\* The gates of one text are those of another.
SameTask(g, h) == h.id = g.id /\ signature(h) = signature(g) /\ h.check = g.check
Matching(old, new, k, ok, said) ==
  /\ new.abandoned = old.abandoned /\ Len(new.gates) = Len(old.gates)
  /\ \A i \in 1..Len(old.gates) : SameTask(old.gates[i], new.gates[i])
  /\ \A i \in 1..Len(old.gates) : i # k =>
       new.gates[i].evidence = old.gates[i].evidence /\ (new.gates[i].checked <=> old.gates[i].checked)
  /\ new.gates[k].evidence = said /\ (new.gates[k].checked <=> ok)

LEMMA RewrittenMatches ==
  ASSUME NEW old, NEW new, NEW k \in 1..Len(old.gates), NEW ok, NEW said, Rewritten(old, new, k, ok, said)
  PROVE  Matching(old, new, k, ok, said)
<1>1. /\ new.abandoned = old.abandoned /\ Len(new.gates) = Len(old.gates)
      /\ \A i \in 1..Len(old.gates) :
           /\ new.gates[i].id = old.gates[i].id /\ new.gates[i].check = old.gates[i].check
           /\ new.gates[i].expect = old.gates[i].expect /\ new.gates[i].cwd = old.gates[i].cwd
           /\ new.gates[i].checked <=> (IF i = k THEN ok ELSE old.gates[i].checked)
           /\ new.gates[i].evidence = IF i = k THEN said ELSE old.gates[i].evidence
  BY Zenon DEF Rewritten
<1> QED BY <1>1 DEF Matching, SameTask, signature

StateAt(doc, i) == gateState(doc.gates[i], doc.abandoned)

LEMMA StateFound ==
  ASSUME NEW doc, NEW n, DOMAIN doc.gates = 1..n, NEW id, NEW v
  PROVE  v \in StateOf(doc, id) <=> \E i \in 1..n : doc.gates[i].id = id /\ v = StateAt(doc, i)
<1>1. v \in StateOf(doc, id) <=> \E g \in Gates(doc) : g.id = id /\ v = gateState(g, doc.abandoned)
  BY Zenon DEF StateOf, GateNamed
<1>2. \A g : g \in Gates(doc) <=> \E i \in 1..n : g = doc.gates[i]
  BY Zenon DEF Gates
<1> QED BY <1>1, <1>2, Zenon DEF StateAt

NamesakesAlike(old, new, n, id) ==
  /\ DOMAIN old.gates = 1..n /\ DOMAIN new.gates = 1..n
  /\ \A i \in 1..n : new.gates[i].id = old.gates[i].id
                  /\ (old.gates[i].id = id => StateAt(new, i) = StateAt(old, i))

LEMMA StatesSame ==
  ASSUME NEW old, NEW new, NEW n, NEW id, NamesakesAlike(old, new, n, id)
  PROVE  StateOf(new, id) = StateOf(old, id)
<1>0. DOMAIN old.gates = 1..n /\ DOMAIN new.gates = 1..n
  BY DEF NamesakesAlike
<1>1. ASSUME NEW v, v \in StateOf(new, id) PROVE v \in StateOf(old, id)
  <2>1. PICK i \in 1..n : new.gates[i].id = id /\ v = StateAt(new, i)
    BY <1>0, <1>1, StateFound
  <2>2. old.gates[i].id = id /\ v = StateAt(old, i)
    BY <2>1 DEF NamesakesAlike
  <2> QED BY <1>0, <2>2, StateFound
<1>2. ASSUME NEW v, v \in StateOf(old, id) PROVE v \in StateOf(new, id)
  <2>1. PICK i \in 1..n : old.gates[i].id = id /\ v = StateAt(old, i)
    BY <1>0, <1>2, StateFound
  <2>2. new.gates[i].id = id /\ v = StateAt(new, i)
    BY <2>1 DEF NamesakesAlike
  <2> QED BY <1>0, <2>2, StateFound
<1> QED BY <1>1, <1>2

LEMMA StateOfOne ==
  ASSUME NEW doc, NEW n, DOMAIN doc.gates = 1..n, NEW k \in 1..n, NEW id,
         NoNamesake(doc.gates, n, k, id)
  PROVE  StateOf(doc, id) \subseteq {StateAt(doc, k)}
<1>1. ASSUME NEW v, v \in StateOf(doc, id) PROVE v = StateAt(doc, k)
  <2>1. PICK i \in 1..n : doc.gates[i].id = id /\ v = StateAt(doc, i)
    BY <1>1, StateFound
  <2> QED BY <2>1 DEF NoNamesake
<1> QED BY <1>1

StatesWritten(old, new, id, ok) ==
  /\ \A x : x # id => StateOf(new, x) = StateOf(old, x)
  /\ StateOf(new, id) \subseteq {"abandoned", IF ok THEN "met" ELSE "unmet"}

Evidences(said) == said \notin {Unset, "", "pending"}

LEMMA StatesAfter ==
  ASSUME NEW old, NEW new, NEW k \in 1..Len(old.gates), NEW ok \in BOOLEAN, NEW said,
         DOMAIN old.gates = 1..Len(old.gates), DOMAIN new.gates = 1..Len(new.gates),
         Matching(old, new, k, ok, said), ok => Evidences(said),
         NEW id, id = old.gates[k].id,
         NoNamesake(old.gates, Len(old.gates), k, id)
  PROVE  StatesWritten(old, new, id, ok)
<1> DEFINE n == Len(old.gates)
<1>1. \A i \in 1..n : i # k => StateAt(new, i) = StateAt(old, i)
  BY Zenon DEF Matching, SameTask, gateState, StateAt
<1>2. StateAt(new, k) \in {"abandoned", IF ok THEN "met" ELSE "unmet"}
  BY Zenon DEF Matching, SameTask, gateState, StateAt, Evidences
<1>3. DOMAIN old.gates = 1..n /\ DOMAIN new.gates = 1..n /\ \A i \in 1..n : new.gates[i].id = old.gates[i].id
  BY DEF Matching, SameTask
<1> HIDE DEF n
<1>4. ASSUME NEW x, x # id PROVE StateOf(new, x) = StateOf(old, x)
  <2>1. \A i \in 1..n : old.gates[i].id = x => i # k
    BY <1>4 DEF n, NoNamesake
  <2>2. NamesakesAlike(old, new, n, x)
    BY <1>1, <1>3, <2>1 DEF NamesakesAlike
  <2> QED BY <2>2, StatesSame
<1>5. StateOf(new, id) \subseteq {StateAt(new, k)}
  <2>1. k \in 1..n /\ NoNamesake(new.gates, n, k, id)
    BY <1>3 DEF n, NoNamesake
  <2> QED BY <1>3, <2>1, StateOfOne
<1> QED BY <1>2, <1>4, <1>5 DEF StatesWritten

LEMMA SameKnown ==
  ASSUME NEW old, NEW new, NEW k, NEW ok, NEW said, NEW n,
         Len(old.gates) = n, Len(new.gates) = n,
         DOMAIN old.gates = 1..n, DOMAIN new.gates = 1..n,
         Matching(old, new, k, ok, said)
  PROVE  {<<g.id, signature(g)>> : g \in Gates(new)} = {<<g.id, signature(g)>> : g \in Gates(old)}
<1>1. \A i \in 1..n : new.gates[i].id = old.gates[i].id /\ signature(new.gates[i]) = signature(old.gates[i])
  BY DEF Matching, SameTask
<1>2. Gates(new) = {new.gates[i] : i \in 1..n} /\ Gates(old) = {old.gates[i] : i \in 1..n}
  BY DEF Gates
<1>3. {<<g.id, signature(g)>> : g \in Gates(new)} = {<<new.gates[i].id, signature(new.gates[i])>> : i \in 1..n}
  BY <1>2
<1>4. {<<g.id, signature(g)>> : g \in Gates(old)} = {<<old.gates[i].id, signature(old.gates[i])>> : i \in 1..n}
  BY <1>2
<1> QED BY <1>1, <1>3, <1>4

BackedGate(g, approved, passing) ==
  g.evidence \notin {Unset, "", "pending", "by hand"} =>
    g.evidence = g.check /\ <<g.id, signature(g)>> \in approved \cap passing

AllBacked(doc, approved, passing) == \A g \in Gates(doc) : BackedGate(g, approved, passing)

EarnedHere(g, ok, said, approved, passing) ==
  IF ok THEN said = g.check /\ <<g.id, signature(g)>> \in approved \cap passing ELSE said = "pending"

LEMMA StaysBacked ==
  ASSUME NEW old, NEW new, NEW k \in 1..Len(old.gates), NEW ok \in BOOLEAN, NEW said,
         DOMAIN old.gates = 1..Len(old.gates), DOMAIN new.gates = 1..Len(new.gates),
         Matching(old, new, k, ok, said),
         NEW approved, NEW passing, AllBacked(old, approved, passing),
         EarnedHere(old.gates[k], ok, said, approved, passing)
  PROVE  AllBacked(new, approved, passing)
<1> SUFFICES ASSUME NEW g \in Gates(new) PROVE BackedGate(g, approved, passing)
  BY DEF AllBacked
<1>1. PICK i \in 1..Len(old.gates) : g = new.gates[i]
  BY DEF Gates, Matching
<1>2. SameTask(old.gates[i], g) /\ old.gates[i] \in Gates(old)
  BY <1>1 DEF Matching, Gates
<1>3. CASE i # k
  <2>1. g.evidence = old.gates[i].evidence /\ BackedGate(old.gates[i], approved, passing)
    BY <1>1, <1>2, <1>3 DEF Matching, AllBacked
  <2> QED BY <1>2, <2>1 DEF BackedGate, SameTask
<1>4. CASE i = k
  <2>1. g.evidence = said
    BY <1>1, <1>4 DEF Matching
  <2> QED BY <1>2, <1>4, <2>1 DEF BackedGate, SameTask, EarnedHere
<1> QED BY <1>3, <1>4

Outcome(old, new, id, s, ok) ==
  /\ IsLedger(new) /\ Fine(new) /\ AbandonedIn(new) = AbandonedIn(old) /\ Known(new) = Known(old)
  /\ StatesWritten(parseGates(old), parseGates(new), id, ok)
  /\ \A approved, passing :
       Backed(old, approved, passing) /\ (ok => <<id, s>> \in approved \cap passing) =>
         Backed(new, approved, passing)

Chosen(lines, id) == CHOOSE gate \in GateNamed(parseGates(lines), id) : TRUE

LEMMA WritesBack ==
  ASSUME NEW lines, IsLedger(lines), Fine(lines), NEW id, NEW s, s[1] # Unset, <<id, s>> \in Known(lines),
         NEW g, g = Chosen(lines, id),
         NEW ok \in BOOLEAN, NEW new, new = WriteResult(lines, g, ok)
  PROVE  Outcome(lines, new, id, s, ok)
<1> DEFINE doc == parseGates(lines)
           text == parseGates(new)
           said == IF ok THEN g.check ELSE "pending"
<1>1. PICK k \in 1..Len(doc.gates) :
        /\ g = doc.gates[k] /\ g.id = id /\ signature(g) = s
        /\ NoNamesake(doc.gates, Len(doc.gates), k, id)
  <2>1. PICK h \in Gates(doc) : h.id = id
    BY DEF Known
  <2>2. g \in GateNamed(doc, id)
    <3>1. h \in GateNamed(doc, id)
      BY <2>1 DEF GateNamed
    <3> QED BY <3>1, Zenon DEF Chosen
  <2> QED BY <2>2, GateChosen
<1>2. g.check # Unset
  BY <1>1 DEF signature
<1>3. IsLedger(new) /\ ~text.errors /\ Rewritten(doc, text, k, ok, said)
  <2>1. ~doc.errors
    BY DEF Fine
  <2> DEFINE t == text
             d == doc
             w == said
  <2>2. d = parseGates(lines) /\ t = parseGates(new) /\ k \in 1..Len(d.gates) /\ g = d.gates[k]
        /\ ~d.errors /\ w = IF ok THEN g.check ELSE "pending"
    BY <1>1, <2>1
  <2> HIDE DEF t, d, w
  <2>3. IsLedger(new) /\ ~t.errors /\ Rewritten(d, t, k, ok, w)
    BY <1>2, <2>2, WriteKeeps
  <2> QED BY <2>3 DEF t, d, w
<1>4. /\ DOMAIN doc.gates = 1..Len(doc.gates) /\ g.check \notin Words \ {""} /\ ~HalfRunnable(g)
  <2>1. ~doc.errors
    BY DEF Fine
  <2>2. \A i \in 1..Len(doc.gates) : doc.gates[i].check \notin Words \ {""}
    BY DocKnown
  <2>3. \A i \in 1..Len(doc.gates) : ~HalfRunnable(doc.gates[i])
    BY <2>1, DocKnown
  <2>4. DOMAIN doc.gates = 1..Len(doc.gates)
    BY DocKnown
  <2> HIDE DEF doc
  <2> QED BY <1>1, <2>2, <2>3, <2>4
<1>5. DOMAIN text.gates = 1..Len(text.gates)
  BY <1>3, DocKnown
<1>6. ok => Evidences(said)
  BY <1>2, <1>4, Zenon DEF HalfRunnable, Words, Evidences
<1> HIDE DEF doc, text, said
<1>7. Matching(doc, text, k, ok, said)
  BY <1>3, RewrittenMatches
<1>8. StatesWritten(doc, text, id, ok)
  <2>1. NoNamesake(doc.gates, Len(doc.gates), k, id) /\ id = doc.gates[k].id
    BY <1>1
  <2> QED BY <1>4, <1>5, <1>6, <1>7, <2>1, StatesAfter
<1>9. text.abandoned = doc.abandoned /\ Len(text.gates) = Len(doc.gates)
  BY <1>7 DEF Matching
<1>10. {<<h.id, signature(h)>> : h \in Gates(text)} = {<<h.id, signature(h)>> : h \in Gates(doc)}
  BY <1>4, <1>5, <1>7, <1>9, SameKnown
<1>11. ASSUME NEW approved, NEW passing, Backed(lines, approved, passing), ok => <<id, s>> \in approved \cap passing
       PROVE  Backed(new, approved, passing)
  <2>1. AllBacked(doc, approved, passing)
    BY <1>11, Zenon DEF Backed, BackedGate, AllBacked, doc
  <2>2. EarnedHere(doc.gates[k], ok, said, approved, passing)
    BY <1>1, <1>11 DEF said, EarnedHere
  <2>4. AllBacked(text, approved, passing)
    BY <1>4, <1>5, <1>7, <2>1, <2>2, StaysBacked
  <2> QED BY <2>4, Zenon DEF Backed, BackedGate, AllBacked, text
<1>12. /\ Fine(new) /\ AbandonedIn(new) = AbandonedIn(lines) /\ Known(new) = Known(lines)
       /\ StatesWritten(parseGates(lines), parseGates(new), id, ok)
  BY <1>3, <1>8, <1>9, <1>10 DEF Fine, AbandonedIn, Known, doc, text
<1> QED BY <1>3, <1>11, <1>12 DEF Outcome

(* The commands to run. *)

Task == [gate : Str, signature : Signature, result : {"none", "ok", "failed"}, wasMet : BOOLEAN]
Items(s) == {s[i] : i \in DOMAIN s}

LEMMA ItemAppended ==
  ASSUME NEW S, NEW s \in Seq(S), NEW x \in S
  PROVE  Append(s, x) \in Seq(S) /\ Items(Append(s, x)) = Items(s) \cup {x}
<1> DEFINE t == Append(s, x)
           n == Len(s)
<1>1. n \in Nat /\ DOMAIN s = 1..n /\ t \in Seq(S) /\ Len(t) = n + 1 /\ DOMAIN t = 1..(n + 1)
  OBVIOUS
<1>2. t[n + 1] = x /\ \A i \in 1..n : t[i] = s[i]
  OBVIOUS
<1> HIDE DEF t, n
<1>3. ASSUME NEW v, v \in Items(t) PROVE v \in Items(s) \cup {x}
  <2>1. PICK i \in 1..(n + 1) : v = t[i]
    BY <1>1, <1>3 DEF Items
  <2>2. i \in 1..n \/ i = n + 1
    BY <1>1
  <2> QED BY <1>1, <1>2, <2>1, <2>2 DEF Items
<1>4. ASSUME NEW v, v \in Items(s) \cup {x} PROVE v \in Items(t)
  <2>1. n + 1 \in 1..(n + 1) /\ \A i \in 1..n : i \in 1..(n + 1)
    BY <1>1
  <2> QED BY <1>1, <1>2, <1>4, <2>1 DEF Items
<1>5. Items(t) = Items(s) \cup {x}
  BY <1>3, <1>4
<1> QED BY <1>1, <1>5 DEF t

PendingUpTo(f, n, doc, mode) ==
  f = [m \in 0..n |->
         IF m = 0 THEN <<>>
         ELSE IF Runs(doc, mode, doc.gates[m]) THEN Append(f[m - 1], TaskOf(doc, doc.gates[m]))
         ELSE f[m - 1]]
NextPending(f, m, doc, mode) ==
  IF Runs(doc, mode, doc.gates[m]) THEN Append(f[m - 1], TaskOf(doc, doc.gates[m])) ELSE f[m - 1]

LEMMA PendingExtends ==
  ASSUME NEW n \in Nat, n > 0, NEW doc, NEW mode, NEW f, PendingUpTo(f, n - 1, doc, mode)
  PROVE  \E q : PendingUpTo(q, n, doc, mode)
<1> DEFINE q == [m \in 0..n |-> IF m = n THEN NextPending(f, n, doc, mode) ELSE f[m]]
<1>1. \A m \in 0..(n - 1) : f[m] = IF m = 0 THEN <<>> ELSE NextPending(f, m, doc, mode)
  <2>1. f = [m \in 0..(n - 1) |-> IF m = 0 THEN <<>> ELSE NextPending(f, m, doc, mode)]
    BY Zenon DEF PendingUpTo, NextPending
  <2> QED BY <2>1, Zenon
<1>2. ASSUME NEW m \in 0..n
      PROVE  q[m] = IF m = 0 THEN <<>> ELSE NextPending(q, m, doc, mode)
  <2>1. CASE m = n
    <3>1. m # 0 /\ m - 1 \in 0..n /\ m - 1 # n
      BY <2>1
    <3>2. q[m - 1] = f[m - 1] /\ q[m] = NextPending(f, n, doc, mode)
      BY <2>1, <3>1
    <3> HIDE DEF q
    <3> QED BY <2>1, <3>1, <3>2 DEF NextPending
  <2>2. CASE m # n /\ m # 0
    <3>1. m \in 0..(n - 1) /\ m - 1 \in 0..n /\ m - 1 # n
      BY <2>2
    <3>2. q[m] = f[m] /\ q[m - 1] = f[m - 1]
      BY <2>2, <3>1
    <3> HIDE DEF q
    <3> QED BY <1>1, <2>2, <3>1, <3>2 DEF NextPending
  <2>3. CASE m = 0
    <3>1. q[0] = f[0] /\ 0 \in 0..(n - 1)
      BY <2>3
    <3> HIDE DEF q
    <3> QED BY <1>1, <2>3, <3>1
  <2> QED BY <2>1, <2>2, <2>3
<1>3. q = [m \in 0..n |-> q[m]]
  OBVIOUS
<1> HIDE DEF q
<1>4. q = [m \in 0..n |-> IF m = 0 THEN <<>> ELSE NextPending(q, m, doc, mode)]
  BY <1>2, <1>3, Zenon
<1> QED BY <1>4, Zenon DEF PendingUpTo, NextPending

LEMMA PendingExists ==
  ASSUME NEW doc, Len(doc.gates) \in Nat, NEW mode
  PROVE  \E f : PendingUpTo(f, Len(doc.gates), doc, mode) /\ Pending(doc, mode) = f[Len(doc.gates)]
<1> DEFINE Bad == {n \in Nat : ~\E f : PendingUpTo(f, n, doc, mode)}
           N == Len(doc.gates)
<1>1. Bad = {}
  <2>1. SUFFICES ASSUME Bad # {} PROVE FALSE
    OBVIOUS
  <2>2. PICK n \in Bad : \A m \in Bad : n <= m
    BY <2>1, LeastNatural
  <2>3. CASE n = 0
    <3> DEFINE f == [m \in 0..0 |-> <<>>]
    <3>1. f = [m \in 0..0 |-> IF m = 0 THEN <<>> ELSE NextPending(f, m, doc, mode)]
      OBVIOUS
    <3> HIDE DEF f
    <3>2. PendingUpTo(f, 0, doc, mode)
      BY <3>1, Zenon DEF PendingUpTo, NextPending
    <3> QED BY <2>3, <3>2
  <2>4. CASE n # 0
    <3>1. n \in Nat /\ n > 0 /\ n - 1 \in Nat /\ ~(n <= n - 1)
      BY <2>4
    <3>2. n - 1 \notin Bad
      BY <2>2, <3>1
    <3>3. PICK f : PendingUpTo(f, n - 1, doc, mode)
      BY <3>1, <3>2
    <3>4. \E q : PendingUpTo(q, n, doc, mode)
      BY <3>1, <3>3, PendingExtends
    <3> QED BY <3>4
  <2> QED BY <2>3, <2>4
<1> DEFINE it == CHOOSE f : PendingUpTo(f, N, doc, mode)
<1>2. PendingUpTo(it, N, doc, mode)
  <2>1. \E f : PendingUpTo(f, N, doc, mode)
    BY <1>1
  <2> QED BY <2>1, Zenon
<1>3. Pending(doc, mode) = it[N]
  BY Zenon DEF Pending, PendingUpTo
<1> HIDE DEF it
<1> QED BY <1>2, <1>3

TasksUpTo(n, doc, mode) ==
  {TaskOf(doc, doc.gates[i]) : i \in {j \in 1..n : Runs(doc, mode, doc.gates[j])}}

LEMMA TaskTyped ==
  ASSUME NEW doc, NEW g \in GateRecord
  PROVE  /\ TaskOf(doc, g) \in Task /\ TaskOf(doc, g).gate = g.id
         /\ TaskOf(doc, g).signature = signature(g) /\ TaskOf(doc, g).result = "none"
         /\ TaskOf(doc, g).wasMet <=> gateState(g, doc.abandoned) = "met"
<1>1. signature(g) \in Signature /\ g.id \in Str
  BY DEF signature, Signature, GateRecord
<1>2. (gateState(g, doc.abandoned) = "met") \in BOOLEAN
  OBVIOUS
<1> QED BY <1>1, <1>2 DEF TaskOf, Task

LEMMA PendingItems ==
  ASSUME NEW doc, doc.gates \in Seq(GateRecord), NEW mode
  PROVE  /\ Pending(doc, mode) \in Seq(Task)
         /\ Items(Pending(doc, mode)) = TasksUpTo(Len(doc.gates), doc, mode)
<1> DEFINE N == Len(doc.gates)
<1>1. N \in Nat /\ \A i \in 1..N : doc.gates[i] \in GateRecord
  OBVIOUS
<1>2. PICK f : PendingUpTo(f, N, doc, mode) /\ Pending(doc, mode) = f[N]
  BY <1>1, PendingExists
<1> HIDE DEF N
<1>3. \A m \in 0..N : f[m] = IF m = 0 THEN <<>> ELSE NextPending(f, m, doc, mode)
  <2>1. f = [m \in 0..N |-> IF m = 0 THEN <<>> ELSE NextPending(f, m, doc, mode)]
    BY <1>2, Zenon DEF PendingUpTo, NextPending
  <2> QED BY <2>1, Zenon
<1> DEFINE Right(m) == f[m] \in Seq(Task) /\ Items(f[m]) = TasksUpTo(m, doc, mode)
           Bad == {m \in 0..N : ~Right(m)}
<1>4. Bad = {}
  <2>1. SUFFICES ASSUME Bad # {} PROVE FALSE
    OBVIOUS
  <2>2. PICK m \in Bad : \A k \in Bad : m <= k
    <3>1. Bad \subseteq Nat
      BY <1>1
    <3> HIDE DEF Bad
    <3> QED BY <2>1, <3>1, LeastNatural
  <2>3. CASE m = 0
    <3>1. f[0] = <<>>
      BY <1>1, <1>3
    <3>2. Items(f[0]) = {} /\ TasksUpTo(0, doc, mode) = {}
      BY <3>1 DEF Items, TasksUpTo
    <3>5. f[0] \in Seq(Task)
      BY <3>1
    <3>6. Items(f[0]) = TasksUpTo(0, doc, mode)
      BY <3>2
    <3>3. Right(0)
      BY <3>5, <3>6
    <3>4. m \in Bad /\ ~Right(m)
      BY <2>2
    <3> HIDE DEF Right
    <3> QED BY <2>3, <3>3, <3>4
  <2>4. CASE m # 0
    <3>1. m \in 1..N /\ m - 1 \in 0..N /\ ~(m <= m - 1) /\ m \in Nat
      BY <1>1, <2>4
    <3>2. Right(m - 1)
      <4>1. m - 1 \notin Bad
        BY <2>2, <3>1
      <4> QED BY <3>1, <4>1
    <3>3. f[m] = NextPending(f, m, doc, mode)
      BY <1>3, <2>4
    <3> DEFINE x == TaskOf(doc, doc.gates[m])
    <3>4. x \in Task
      BY <1>1, <3>1, TaskTyped
    <3> HIDE DEF x
    <3>5. \A i : i \in 1..m <=> i \in 1..(m - 1) \/ i = m
      BY <3>1
    <3>6. TasksUpTo(m, doc, mode) = TasksUpTo(m - 1, doc, mode) \cup
                                     (IF Runs(doc, mode, doc.gates[m]) THEN {x} ELSE {})
      BY <3>5 DEF TasksUpTo, x
    <3>7. CASE Runs(doc, mode, doc.gates[m])
      <4>1. f[m] = Append(f[m - 1], x)
        BY <3>3, <3>7 DEF NextPending, x
      <4>2. f[m] \in Seq(Task) /\ Items(f[m]) = Items(f[m - 1]) \cup {x}
        BY <3>2, <3>4, <4>1, ItemAppended
      <4> QED BY <2>2, <3>2, <3>6, <3>7, <4>2
    <3>8. CASE ~Runs(doc, mode, doc.gates[m])
      <4>1. f[m] = f[m - 1]
        BY <3>3, <3>8 DEF NextPending
      <4> QED BY <2>2, <3>2, <3>6, <3>8, <4>1
    <3> QED BY <3>7, <3>8
  <2> QED BY <2>3, <2>4
<1>5. Right(N)
  BY <1>1, <1>4
<1> QED BY <1>2, <1>5 DEF N

(* The invariant of the ledger. *)

CheckerRecord ==
  [at : {"idle", "working", "fresh", "done", "dead"}, mode : {"run", "reverify", "status"},
   approve : BOOLEAN, todo : Seq(Task), tasks : Seq(Task), notRun : SUBSET Task,
   infra : BOOLEAN, next : Nat \ {0}, error : BOOLEAN, stale : SUBSET Str,
   view : Seq(TextLine), exit : {0 - 1, 0, 1, 2}]
Checking == {"working", "fresh"}
LedgerTyped ==
  /\ IsLedger(ledger) /\ checker \in [Checker -> CheckerRecord]
  /\ acked \in [GateId -> {"none", "met", "unmet"}]
  /\ passedSince \in [Checker -> SUBSET Str] /\ edited \in [Checker -> BOOLEAN]

TasksOf(r) == Items(r.todo) \cup Items(r.tasks) \cup r.notRun
TasksKnown(r) ==
  /\ \A t \in TasksOf(r) : t.signature[1] # Unset
  /\ \A t \in Items(r.todo) : t.result = "none"
  /\ r.next = 1 \/ (r.todo = <<>> /\ Unfinished(r) = {})
  /\ r.exit = 0 => r.at = "done"
\* What ran was approved, and what is taken for passed has passed.
TasksEarned(r, approved, passing) ==
  \A t \in Items(r.tasks) :
    /\ <<t.gate, t.signature>> \in approved
    /\ t.result = "ok" => <<t.gate, t.signature>> \in passing

\* While a checker verifies again and no editor comes between: every command of the ledger
\* has its task, and a gate is met only where the task found it met and has yet to be
\* written, or where it was written as passed since.
HasTasks(r, lines) ==
  \A e \in Known(lines) : e[2][1] # Unset /\ e[1] \notin AbandonedIn(lines) =>
    \E t \in TasksOf(r) : t.gate = e[1]
NewlyMet(r, lines, since) ==
  \A t \in TasksOf(r) : t.wasMet \/ t.gate \in since \/ ~IsMet(lines, t.gate)
Settled(r, lines, since) ==
  \A i \in DOMAIN r.tasks : i < r.next /\ Written(r, r.tasks[i]) =>
    r.error \/ r.tasks[i].gate \in r.stale \cup since \/ ~IsMet(lines, r.tasks[i].gate)
Following(r, lines, since) ==
  r.mode = "reverify" => HasTasks(r, lines) /\ NewlyMet(r, lines, since) /\ Settled(r, lines, since)

\* What a checker read under the lock is the ledger still, unless the editor saved.
SameAsRead(view) == view = ledger \/ \A id \in GateId : acked[id] = "none"
Reads(r) ==
  /\ r.todo = <<>> /\ Unfinished(r) = {} /\ ToWrite(r) # {}
  /\ IsLedger(r.view) /\ Fine(r.view)
  /\ <<AtHand(r).gate, AtHand(r).signature>> \in Known(r.view)
Verified(r, since, touched) ==
  r.exit = 0 /\ r.mode = "reverify" /\ ~touched =>
    {g.id : g \in {h \in Gates(parseGates(r.view)) : h.check # Unset}} \subseteq since

Good(r, lines, since, touched, approved, passing) ==
  /\ TasksKnown(r) /\ TasksEarned(r, approved, passing)
  /\ r.at \in Checking /\ ~touched => Following(r, lines, since)
  /\ Verified(r, since, touched)
FreshGood(c) ==
  checker[c].at = "fresh" =>
    /\ ledgerLock = c /\ Reads(checker[c])
    /\ Backed(checker[c].view, approvals, passed) /\ SameAsRead(checker[c].view)
LedgerInv ==
  /\ LedgerTyped /\ Backed(ledger, approvals, passed) /\ ResultsKept
  /\ \A c \in Checker : FreshGood(c)
  /\ \A c \in Checker : Good(checker[c], ledger, passedSince[c], edited[c], approvals, passed)

LEMMA FirstOf ==
  ASSUME NEW S, S \subseteq Nat, S # {}
  PROVE  First(S) \in S /\ \A j \in S : First(S) <= j
<1>1. \E i \in S : \A j \in S : i <= j
  BY LeastNatural
<1> QED BY <1>1, Zenon DEF First

LEMMA HandFound ==
  ASSUME NEW r \in CheckerRecord, ToWrite(r) # {}, NEW i, i = First(ToWrite(r))
  PROVE  /\ i \in DOMAIN r.tasks /\ i \in Nat /\ i >= r.next /\ Written(r, r.tasks[i])
         /\ AtHand(r) = r.tasks[i] /\ AtHand(r) \in Task /\ AtHand(r) \in Items(r.tasks)
         /\ \A j \in DOMAIN r.tasks : j >= r.next /\ Written(r, r.tasks[j]) => i <= j
<1>1. r.tasks \in Seq(Task) /\ r.next \in Nat
  BY DEF CheckerRecord
<1>2. Len(r.tasks) \in Nat /\ DOMAIN r.tasks = 1..Len(r.tasks) /\ \A j \in DOMAIN r.tasks : r.tasks[j] \in Task
  BY <1>1
<1>3. ToWrite(r) \subseteq Nat
  BY <1>1, <1>2 DEF ToWrite
<1>4. i \in ToWrite(r) /\ \A j \in ToWrite(r) : i <= j
  BY <1>3, FirstOf
<1>5. i \in r.next..Len(r.tasks) /\ Written(r, r.tasks[i])
  BY <1>4, Zenon DEF ToWrite
<1>6. i \in DOMAIN r.tasks /\ i \in Nat /\ i >= r.next
  <2>1. r.next >= 1
    BY DEF CheckerRecord
  <2> QED BY <1>1, <1>2, <1>5, <2>1
<1>7. AtHand(r) = r.tasks[i]
  BY DEF AtHand
<1>8. ASSUME NEW j \in DOMAIN r.tasks, j >= r.next, Written(r, r.tasks[j]) PROVE i <= j
  <2>1. j \in r.next..Len(r.tasks)
    BY <1>1, <1>2, <1>8
  <2>2. j \in ToWrite(r)
    BY <1>8, <2>1, Zenon DEF ToWrite
  <2> QED BY <1>4, <2>2
<1> QED BY <1>2, <1>5, <1>6, <1>7, <1>8 DEF Items

\* The next result, after one was written or given up.
Advances(r, s) ==
  /\ s \in CheckerRecord /\ s.at = "working" /\ s.next = First(ToWrite(r)) + 1
  /\ s.mode = r.mode /\ s.todo = r.todo /\ s.tasks = r.tasks /\ s.notRun = r.notRun
  /\ s.view = r.view /\ s.exit = r.exit /\ r.stale \subseteq s.stale /\ (r.error => s.error)

LEMMA AfterAdvances ==
  ASSUME NEW r \in CheckerRecord, ToWrite(r) # {}, NEW id \in Str
  PROVE  /\ Advances(r, After(r))
         /\ Advances(r, [After(r) EXCEPT !.error = TRUE])
         /\ [After(r) EXCEPT !.error = TRUE].error
         /\ Advances(r, [After(r) EXCEPT !.stale = @ \cup {id}])
         /\ id \in [After(r) EXCEPT !.stale = @ \cup {id}].stale
<1> DEFINE i == First(ToWrite(r)) + 1
<1>1. i \in Nat \ {0}
  BY HandFound
<1> HIDE DEF i
<1>2. After(r) = [r EXCEPT !.at = "working", !.next = i]
  BY Zenon DEF After, i
<1>3. Advances(r, After(r))
  BY <1>1, <1>2 DEF Advances, CheckerRecord, i
<1>4. Advances(r, [After(r) EXCEPT !.error = TRUE]) /\ [After(r) EXCEPT !.error = TRUE].error
  BY <1>1, <1>3 DEF Advances, CheckerRecord
<1>5. /\ Advances(r, [After(r) EXCEPT !.stale = @ \cup {id}])
      /\ id \in [After(r) EXCEPT !.stale = @ \cup {id}].stale
  BY <1>1, <1>3 DEF Advances, CheckerRecord
<1> QED BY <1>3, <1>4, <1>5

LEMMA AdvanceFollows ==
  ASSUME NEW r \in CheckerRecord, ToWrite(r) # {}, NEW s, Advances(r, s), NEW lines, NEW since,
         Following(r, lines, since),
         LET id == AtHand(r).gate IN s.error \/ id \in s.stale \cup since \/ ~IsMet(lines, id)
  PROVE  Following(s, lines, since)
<1> SUFFICES ASSUME s.mode = "reverify" PROVE Following(s, lines, since)
  BY DEF Following
<1>1. HasTasks(r, lines) /\ NewlyMet(r, lines, since) /\ Settled(r, lines, since)
  BY DEF Following, Advances
<1>2. TasksOf(s) = TasksOf(r) /\ s.tasks = r.tasks /\ \A t : Written(s, t) <=> Written(r, t)
  BY DEF Advances, TasksOf, Written
<1>3. HasTasks(s, lines) /\ NewlyMet(s, lines, since)
  BY <1>1, <1>2 DEF HasTasks, NewlyMet
<1>4. ASSUME NEW j \in DOMAIN s.tasks, j < s.next, Written(s, s.tasks[j])
      PROVE  s.error \/ s.tasks[j].gate \in s.stale \cup since \/ ~IsMet(lines, s.tasks[j].gate)
  <2> DEFINE i == First(ToWrite(r))
  <2>0. /\ i \in DOMAIN r.tasks /\ i \in Nat /\ i >= r.next /\ AtHand(r) = r.tasks[i]
        /\ \A n \in DOMAIN r.tasks : n >= r.next /\ Written(r, r.tasks[n]) => i <= n
    BY HandFound
  <2>1. s.next = i + 1 /\ r.next \in Nat /\ r.stale \subseteq s.stale /\ (r.error => s.error)
    BY DEF Advances, CheckerRecord
  <2>2. j \in Nat /\ j \in DOMAIN r.tasks
    <3>1. r.tasks \in Seq(Task)
      BY DEF CheckerRecord
    <3> QED BY <1>2, <3>1
  <2> HIDE DEF i
  <2>3. CASE j < r.next
    BY <1>1, <1>2, <1>4, <2>1, <2>2, <2>3 DEF Settled
  <2>4. CASE j >= r.next
    <3>1. j = i
      BY <1>2, <1>4, <2>0, <2>1, <2>2, <2>4
    <3> QED BY <1>2, <2>0, <3>1
  <2>5. j < r.next \/ j >= r.next
    BY <2>1, <2>2
  <2> QED BY <2>3, <2>4, <2>5
<1> QED BY <1>3, <1>4 DEF Following, Settled

LEMMA AdvanceKnown ==
  ASSUME NEW r \in CheckerRecord, NEW s, Advances(r, s), TasksKnown(r), r.todo = <<>>, Unfinished(r) = {},
         r.at # "done"
  PROVE  /\ TasksKnown(s)
         /\ \A approved, passing : TasksEarned(r, approved, passing) => TasksEarned(s, approved, passing)
<1>1. TasksOf(s) = TasksOf(r) /\ Unfinished(s) = Unfinished(r)
  BY DEF Advances, TasksOf, Unfinished
<1> QED BY <1>1 DEF TasksKnown, TasksEarned, Advances

(* What holds of a checker while others work. *)

Kept(lines, new, since) ==
  /\ Known(new) = Known(lines) /\ AbandonedIn(new) = AbandonedIn(lines)
  /\ \A id : IsMet(new, id) => IsMet(lines, id) \/ id \in since

LEMMA FollowsOn ==
  ASSUME NEW r, NEW lines, NEW since, Following(r, lines, since),
         NEW new, NEW since2, since \subseteq since2, Kept(lines, new, since2)
  PROVE  Following(r, new, since2)
<1> SUFFICES ASSUME r.mode = "reverify" PROVE Following(r, new, since2)
  BY DEF Following
<1>1. HasTasks(r, lines) /\ NewlyMet(r, lines, since) /\ Settled(r, lines, since)
  BY DEF Following
<1>2. HasTasks(r, new)
  BY <1>1 DEF HasTasks, Kept
<1>3. NewlyMet(r, new, since2)
  BY <1>1 DEF NewlyMet, Kept
<1>4. Settled(r, new, since2)
  BY <1>1 DEF Settled, Kept
<1> QED BY <1>2, <1>3, <1>4 DEF Following

LEMMA BackedOn ==
  ASSUME NEW lines, NEW a, NEW p, Backed(lines, a, p), NEW a2, NEW p2, a \subseteq a2, p \subseteq p2
  PROVE  Backed(lines, a2, p2)
BY DEF Backed

LEMMA GoodOn ==
  ASSUME NEW r, NEW lines, NEW since, NEW touched, NEW a, NEW p, Good(r, lines, since, touched, a, p),
         NEW new, NEW since2, NEW touched2, NEW a2, NEW p2, since \subseteq since2, a \subseteq a2, p \subseteq p2,
         touched => touched2, touched2 \/ Kept(lines, new, since2)
  PROVE  Good(r, new, since2, touched2, a2, p2)
<1>1. TasksKnown(r) /\ TasksEarned(r, a2, p2)
  BY DEF Good, TasksEarned
<1>2. Verified(r, since2, touched2)
  BY DEF Good, Verified
<1>3. r.at \in Checking /\ ~touched2 => Following(r, new, since2)
  BY FollowsOn DEF Good
<1> QED BY <1>1, <1>2, <1>3 DEF Good

LEMMA KeptSame == ASSUME NEW lines, NEW since PROVE Kept(lines, lines, since)
BY DEF Kept

\* A record with nothing to do.
LEMMA IdleGood ==
  ASSUME NEW r, r.todo = <<>>, r.tasks = <<>>, r.notRun = {}, r.next = 1, r.at \notin Checking,
         r.exit = 0 => r.at = "done",
         NEW lines, NEW since, NEW touched, NEW a, NEW p, Verified(r, since, touched)
  PROVE  Good(r, lines, since, touched, a, p)
<1>1. TasksOf(r) = {} /\ Items(r.tasks) = {} /\ Items(r.todo) = {}
  BY DEF TasksOf, Items
<1> QED BY <1>1 DEF Good, TasksKnown, TasksEarned

LEMMA NotStartedTyped ==
  /\ NotStarted \in CheckerRecord
  /\ NotStarted.todo = <<>> /\ NotStarted.tasks = <<>> /\ NotStarted.notRun = {} /\ NotStarted.next = 1
  /\ NotStarted.at = "idle" /\ NotStarted.exit # 0 /\ NotStarted.mode = "run"
BY DEF NotStarted, CheckerRecord

LEMMA LedgerInvInit == ASSUME LedgerAssumption, LedgerInit PROVE LedgerInv
<1>1. IsText(ledger) /\ Unproved(ledger)
  BY DEF LedgerAssumption, LedgerInit
<1>2. IsLedger(ledger) /\ Backed(ledger, approvals, passed)
  BY <1>1, DraftBacked
<1>3. NotStarted \in CheckerRecord
  BY NotStartedTyped
<1>4. LedgerTyped
  BY <1>2, <1>3 DEF LedgerTyped, LedgerInit
<1>5. ResultsKept
  BY Zenon DEF ResultsKept, LedgerInit
<1>6. ASSUME NEW c \in Checker
      PROVE  FreshGood(c) /\ Good(checker[c], ledger, passedSince[c], edited[c], approvals, passed)
  <2>1. checker[c] = NotStarted
    BY DEF LedgerInit
  <2> DEFINE r == checker[c]
  <2>2. /\ r.todo = <<>> /\ r.tasks = <<>> /\ r.notRun = {} /\ r.next = 1 /\ r.at = "idle"
        /\ r.exit # 0 /\ r.mode = "run"
    BY <2>1, NotStartedTyped
  <2> HIDE DEF r
  <2>3. Good(r, ledger, passedSince[c], edited[c], approvals, passed)
    BY <2>2, IdleGood DEF Verified, Checking
  <2> QED BY <2>2, <2>3 DEF FreshGood, r
<1> QED BY <1>2, <1>4, <1>5, <1>6 DEF LedgerInv

(* A step of one checker that writes nothing. *)

Sets(f, c, v) == [f EXCEPT ![c] = v]
\* No other checker loses its lock.
LocksStay(c, lock) == \A d \in Checker : d # c /\ checker[d].at = "fresh" => lock = d

LEMMA QuietLedgerStep ==
  ASSUME LedgerInv, NEW c \in Checker, NEW r \in CheckerRecord, checker' = Sets(checker, c, r),
         NEW since \in SUBSET Str, passedSince' = Sets(passedSince, c, since),
         NEW touched \in BOOLEAN, edited' = Sets(edited, c, touched),
         ledger' = ledger, acked' = acked, approvals \subseteq approvals', passed \subseteq passed',
         LocksStay(c, ledgerLock'), Good(r, ledger, since, touched, approvals', passed'),
         r.at = "fresh" => ledgerLock' = c /\ Reads(r) /\ r.view = ledger
  PROVE  LedgerInv'
<1>1. LedgerTyped /\ Backed(ledger, approvals, passed) /\ ResultsKept
  BY DEF LedgerInv
<1>2. /\ checker' \in [Checker -> CheckerRecord] /\ passedSince' \in [Checker -> SUBSET Str]
      /\ edited' \in [Checker -> BOOLEAN]
  BY <1>1 DEF LedgerTyped, Sets
<1>3. \A d \in Checker : 
        /\ d # c => checker'[d] = checker[d] /\ passedSince'[d] = passedSince[d] /\ edited'[d] = edited[d]
        /\ d = c => checker'[d] = r /\ passedSince'[d] = since /\ edited'[d] = touched
  BY <1>1 DEF LedgerTyped, Sets
<1>4. LedgerTyped'
  BY <1>1, <1>2 DEF LedgerTyped
<1>5. Backed(ledger', approvals', passed')
  BY <1>1, BackedOn
<1>6. ResultsKept'
  BY <1>1, Zenon DEF ResultsKept
<1>7. ASSUME NEW d \in Checker
      PROVE  Good(checker'[d], ledger', passedSince'[d], edited'[d], approvals', passed')
  <2>1. CASE d = c
    <3>1. checker'[d] = r /\ passedSince'[d] = since /\ edited'[d] = touched
      BY <1>3, <2>1
    <3> QED BY <3>1
  <2>2. CASE d # c
    <3>1. checker'[d] = checker[d] /\ passedSince'[d] = passedSince[d] /\ edited'[d] = edited[d]
      BY <1>3, <2>2
    <3>2. Good(checker[d], ledger, passedSince[d], edited[d], approvals, passed)
      BY DEF LedgerInv
    <3>3. Kept(ledger, ledger, passedSince[d])
      BY KeptSame
    <3>4. Good(checker[d], ledger, passedSince[d], edited[d], approvals', passed')
      BY <3>2, <3>3, GoodOn
    <3> QED BY <3>1, <3>4
  <2> QED BY <2>1, <2>2
<1>8. ASSUME NEW d \in Checker PROVE FreshGood(d)'
  <2>1. CASE d = c
    <3>1. checker'[d] = r
      BY <1>3, <2>1
    <3>2. SUFFICES ASSUME r.at = "fresh" PROVE FreshGood(d)'
      BY <3>1 DEF FreshGood
    <3>3. ledgerLock' = d /\ Reads(r) /\ r.view = ledger'
      BY <2>1, <3>2
    <3>4. Backed(r.view, approvals', passed')
      BY <1>5, <3>3
    <3>5. SameAsRead(r.view)'
      BY <3>3 DEF SameAsRead
    <3> QED BY <3>1, <3>3, <3>4, <3>5 DEF FreshGood
  <2>2. CASE d # c
    <3>1. checker'[d] = checker[d]
      BY <1>3, <2>2
    <3>2. SUFFICES ASSUME checker[d].at = "fresh" PROVE FreshGood(d)'
      BY <3>1 DEF FreshGood
    <3>3. FreshGood(d)
      BY DEF LedgerInv
    <3>4. /\ Reads(checker[d]) /\ Backed(checker[d].view, approvals, passed)
          /\ SameAsRead(checker[d].view)
      BY <3>2, <3>3, Zenon DEF FreshGood
    <3>5. ledgerLock' = d
      BY <2>2, <3>2 DEF LocksStay
    <3>6. Backed(checker[d].view, approvals', passed')
      BY <3>4, BackedOn
    <3>7. SameAsRead(checker[d].view)'
      BY <3>1, <3>4, Zenon DEF SameAsRead
    <3> QED BY <3>1, <3>4, <3>5, <3>6, <3>7 DEF FreshGood
  <2> QED BY <2>1, <2>2
<1> QED BY <1>4, <1>5, <1>6, <1>7, <1>8 DEF LedgerInv

LEMMA LedgerUntouched ==
  ASSUME LedgerInv, NEW c \in Checker, NEW r, checker' = [checker EXCEPT ![c] = r]
  PROVE  /\ checker[c] \in CheckerRecord /\ checker' = Sets(checker, c, r)
         /\ passedSince = Sets(passedSince, c, passedSince[c]) /\ passedSince[c] \in SUBSET Str
         /\ edited = Sets(edited, c, edited[c]) /\ edited[c] \in BOOLEAN
         /\ LocksStay(c, ledgerLock)
         /\ Good(checker[c], ledger, passedSince[c], edited[c], approvals, passed)
<1>1. LedgerTyped
  BY DEF LedgerInv
<1>2. /\ checker[c] \in CheckerRecord /\ checker' = Sets(checker, c, r)
      /\ passedSince[c] \in SUBSET Str /\ edited[c] \in BOOLEAN
  BY <1>1 DEF LedgerTyped, Sets
<1>3. passedSince = Sets(passedSince, c, passedSince[c]) /\ edited = Sets(edited, c, edited[c])
  BY <1>1 DEF LedgerTyped, Sets
<1>4. LocksStay(c, ledgerLock)
  BY DEF LedgerInv, FreshGood, LocksStay
<1> QED BY <1>2, <1>3, <1>4 DEF LedgerInv

(* A checker starts. *)

LEMMA TasksToRun ==
  ASSUME NEW lines, IsLedger(lines), NEW doc, doc = parseGates(lines), ~doc.errors,
         NEW mode, NEW todo, todo = Pending(doc, mode)
  PROVE  /\ todo \in Seq(Task)
         /\ \A t \in Items(todo) : 
              /\ t.signature[1] # Unset /\ t.result = "none"
              /\ t.wasMet \/ ~IsMet(lines, t.gate)
         /\ mode = "reverify" =>
              \A e \in Known(lines) : e[2][1] # Unset /\ e[1] \notin AbandonedIn(lines) =>
                \E t \in Items(todo) : t.gate = e[1]
<1> DEFINE n == Len(doc.gates)
<1>1. doc.gates \in Seq(GateRecord) /\ DOMAIN doc.gates = 1..n /\ \A i \in 1..n : doc.gates[i] \in GateRecord
  BY DocKnown
<1>2. IdsApart(doc.gates)
  BY DocKnown
<1>3. todo \in Seq(Task) /\ Items(todo) = TasksUpTo(n, doc, mode)
  BY <1>1, PendingItems
<1> HIDE DEF n
<1>4. ASSUME NEW t \in Items(todo)
      PROVE  /\ t.signature[1] # Unset /\ t.result = "none"
             /\ t.wasMet \/ ~IsMet(lines, t.gate)
  <2>1. PICK i \in 1..n : Runs(doc, mode, doc.gates[i]) /\ t = TaskOf(doc, doc.gates[i])
    BY <1>3 DEF TasksUpTo
  <2> DEFINE g == doc.gates[i]
  <2>2. /\ t.gate = g.id /\ t.signature = signature(g) /\ t.result = "none"
        /\ t.wasMet <=> gateState(g, doc.abandoned) = "met"
    BY <1>1, <2>1, TaskTyped
  <2>3. t.signature[1] # Unset
    BY <2>1, <2>2 DEF Runs, signature
  <2>4. ASSUME IsMet(lines, t.gate) PROVE t.wasMet
    <3>1. "met" \in StateOf(doc, g.id)
      BY <2>2, <2>4 DEF IsMet, StatesIn
    <3>2. PICK j \in 1..n : doc.gates[j].id = g.id /\ "met" = StateAt(doc, j)
      BY <1>1, <3>1, StateFound, SMTT(30)
    <3>3. j = i
      BY <1>2, <3>2 DEF IdsApart, n
    <3> QED BY <2>2, <3>2, <3>3 DEF StateAt
  <2> QED BY <2>2, <2>3, <2>4
<1>5. ASSUME mode = "reverify", NEW e \in Known(lines), e[2][1] # Unset, e[1] \notin AbandonedIn(lines)
      PROVE  \E t \in Items(todo) : t.gate = e[1]
  <2>1. PICK g \in Gates(doc) : e = <<g.id, signature(g)>>
    BY DEF Known
  <2>2. PICK i \in 1..n : g = doc.gates[i]
    BY <1>1, <2>1 DEF Gates
  <2>3. g.check # Unset /\ g.id \notin doc.abandoned
    BY <1>5, <2>1 DEF signature, AbandonedIn
  <2>4. gateState(g, doc.abandoned) # "abandoned"
    BY <2>3 DEF gateState
  <2>5. Runs(doc, mode, doc.gates[i])
    BY <1>5, <2>2, <2>3, <2>4 DEF Runs
  <2>6. TaskOf(doc, doc.gates[i]) \in Items(todo)
    BY <1>3, <2>5 DEF TasksUpTo
  <2>7. TaskOf(doc, doc.gates[i]).gate = e[1]
    BY <1>1, <2>1, <2>2, TaskTyped
  <2> QED BY <2>6, <2>7
<1> QED BY <1>3, <1>4, <1>5

LEMMA StartKeeps ==
  ASSUME LedgerAssumption, LedgerInv, NEW c \in Checker, StartChecker(c) PROVE LedgerInv'
<1> DEFINE doc == parseGates(ledger)
<1>1. PICK o \in Option[c] :
        Becomes(c, IF doc.errors THEN [NotStarted EXCEPT !.at = "done", !.mode = o.mode, !.exit = 2]
                   ELSE [NotStarted EXCEPT !.at = "working", !.mode = o.mode, !.approve = o.approve,
                                           !.todo = Pending(doc, o.mode), !.view = ledger])
  BY Zenon DEF StartChecker
<1>2. o.mode \in {"run", "reverify", "status"} /\ o.approve \in BOOLEAN
  BY DEF LedgerAssumption
<1>3. /\ passedSince' = [passedSince EXCEPT ![c] = {}] /\ edited' = [edited EXCEPT ![c] = FALSE]
      /\ ledger' = ledger /\ ledgerLock' = ledgerLock /\ approvals' = approvals /\ acked' = acked /\ passed' = passed
  BY DEF StartChecker, Others
<1>4. LedgerTyped /\ IsLedger(ledger)
  BY DEF LedgerInv, LedgerTyped
<1>5. passedSince' = Sets(passedSince, c, {}) /\ edited' = Sets(edited, c, FALSE)
  BY <1>3 DEF Sets
<1>6. CASE doc.errors
  <2> DEFINE r == [NotStarted EXCEPT !.at = "done", !.mode = o.mode, !.exit = 2]
  <2>1. checker' = [checker EXCEPT ![c] = r]
    BY <1>1, <1>6, Zenon DEF Becomes
  <2>2. r \in CheckerRecord
    BY <1>2, NotStartedTyped DEF CheckerRecord
  <2>3. r.at = "done" /\ r.todo = <<>> /\ r.tasks = <<>> /\ r.notRun = {} /\ r.next = 1 /\ r.exit = 2
    BY NotStartedTyped DEF CheckerRecord
  <2> HIDE DEF r, doc
  <2>4. Good(r, ledger, {}, FALSE, approvals', passed')
    <3>1. r.at \notin Checking /\ (r.exit = 0 => r.at = "done")
      BY <2>3 DEF Checking
    <3>2. Verified(r, {}, FALSE)
      BY <2>3 DEF Verified
    <3> QED BY <2>3, <3>1, <3>2, IdleGood
  <2>5. checker' = Sets(checker, c, r) /\ LocksStay(c, ledgerLock')
    BY <1>3, <2>1, LedgerUntouched
  <2>6. {} \in SUBSET Str /\ FALSE \in BOOLEAN /\ approvals \subseteq approvals' /\ passed \subseteq passed'
    BY <1>3
  <2>7. r.at # "fresh"
    BY <2>3
  <2> QED BY <1>3, <1>5, <2>2, <2>4, <2>5, <2>6, <2>7, QuietLedgerStep
<1>7. CASE ~doc.errors
  <2> DEFINE todo == Pending(doc, o.mode)
             r == [NotStarted EXCEPT !.at = "working", !.mode = o.mode, !.approve = o.approve,
                                     !.todo = todo, !.view = ledger]
  <2>1. checker' = [checker EXCEPT ![c] = r]
    BY <1>1, <1>7, Zenon DEF Becomes
  <2>2. /\ todo \in Seq(Task)
        /\ \A t \in Items(todo) : t.signature[1] # Unset /\ t.result = "none"
                                  /\ (t.wasMet \/ ~IsMet(ledger, t.gate))
        /\ o.mode = "reverify" =>
             \A e \in Known(ledger) : e[2][1] # Unset /\ e[1] \notin AbandonedIn(ledger) =>
               \E t \in Items(todo) : t.gate = e[1]
    <3> DEFINE d == doc
               s == todo
               m == o.mode
    <3>1. d = parseGates(ledger) /\ ~d.errors /\ s = Pending(d, m)
      BY <1>7
    <3> HIDE DEF d, s, m
    <3>2. /\ s \in Seq(Task)
          /\ \A t \in Items(s) : t.signature[1] # Unset /\ t.result = "none"
                                 /\ (t.wasMet \/ ~IsMet(ledger, t.gate))
          /\ m = "reverify" =>
               \A e \in Known(ledger) : e[2][1] # Unset /\ e[1] \notin AbandonedIn(ledger) =>
                 \E t \in Items(s) : t.gate = e[1]
      BY <1>4, <3>1, TasksToRun
    <3> QED BY <3>2 DEF s, m
  <2> HIDE DEF todo
  <2>3. r \in CheckerRecord
    BY <1>2, <1>4, <2>2, NotStartedTyped DEF CheckerRecord, IsLedger
  <2>4. /\ r.at = "working" /\ r.todo = todo /\ r.tasks = <<>> /\ r.notRun = {} /\ r.next = 1 /\ r.exit # 0
        /\ r.mode = o.mode
    BY NotStartedTyped DEF CheckerRecord
  <2> HIDE DEF r, doc
  <2>5. TasksOf(r) = Items(todo) /\ Items(r.tasks) = {} /\ DOMAIN r.tasks = {}
    BY <2>4 DEF TasksOf, Items
  <2>6. TasksKnown(r) /\ TasksEarned(r, approvals', passed')
    BY <2>2, <2>4, <2>5 DEF TasksKnown, TasksEarned
  <2>7. Following(r, ledger, {})
    <3>1. NewlyMet(r, ledger, {}) /\ Settled(r, ledger, {})
      BY <2>2, <2>5 DEF NewlyMet, Settled
    <3>2. r.mode = "reverify" => HasTasks(r, ledger)
      BY <2>2, <2>4, <2>5 DEF HasTasks
    <3> QED BY <3>1, <3>2 DEF Following
  <2>8. Good(r, ledger, {}, FALSE, approvals', passed')
    BY <2>4, <2>6, <2>7 DEF Good, Verified
  <2>9. checker' = Sets(checker, c, r) /\ LocksStay(c, ledgerLock')
    BY <1>3, <2>1, LedgerUntouched
  <2>10. {} \in SUBSET Str /\ FALSE \in BOOLEAN /\ approvals \subseteq approvals' /\ passed \subseteq passed'
    BY <1>3
  <2>11. r.at # "fresh"
    BY <2>4
  <2> QED BY <1>3, <1>5, <2>3, <2>8, <2>9, <2>10, <2>11, QuietLedgerStep
<1> QED BY <1>6, <1>7

(* The next command is taken: approved, or not run. *)

LEMMA HeadFirst ==
  ASSUME NEW S, NEW s \in Seq(S), s # <<>>
  PROVE  Head(s) \in S /\ Tail(s) \in Seq(S) /\ Items(s) = {Head(s)} \cup Items(Tail(s))
<1> DEFINE n == Len(s)
           t == Tail(s)
<1>1. n \in Nat /\ n >= 1 /\ DOMAIN s = 1..n /\ Head(s) = s[1] /\ s[1] \in S
  OBVIOUS
<1>2. t \in Seq(S) /\ Len(t) = n - 1 /\ DOMAIN t = 1..(n - 1) /\ \A i \in 1..(n - 1) : t[i] = s[i + 1]
  BY <1>1
<1> HIDE DEF n, t
<1>3. ASSUME NEW v, v \in Items(s) PROVE v \in {s[1]} \cup Items(t)
  <2>1. PICK i \in 1..n : v = s[i]
    BY <1>1, <1>3 DEF Items
  <2>2. CASE i # 1
    <3>1. i - 1 \in 1..(n - 1) /\ (i - 1) + 1 = i
      BY <1>1, <2>2
    <3>2. t[i - 1] = s[(i - 1) + 1]
      BY <1>2, <3>1
    <3>3. v = t[i - 1]
      BY <2>1, <3>1, <3>2
    <3> QED BY <1>2, <3>1, <3>3 DEF Items
  <2> QED BY <2>1, <2>2
<1>4. ASSUME NEW v, v \in {s[1]} \cup Items(t) PROVE v \in Items(s)
  <2>1. CASE v = s[1]
    <3>1. 1 \in 1..n
      BY <1>1
    <3> QED BY <1>1, <2>1, <3>1 DEF Items
  <2>2. CASE v \in Items(t)
    <3>1. PICK i \in 1..(n - 1) : v = t[i]
      BY <1>2, <2>2 DEF Items
    <3>2. i + 1 \in 1..n /\ v = s[i + 1]
      BY <1>1, <1>2, <3>1
    <3> QED BY <1>1, <3>2 DEF Items
  <2> QED BY <1>4, <2>1, <2>2
<1>5. Items(s) = {s[1]} \cup Items(t)
  BY <1>3, <1>4
<1> QED BY <1>1, <1>2, <1>5 DEF t

TakesTask(r, s) ==
  /\ s \in CheckerRecord /\ s.at = r.at /\ s.mode = r.mode /\ s.next = r.next /\ s.exit = r.exit
  /\ s.todo = Tail(r.todo) /\ s.view = r.view /\ TasksOf(s) = TasksOf(r)

Left(r) == [r EXCEPT !.todo = Tail(@)]
ToRun(left, task) == [left EXCEPT !.tasks = Append(@, task)]
NotToRun(left, task) == [left EXCEPT !.notRun = @ \cup {task}]
NotStored(left, task) == [left EXCEPT !.notRun = @ \cup {task}, !.infra = TRUE]

LEMMA TaskTaken ==
  ASSUME NEW r \in CheckerRecord, r.todo # <<>>, NEW left, left = Left(r), NEW task, task = Head(r.todo),
         NEW s1, s1 = ToRun(left, task), NEW s2, s2 = NotToRun(left, task), NEW s3, s3 = NotStored(left, task)
  PROVE  /\ TakesTask(r, s1) /\ Items(s1.tasks) = Items(r.tasks) \cup {task}
         /\ TakesTask(r, s2) /\ Items(s2.tasks) = Items(r.tasks)
         /\ TakesTask(r, s3) /\ Items(s3.tasks) = Items(r.tasks)
<1>1. r.todo \in Seq(Task) /\ r.tasks \in Seq(Task) /\ r.notRun \in SUBSET Task
  BY DEF CheckerRecord
<1>2. /\ task \in Task /\ Tail(r.todo) \in Seq(Task)
      /\ Items(r.todo) = {task} \cup Items(Tail(r.todo))
  BY <1>1, HeadFirst
<1>3. Append(r.tasks, task) \in Seq(Task) /\ Items(Append(r.tasks, task)) = Items(r.tasks) \cup {task}
  BY <1>1, <1>2, ItemAppended
<1> DEFINE q == Tail(r.todo)
           a == Append(r.tasks, task)
           n == r.notRun \cup {task}
<1>4. q \in Seq(Task) /\ a \in Seq(Task) /\ n \in SUBSET Task
  BY <1>1, <1>2, <1>3
<1>5. Items(r.todo) = {task} \cup Items(q) /\ Items(a) = Items(r.tasks) \cup {task}
  BY <1>2, <1>3
<1>6. left = [r EXCEPT !.todo = q]
  BY DEF Left
<1>7. s1 = [r EXCEPT !.todo = q, !.tasks = a]
  BY <1>6 DEF CheckerRecord, ToRun
<1>8. s2 = [r EXCEPT !.todo = q, !.notRun = n]
  BY <1>6 DEF CheckerRecord, NotToRun
<1>9. s3 = [r EXCEPT !.todo = q, !.notRun = n, !.infra = TRUE]
  BY <1>6 DEF CheckerRecord, NotStored
<1> HIDE DEF a, n
<1>10. TakesTask(r, s1) /\ Items(s1.tasks) = Items(r.tasks) \cup {task}
  <2>1. /\ s1 \in CheckerRecord /\ s1.at = r.at /\ s1.mode = r.mode /\ s1.next = r.next /\ s1.exit = r.exit
        /\ s1.todo = q /\ s1.view = r.view /\ s1.tasks = a /\ s1.notRun = r.notRun
    BY <1>4, <1>7 DEF CheckerRecord
  <2> HIDE DEF q
  <2>2. TasksOf(s1) = TasksOf(r)
    BY <1>5, <2>1 DEF TasksOf
  <2> QED BY <1>5, <2>1, <2>2 DEF TakesTask, q
<1>11. ASSUME NEW s \in {s2, s3} PROVE TakesTask(r, s) /\ Items(s.tasks) = Items(r.tasks)
  <2>1. /\ s \in CheckerRecord /\ s.at = r.at /\ s.mode = r.mode /\ s.next = r.next /\ s.exit = r.exit
        /\ s.todo = q /\ s.view = r.view /\ s.tasks = r.tasks /\ s.notRun = n
    <3>1. CASE s = s2
      BY <1>4, <1>8, <3>1 DEF CheckerRecord
    <3>2. CASE s = s3
      BY <1>4, <1>9, <3>2 DEF CheckerRecord
    <3> QED BY <3>1, <3>2
  <2> HIDE DEF q
  <2>2. TasksOf(s) = TasksOf(r)
    BY <1>5, <2>1 DEF TasksOf, n
  <2> QED BY <1>5, <2>1, <2>2 DEF TakesTask, q
<1> QED BY <1>10, <1>11

LEMMA TakenFollows ==
  ASSUME NEW r \in CheckerRecord, r.todo # <<>>, NEW s, TakesTask(r, s), TasksKnown(r), NEW lines, NEW since
  PROVE  TasksKnown(s) /\ (Following(r, lines, since) => Following(s, lines, since))
<1>1. r.next = 1 /\ s.next = 1
  BY DEF TasksKnown, TakesTask
<1>2. Items(s.todo) \subseteq Items(r.todo)
  <2>1. r.todo \in Seq(Task)
    BY DEF CheckerRecord
  <2>2. Items(r.todo) = {Head(r.todo)} \cup Items(Tail(r.todo))
    BY <2>1, HeadFirst
  <2> QED BY <2>2 DEF TakesTask
<1>3. TasksKnown(s)
  BY <1>1, <1>2 DEF TasksKnown, TakesTask
<1>4. Settled(s, lines, since)
  <2>1. s.tasks \in Seq(Task)
    BY DEF TakesTask, CheckerRecord
  <2>2. \A i \in DOMAIN s.tasks : ~(i < s.next)
    BY <1>1, <2>1
  <2> QED BY <2>2 DEF Settled
<1>5. TasksOf(s) = TasksOf(r) /\ s.mode = r.mode
  BY DEF TakesTask
<1> QED BY <1>3, <1>4, <1>5 DEF Following, HasTasks, NewlyMet

LEMMA ApproveKeeps ==
  ASSUME LedgerInv, NEW c \in Checker, Approve(c) PROVE LedgerInv'
<1> DEFINE r == checker[c]
           task == Head(r.todo)
           left == [r EXCEPT !.todo = Tail(@)]
<1>1. /\ r.at = "working" /\ r.todo # <<>> /\ ledger' = ledger /\ ledgerLock' = ledgerLock
      /\ passedSince' = passedSince /\ edited' = edited /\ acked' = acked /\ passed' = passed
  BY DEF Approve, Others, Ghosts
<1>2. \/ /\ Becomes(c, [left EXCEPT !.tasks = Append(@, task)])
         /\ approvals' = IF Approved(task) THEN approvals ELSE approvals \cup {<<task.gate, task.signature>>}
      \/ Becomes(c, [left EXCEPT !.notRun = @ \cup {task}]) /\ UNCHANGED approvals
      \/ Becomes(c, [left EXCEPT !.notRun = @ \cup {task}, !.infra = TRUE]) /\ UNCHANGED approvals
  BY Zenon DEF Approve
<1>3. r \in CheckerRecord /\ Good(r, ledger, passedSince[c], edited[c], approvals, passed)
  BY DEF LedgerInv, LedgerTyped
<1> DEFINE s1 == [left EXCEPT !.tasks = Append(@, task)]
           s2 == [left EXCEPT !.notRun = @ \cup {task}]
           s3 == [left EXCEPT !.notRun = @ \cup {task}, !.infra = TRUE]
<1>4. /\ TakesTask(r, s1) /\ Items(s1.tasks) = Items(r.tasks) \cup {task}
      /\ TakesTask(r, s2) /\ Items(s2.tasks) = Items(r.tasks)
      /\ TakesTask(r, s3) /\ Items(s3.tasks) = Items(r.tasks)
  <2>1. left = Left(r) /\ s1 = ToRun(left, task) /\ s2 = NotToRun(left, task) /\ s3 = NotStored(left, task)
    BY Zenon DEF Left, ToRun, NotToRun, NotStored
  <2>2. task = Head(r.todo)
    OBVIOUS
  <2> HIDE DEF r, task, left, s1, s2, s3
  <2> QED BY <1>1, <1>3, <2>1, <2>2, TaskTaken
<1>5. Becomes(c, s1) \/ ((Becomes(c, s2) \/ Becomes(c, s3)) /\ approvals' = approvals)
  BY <1>2, Zenon
<1>6. /\ approvals \subseteq approvals'
      /\ Becomes(c, s1) /\ ~((Becomes(c, s2) \/ Becomes(c, s3)) /\ approvals' = approvals)
           => <<task.gate, task.signature>> \in approvals'
  BY <1>2 DEF Approved
<1>7. task \in Items(r.todo)
  <2>1. r.todo \in Seq(Task)
    BY <1>3 DEF CheckerRecord
  <2>2. Items(r.todo) = {task} \cup Items(Tail(r.todo))
    BY <1>1, <2>1, HeadFirst
  <2> QED BY <2>2
<1>8. task.result = "none"
  BY <1>3, <1>7 DEF Good, TasksKnown
<1> HIDE DEF r, task, left, s1, s2, s3
<1>9. PICK s : /\ Becomes(c, s) /\ TakesTask(r, s)
               /\ \/ Items(s.tasks) = Items(r.tasks)
                  \/ Items(s.tasks) = Items(r.tasks) \cup {task} /\ <<task.gate, task.signature>> \in approvals'
  BY <1>4, <1>5, <1>6
<1>10. TasksKnown(s) /\ (Following(r, ledger, passedSince[c]) => Following(s, ledger, passedSince[c]))
  BY <1>1, <1>3, <1>9, TakenFollows DEF Good
<1>11. TasksEarned(s, approvals', passed')
  BY <1>1, <1>3, <1>6, <1>8, <1>9 DEF Good, TasksEarned
<1>12. s \in CheckerRecord /\ s.at = r.at /\ s.mode = r.mode /\ s.exit = r.exit /\ s.view = r.view
  BY <1>9 DEF TakesTask
<1>13. Verified(s, passedSince[c], edited[c])
  BY <1>3, <1>12 DEF Good, Verified
<1>14. Good(s, ledger, passedSince[c], edited[c], approvals', passed')
  BY <1>3, <1>10, <1>11, <1>12, <1>13 DEF Good
<1>15. /\ checker' = Sets(checker, c, s) /\ passedSince = Sets(passedSince, c, passedSince[c])
       /\ edited = Sets(edited, c, edited[c]) /\ passedSince[c] \in SUBSET Str /\ edited[c] \in BOOLEAN
       /\ LocksStay(c, ledgerLock)
  <2>1. checker' = [checker EXCEPT ![c] = s]
    BY <1>9 DEF Becomes
  <2> QED BY <2>1, LedgerUntouched
<1>16. s.at # "fresh" /\ passed \subseteq passed'
  BY <1>1, <1>12
<1> QED BY <1>1, <1>6, <1>12, <1>14, <1>15, <1>16, QuietLedgerStep

(* A command ends. *)

ResultGiven(r, i, result) == [r EXCEPT !.tasks[i].result = result]

LEMMA ResultGivenTyped ==
  ASSUME NEW r \in CheckerRecord, NEW i \in DOMAIN r.tasks, NEW result \in {"ok", "failed"},
         NEW s, s = ResultGiven(r, i, result)
  PROVE  /\ s \in CheckerRecord /\ s.at = r.at /\ s.mode = r.mode /\ s.next = r.next /\ s.exit = r.exit
         /\ s.todo = r.todo /\ s.view = r.view /\ s.notRun = r.notRun /\ DOMAIN s.tasks = DOMAIN r.tasks
         /\ \A j \in DOMAIN r.tasks : j # i => s.tasks[j] = r.tasks[j]
         /\ s.tasks[i].gate = r.tasks[i].gate /\ s.tasks[i].signature = r.tasks[i].signature
         /\ s.tasks[i].wasMet = r.tasks[i].wasMet /\ s.tasks[i].result = result
<1> DEFINE t == [r.tasks[i] EXCEPT !.result = result]
           q == [r.tasks EXCEPT ![i] = t]
<1>1. r.tasks \in Seq(Task) /\ r.tasks[i] \in Task
  BY DEF CheckerRecord
<1>2. /\ t \in Task /\ t.gate = r.tasks[i].gate /\ t.signature = r.tasks[i].signature
      /\ t.wasMet = r.tasks[i].wasMet /\ t.result = result
  BY <1>1 DEF Task
<1>3. s = [r EXCEPT !.tasks = q]
  BY Zenon DEF ResultGiven
<1> HIDE DEF t
<1>4. i \in 1..Len(r.tasks) /\ DOMAIN r.tasks = 1..Len(r.tasks)
  BY <1>1
<1>5. /\ q \in Seq(Task) /\ Len(q) = Len(r.tasks)
      /\ \A j \in 1..Len(r.tasks) : q[j] = IF j = i THEN t ELSE r.tasks[j]
  BY <1>1, <1>2, <1>4, ReplacedInSeq
<1> HIDE DEF q
<1>6. /\ s \in CheckerRecord /\ s.at = r.at /\ s.mode = r.mode /\ s.next = r.next /\ s.exit = r.exit
      /\ s.todo = r.todo /\ s.view = r.view /\ s.notRun = r.notRun /\ s.tasks = q
  BY <1>3, <1>5 DEF CheckerRecord
<1>7. DOMAIN q = 1..Len(r.tasks)
  BY <1>5
<1> QED BY <1>2, <1>4, <1>5, <1>6, <1>7

LEMMA RunEndsKeeps ==
  ASSUME LedgerInv, NEW c \in Checker, RunEnds(c) PROVE LedgerInv'
<1> DEFINE r == checker[c]
<1>1. /\ r.at = "working" /\ r.todo = <<>> /\ ledger' = ledger /\ ledgerLock' = ledgerLock
      /\ approvals' = approvals /\ passedSince' = passedSince /\ edited' = edited /\ acked' = acked
  BY DEF RunEnds, Others
<1>2. PICK i \in Running(r), result \in {"ok", "failed"} :
        /\ Becomes(c, [r EXCEPT !.tasks[i].result = result])
        /\ passed' = IF result = "ok" THEN passed \cup {<<r.tasks[i].gate, r.tasks[i].signature>>} ELSE passed
  BY Zenon DEF RunEnds
<1>3. r \in CheckerRecord /\ Good(r, ledger, passedSince[c], edited[c], approvals, passed)
  BY DEF LedgerInv, LedgerTyped
<1>4. i \in DOMAIN r.tasks /\ i \in Unfinished(r)
  BY DEF Running, Unfinished
<1> DEFINE s == [r EXCEPT !.tasks[i].result = result]
<1>5. s = ResultGiven(r, i, result)
  BY Zenon DEF ResultGiven
<1>6. checker' = [checker EXCEPT ![c] = s]
  BY <1>2, Zenon DEF Becomes
<1> HIDE DEF r, s
<1>7. /\ s \in CheckerRecord /\ s.at = r.at /\ s.mode = r.mode /\ s.next = r.next /\ s.exit = r.exit
      /\ s.todo = r.todo /\ s.view = r.view /\ s.notRun = r.notRun /\ DOMAIN s.tasks = DOMAIN r.tasks
      /\ \A j \in DOMAIN r.tasks : j # i => s.tasks[j] = r.tasks[j]
      /\ s.tasks[i].gate = r.tasks[i].gate /\ s.tasks[i].signature = r.tasks[i].signature
      /\ s.tasks[i].wasMet = r.tasks[i].wasMet /\ s.tasks[i].result = result
  BY <1>3, <1>4, <1>5, ResultGivenTyped
<1>8. \A t \in TasksOf(s) : \E u \in TasksOf(r) :
        u.gate = t.gate /\ u.signature = t.signature /\ u.wasMet = t.wasMet
  BY <1>4, <1>7 DEF TasksOf, Items
<1>9. \A u \in TasksOf(r) : \E t \in TasksOf(s) : t.gate = u.gate
  BY <1>4, <1>7 DEF TasksOf, Items
<1>10. r.next = 1 /\ s.next = 1
  BY <1>3, <1>4, <1>7 DEF Good, TasksKnown
<1>11. TasksKnown(s)
  BY <1>3, <1>7, <1>8, <1>10 DEF Good, TasksKnown
<1>12. passed \subseteq passed'
  BY <1>2
<1>13. TasksEarned(s, approvals', passed')
  <2>1. ASSUME NEW j \in DOMAIN s.tasks
        PROVE  /\ <<s.tasks[j].gate, s.tasks[j].signature>> \in approvals'
               /\ s.tasks[j].result = "ok" => <<s.tasks[j].gate, s.tasks[j].signature>> \in passed'
    <3>1. /\ <<r.tasks[j].gate, r.tasks[j].signature>> \in approvals
          /\ r.tasks[j].result = "ok" => <<r.tasks[j].gate, r.tasks[j].signature>> \in passed
      BY <1>3, <1>7 DEF Good, TasksEarned, Items
    <3>2. CASE j = i
      BY <1>1, <1>2, <1>7, <3>1, <3>2
    <3>3. CASE j # i
      BY <1>1, <1>7, <1>12, <3>1, <3>3
    <3> QED BY <3>2, <3>3
  <2> QED BY <2>1 DEF TasksEarned, Items
<1>14. Settled(s, ledger, passedSince[c])
  <2>1. s.tasks \in Seq(Task)
    BY <1>7 DEF CheckerRecord
  <2>2. \A j \in DOMAIN s.tasks : ~(j < s.next)
    BY <1>10, <2>1
  <2> QED BY <2>2 DEF Settled
<1>15. Following(r, ledger, passedSince[c]) => Following(s, ledger, passedSince[c])
  <2>1. HasTasks(r, ledger) => HasTasks(s, ledger)
    BY <1>9 DEF HasTasks
  <2>2. NewlyMet(r, ledger, passedSince[c]) => NewlyMet(s, ledger, passedSince[c])
    BY <1>8 DEF NewlyMet
  <2> QED BY <1>7, <1>14, <2>1, <2>2 DEF Following
<1>16. Verified(s, passedSince[c], edited[c])
  BY <1>3, <1>7 DEF Good, Verified
<1>17. Good(s, ledger, passedSince[c], edited[c], approvals', passed')
  BY <1>3, <1>7, <1>11, <1>13, <1>15, <1>16 DEF Good
<1>18. /\ checker' = Sets(checker, c, s) /\ passedSince = Sets(passedSince, c, passedSince[c])
       /\ edited = Sets(edited, c, edited[c]) /\ passedSince[c] \in SUBSET Str /\ edited[c] \in BOOLEAN
       /\ LocksStay(c, ledgerLock)
  BY <1>6, LedgerUntouched
<1>19. s.at # "fresh" /\ approvals \subseteq approvals'
  BY <1>1, <1>7
<1> QED BY <1>1, <1>7, <1>12, <1>17, <1>18, <1>19, QuietLedgerStep

(* A checker takes the lock and reads the ledger again, dies, or loses its lock file. *)

LEMMA ReadFreshKeeps ==
  ASSUME LedgerAssumption, LedgerInv, NEW c \in Checker, ReadFresh(c) PROVE LedgerInv'
<1> DEFINE r == checker[c]
           task == AtHand(r)
           doc == parseGates(ledger)
           same == {g \in GateNamed(doc, task.gate) : signature(g) = task.signature}
           fresh == [r EXCEPT !.at = "fresh", !.view = ledger]
           given == [After(r) EXCEPT !.stale = @ \cup {task.gate}]
           failed == [After(r) EXCEPT !.error = TRUE]
<1>1. /\ r.at = "working" /\ r.todo = <<>> /\ Unfinished(r) = {} /\ ToWrite(r) # {}
      /\ ledger' = ledger /\ approvals' = approvals /\ passed' = passed
      /\ passedSince' = passedSince /\ edited' = edited /\ acked' = acked
  BY DEF ReadFresh, Ghosts, Ran
<1>2. \/ ledgerLock = Unset /\ ~doc.errors /\ same # {} /\ ledgerLock' = c /\ Becomes(c, fresh)
      \/ Becomes(c, given) /\ ledgerLock' = ledgerLock
      \/ Becomes(c, failed) /\ ledgerLock' = ledgerLock
  BY Zenon DEF ReadFresh, TextNow
<1>3. r \in CheckerRecord /\ Good(r, ledger, passedSince[c], edited[c], approvals, passed) /\ IsLedger(ledger)
  BY DEF LedgerInv, LedgerTyped
<1>4. \A s : checker' = [checker EXCEPT ![c] = s] =>
        /\ checker' = Sets(checker, c, s) /\ passedSince = Sets(passedSince, c, passedSince[c])
        /\ edited = Sets(edited, c, edited[c]) /\ passedSince[c] \in SUBSET Str /\ edited[c] \in BOOLEAN
        /\ LocksStay(c, ledgerLock)
  BY LedgerUntouched
<1>5. r.exit # 0
  BY <1>1, <1>3 DEF Good, TasksKnown
<1>6. CASE ledgerLock = Unset /\ ~doc.errors /\ same # {} /\ ledgerLock' = c /\ Becomes(c, fresh)
  <2>1. checker' = [checker EXCEPT ![c] = fresh]
    BY <1>6, Zenon DEF Becomes
  <2>2. PICK g \in Gates(doc) : g.id = task.gate /\ signature(g) = task.signature
    BY <1>6 DEF GateNamed
  <2>3. <<task.gate, task.signature>> \in Known(ledger) /\ Fine(ledger)
    BY <1>6, <2>2 DEF Known, Fine
  <2> HIDE DEF r, doc, same, given, failed
  <2> DEFINE s == fresh
  <2>4. /\ s \in CheckerRecord /\ s.at = "fresh" /\ s.mode = r.mode /\ s.next = r.next /\ s.exit = r.exit
        /\ s.todo = r.todo /\ s.view = ledger /\ s.notRun = r.notRun /\ s.tasks = r.tasks
        /\ s.error = r.error /\ s.stale = r.stale
    BY <1>3 DEF CheckerRecord, IsLedger
  <2> HIDE DEF s
  <2>5. /\ TasksOf(s) = TasksOf(r) /\ Unfinished(s) = Unfinished(r) /\ ToWrite(s) = ToWrite(r)
        /\ AtHand(s) = AtHand(r) /\ \A t : Written(s, t) <=> Written(r, t)
    BY <2>4 DEF TasksOf, Unfinished, ToWrite, Written, AtHand
  <2>6. TasksKnown(s) /\ TasksEarned(s, approvals', passed')
    BY <1>1, <1>3, <1>5, <2>4, <2>5 DEF Good, TasksKnown, TasksEarned
  <2>7. Following(r, ledger, passedSince[c]) => Following(s, ledger, passedSince[c])
    BY <2>4, <2>5 DEF Following, HasTasks, NewlyMet, Settled
  <2>8. Good(s, ledger, passedSince[c], edited[c], approvals', passed')
    <3>1. Verified(s, passedSince[c], edited[c])
      BY <1>5, <2>4 DEF Verified
    <3>2. ~edited[c] => Following(s, ledger, passedSince[c])
      BY <1>1, <1>3, <2>7 DEF Good, Checking
    <3> QED BY <2>6, <3>1, <3>2 DEF Good
  <2>9. Reads(s) /\ s.view = ledger /\ ledgerLock' = c
    BY <1>1, <1>3, <1>6, <2>3, <2>4, <2>5 DEF Reads
  <2>10. LocksStay(c, ledgerLock')
    <3>1. LocksStay(c, ledgerLock)
      BY <1>4, <2>1 DEF s
    <3> QED BY <1>6, <3>1 DEF LocksStay, LedgerAssumption
  <2>11. approvals \subseteq approvals' /\ passed \subseteq passed' /\ checker' = [checker EXCEPT ![c] = s]
    BY <1>1, <2>1 DEF s
  <2>12. /\ checker' = Sets(checker, c, s) /\ passedSince = Sets(passedSince, c, passedSince[c])
         /\ edited = Sets(edited, c, edited[c]) /\ passedSince[c] \in SUBSET Str /\ edited[c] \in BOOLEAN
    BY <1>4, <2>11
  <2> QED BY <1>1, <2>4, <2>8, <2>9, <2>10, <2>11, <2>12, QuietLedgerStep
<1>7. ASSUME NEW s \in {given, failed}, Becomes(c, s), ledgerLock' = ledgerLock
      PROVE  LedgerInv'
  <2>1. checker' = [checker EXCEPT ![c] = s]
    BY <1>7, Zenon DEF Becomes
  <2>2. Advances(r, s) /\ (s.error \/ task.gate \in s.stale)
    <3>1. task.gate \in Str
      BY <1>1, <1>3, HandFound DEF Task
    <3> HIDE DEF r, task
    <3>2. Advances(r, given) /\ task.gate \in given.stale /\ Advances(r, failed) /\ failed.error
      BY <1>1, <1>3, <3>1, AfterAdvances
    <3> QED BY <1>7, <3>2
  <2> HIDE DEF r, doc, same, given, failed, fresh
  <2>3. /\ TasksKnown(s) /\ TasksEarned(s, approvals', passed')
    <3>1. TasksKnown(r) /\ TasksEarned(r, approvals, passed)
      BY <1>3 DEF Good
    <3> QED BY <1>1, <1>3, <2>2, <3>1, AdvanceKnown
  <2>4. Following(r, ledger, passedSince[c]) => Following(s, ledger, passedSince[c])
    BY <1>1, <1>3, <2>2, AdvanceFollows
  <2>5. s \in CheckerRecord /\ s.at = "working" /\ s.exit = r.exit
    BY <2>2 DEF Advances
  <2>6. Good(s, ledger, passedSince[c], edited[c], approvals', passed')
    <3>1. Verified(s, passedSince[c], edited[c])
      BY <1>5, <2>5 DEF Verified
    <3>2. ~edited[c] => Following(s, ledger, passedSince[c])
      BY <1>1, <1>3, <2>4 DEF Good, Checking
    <3> QED BY <2>3, <3>1, <3>2 DEF Good
  <2>7. approvals \subseteq approvals' /\ passed \subseteq passed' /\ s.at # "fresh"
    BY <1>1, <2>5
  <2>8. /\ checker' = Sets(checker, c, s) /\ passedSince = Sets(passedSince, c, passedSince[c])
        /\ edited = Sets(edited, c, edited[c]) /\ passedSince[c] \in SUBSET Str /\ edited[c] \in BOOLEAN
        /\ LocksStay(c, ledgerLock)
    BY <1>4, <2>1
  <2> QED BY <1>1, <1>7, <2>5, <2>6, <2>7, <2>8, QuietLedgerStep
<1> QED BY <1>2, <1>6, <1>7

LEMMA DiesKeeps ==
  ASSUME LedgerInv, NEW c \in Checker, CheckerDies(c) PROVE LedgerInv'
<1> DEFINE s == [NotStarted EXCEPT !.at = "dead"]
<1>1. /\ checker' = [checker EXCEPT ![c] = s] /\ ledger' = ledger /\ ledgerLock' = ledgerLock
      /\ approvals' = approvals /\ passed' = passed /\ passedSince' = passedSince
      /\ edited' = edited /\ acked' = acked
  BY DEF CheckerDies, Becomes, Others, Ghosts
<1>2. /\ s \in CheckerRecord /\ s.todo = <<>> /\ s.tasks = <<>> /\ s.notRun = {} /\ s.next = 1
      /\ s.at = "dead" /\ s.exit # 0
  BY NotStartedTyped DEF CheckerRecord
<1> HIDE DEF s
<1>3. s.at \notin Checking /\ s.at # "fresh" /\ (s.exit = 0 => s.at = "done")
  BY <1>2 DEF Checking
<1>4. Verified(s, passedSince[c], edited[c])
  BY <1>2 DEF Verified
<1>5. Good(s, ledger, passedSince[c], edited[c], approvals', passed')
  BY <1>2, <1>3, <1>4, IdleGood
<1>6. /\ checker' = Sets(checker, c, s) /\ passedSince = Sets(passedSince, c, passedSince[c])
      /\ edited = Sets(edited, c, edited[c]) /\ passedSince[c] \in SUBSET Str /\ edited[c] \in BOOLEAN
      /\ LocksStay(c, ledgerLock)
  BY <1>1, LedgerUntouched
<1>7. approvals \subseteq approvals' /\ passed \subseteq passed'
  BY <1>1
<1> QED BY <1>1, <1>2, <1>3, <1>5, <1>6, <1>7, QuietLedgerStep

LEMMA RemoveLockKeeps ==
  ASSUME LedgerInv, RemoveLedgerLock PROVE LedgerInv'
<1>1. /\ ledgerLock \in Checker /\ checker[ledgerLock].at = "dead" /\ ledgerLock' = Unset
      /\ checker' = checker /\ ledger' = ledger /\ approvals' = approvals /\ passed' = passed
      /\ passedSince' = passedSince /\ edited' = edited /\ acked' = acked
  BY DEF RemoveLedgerLock, Ghosts
<1> DEFINE c == ledgerLock
           s == checker[c]
<1>2. LedgerTyped /\ s \in CheckerRecord /\ Good(s, ledger, passedSince[c], edited[c], approvals, passed)
  BY <1>1 DEF LedgerInv, LedgerTyped
<1>3. checker = [checker EXCEPT ![c] = s]
  BY <1>1, <1>2 DEF LedgerTyped
<1>4. LocksStay(c, Unset)
  BY <1>1 DEF LedgerInv, FreshGood, LocksStay
<1>5. s.at # "fresh" /\ approvals \subseteq approvals' /\ passed \subseteq passed'
  BY <1>1
<1> HIDE DEF s
<1>6. /\ checker' = Sets(checker, c, s) /\ passedSince = Sets(passedSince, c, passedSince[c])
      /\ edited = Sets(edited, c, edited[c]) /\ passedSince[c] \in SUBSET Str /\ edited[c] \in BOOLEAN
  BY <1>1, <1>3, LedgerUntouched
<1> QED BY <1>1, <1>2, <1>4, <1>5, <1>6, QuietLedgerStep

(* The editor saves, and a checker writes a result. *)

LEMMA SaveKeeps ==
  ASSUME LedgerAssumption, LedgerInv, Save PROVE LedgerInv'
<1>1. /\ ledger' \in Draft /\ checker' = checker /\ ledgerLock' = ledgerLock /\ approvals' = approvals
      /\ passed' = passed /\ passedSince' = passedSince /\ acked' = [id \in GateId |-> "none"]
      /\ edited' = [c \in Checker |-> TRUE]
  BY DEF Save
<1>2. IsLedger(ledger') /\ Backed(ledger', approvals', passed')
  <2>1. IsText(ledger') /\ Unproved(ledger')
    BY <1>1 DEF LedgerAssumption
  <2> QED BY <2>1, DraftBacked
<1>3. LedgerTyped'
  BY <1>1, <1>2 DEF LedgerInv, LedgerTyped
<1>4. ResultsKept'
  BY <1>1, Zenon DEF ResultsKept
<1>5. ASSUME NEW d \in Checker
      PROVE  FreshGood(d)' /\ Good(checker'[d], ledger', passedSince'[d], edited'[d], approvals', passed')
  <2>1. SameAsRead(checker[d].view)'
    BY <1>1 DEF SameAsRead
  <2>2. FreshGood(d) /\ Good(checker[d], ledger, passedSince[d], edited[d], approvals, passed)
    BY DEF LedgerInv
  <2>3. FreshGood(d)'
    BY <1>1, <2>1, <2>2 DEF FreshGood
  <2>4. edited'[d]
    BY <1>1
  <2>5. TasksKnown(checker[d]) /\ TasksEarned(checker[d], approvals', passed')
    BY <1>1, <2>2 DEF Good
  <2>6. Good(checker'[d], ledger', passedSince'[d], edited'[d], approvals', passed')
    BY <1>1, <2>4, <2>5 DEF Good, Verified
  <2> QED BY <2>3, <2>6
<1> QED BY <1>2, <1>3, <1>4, <1>5 DEF LedgerInv

LEMMA WrittenKept ==
  ASSUME NEW lines, NEW new, NEW id, NEW s, NEW ok \in BOOLEAN, Outcome(lines, new, id, s, ok),
         NEW since, ok => id \in since
  PROVE  Kept(lines, new, since) /\ (~ok => ~IsMet(new, id))
<1>1. Known(new) = Known(lines) /\ AbandonedIn(new) = AbandonedIn(lines)
  BY DEF Outcome
<1>2. \A x : x # id => StatesIn(new, x) = StatesIn(lines, x)
  BY DEF Outcome, StatesWritten, StatesIn
<1>3. StatesIn(new, id) \subseteq {"abandoned", IF ok THEN "met" ELSE "unmet"}
  BY DEF Outcome, StatesWritten, StatesIn
<1>4. ~ok => ~IsMet(new, id)
  BY <1>3 DEF IsMet
<1>5. ASSUME NEW x, IsMet(new, x) PROVE IsMet(lines, x) \/ x \in since
  BY <1>2, <1>4, <1>5 DEF IsMet
<1> QED BY <1>1, <1>4, <1>5 DEF Kept

LEMMA WriteBackKeeps ==
  ASSUME LedgerAssumption, LedgerInv, NEW c \in Checker, WriteBack(c) PROVE LedgerInv'
<1> DEFINE r == checker[c]
           task == AtHand(r)
           ok == task.result = "ok"
           g == CHOOSE gate \in GateNamed(parseGates(r.view), task.gate) : TRUE
           dead == [NotStarted EXCEPT !.at = "dead"]
           id == task.gate
<1>1. /\ r.at = "fresh" /\ ledger' = WriteResult(r.view, g, ok)
      /\ acked' = [acked EXCEPT ![id] = IF ok THEN "met" ELSE "unmet"]
      /\ passedSince' = [d \in Checker |-> IF ok THEN passedSince[d] \cup {id} ELSE passedSince[d]]
      /\ edited' = [d \in Checker |-> edited[d] \/ r.view # ledger]
      /\ approvals' = approvals /\ passed' = passed
  BY DEF WriteBack
<1>2. Becomes(c, After(r)) \/ Becomes(c, dead)
  BY Zenon DEF WriteBack
<1>3. /\ r \in CheckerRecord /\ Good(r, ledger, passedSince[c], edited[c], approvals, passed)
      /\ LedgerTyped /\ ResultsKept /\ FreshGood(c)
  BY DEF LedgerInv, LedgerTyped
<1>4. /\ ledgerLock = c /\ Reads(r) /\ Backed(r.view, approvals, passed) /\ SameAsRead(r.view)
  BY <1>1, <1>3 DEF FreshGood
<1>5. ToWrite(r) # {} /\ r.todo = <<>> /\ Unfinished(r) = {}
  BY <1>4 DEF Reads
<1>6. task \in Task /\ task \in Items(r.tasks)
  BY <1>3, <1>5, HandFound
<1>7. /\ task.signature[1] # Unset /\ id \in Str /\ ok \in BOOLEAN
      /\ ok => <<id, task.signature>> \in approvals \cap passed
  <2>1. task \in TasksOf(r)
    BY <1>6 DEF TasksOf
  <2>2. task.signature[1] # Unset
    BY <1>3, <2>1 DEF Good, TasksKnown
  <2>3. ok => <<id, task.signature>> \in approvals \cap passed
    BY <1>3, <1>6 DEF Good, TasksEarned
  <2>4. id \in Str
    BY <1>6 DEF Task
  <2> QED BY <2>2, <2>3, <2>4
<1> HIDE DEF dead, ok
<1>8. Outcome(r.view, ledger', id, task.signature, ok)
  <2>1. /\ IsLedger(r.view) /\ Fine(r.view) /\ <<id, task.signature>> \in Known(r.view)
    BY <1>4 DEF Reads
  <2> DEFINE h == g
             i == id
             s == task.signature
             v == r.view
  <2>0. h = Chosen(v, i)
    BY Zenon DEF Chosen
  <2>2. /\ s[1] # Unset /\ ledger' = WriteResult(v, h, ok)
        /\ IsLedger(v) /\ Fine(v) /\ <<i, s>> \in Known(v) /\ ok \in BOOLEAN
    BY <1>1, <1>7, <2>1
  <2> HIDE DEF h, i, s, v
  <2>3. Outcome(v, ledger', i, s, ok)
    BY <2>0, <2>2, WritesBack
  <2> QED BY <2>3 DEF i, s, v
<1> HIDE DEF r, task, g, id
<1>9. IsLedger(ledger') /\ Fine(ledger') /\ Backed(ledger', approvals', passed')
  BY <1>1, <1>4, <1>7, <1>8 DEF Outcome
<1>10. \A d \in Checker : /\ ok => id \in passedSince'[d]
                          /\ passedSince[d] \subseteq passedSince'[d]
                          /\ edited'[d] <=> (edited[d] \/ r.view # ledger)
  <2>1. passedSince \in [Checker -> SUBSET Str] /\ edited \in [Checker -> BOOLEAN]
    BY <1>3 DEF LedgerTyped
  <2> QED BY <1>1, <2>1
<1>11. PICK s : /\ Becomes(c, s) /\ s \in CheckerRecord /\ s.at # "fresh" /\ (s.exit = 0 => s.at = "done")
                /\ Good(s, ledger', passedSince'[c], edited'[c], approvals', passed')
  <2>1. CASE Becomes(c, After(r))
    <3> DEFINE s == After(r)
    <3>1. Advances(r, s)
      BY <1>3, <1>5, <1>7, AfterAdvances
    <3> HIDE DEF s
    <3>2. TasksKnown(s) /\ TasksEarned(s, approvals', passed')
      <4>1. TasksKnown(r) /\ TasksEarned(r, approvals, passed) /\ r.at # "done"
        BY <1>1, <1>3 DEF Good
      <4> QED BY <1>1, <1>3, <1>5, <3>1, <4>1, AdvanceKnown
    <3>3. ASSUME ~edited'[c] PROVE Following(s, ledger', passedSince'[c])
      <4>1. ~edited[c] /\ r.view = ledger
        BY <1>10, <3>3
      <4>2. Following(r, ledger, passedSince[c])
        BY <1>1, <1>3, <4>1 DEF Good, Checking
      <4>3. Kept(ledger, ledger', passedSince'[c]) /\ (~ok => ~IsMet(ledger', id))
        BY <1>7, <1>8, <1>10, <4>1, WrittenKept
      <4>4. Following(r, ledger', passedSince'[c])
        BY <1>10, <4>2, <4>3, FollowsOn
      <4>5. id \in passedSince'[c] \/ ~IsMet(ledger', id)
        BY <1>7, <1>10, <4>3
      <4>6. id = AtHand(r).gate
        BY DEF id, task
      <4> QED BY <1>3, <1>5, <3>1, <4>4, <4>5, <4>6, AdvanceFollows
    <3>4. s \in CheckerRecord /\ s.at = "working" /\ s.exit = r.exit
      BY <3>1 DEF Advances
    <3>5. s.exit # 0
      BY <1>1, <1>3, <3>4 DEF Good, TasksKnown
    <3>6. Good(s, ledger', passedSince'[c], edited'[c], approvals', passed')
      BY <3>2, <3>3, <3>5 DEF Good, Verified
    <3> QED BY <2>1, <3>4, <3>5, <3>6 DEF s
  <2>2. CASE Becomes(c, dead)
    <3>1. /\ dead \in CheckerRecord /\ dead.todo = <<>> /\ dead.tasks = <<>> /\ dead.notRun = {} /\ dead.next = 1
          /\ dead.at = "dead" /\ dead.exit # 0
      BY NotStartedTyped DEF CheckerRecord, dead
    <3>2. dead.at \notin Checking /\ dead.at # "fresh" /\ (dead.exit = 0 => dead.at = "done")
      BY <3>1 DEF Checking
    <3>3. Verified(dead, passedSince'[c], edited'[c])
      BY <3>1 DEF Verified
    <3>4. Good(dead, ledger', passedSince'[c], edited'[c], approvals', passed')
      BY <3>1, <3>2, <3>3, IdleGood
    <3> QED BY <2>2, <3>1, <3>2, <3>4
  <2> QED BY <1>2, <2>1, <2>2
<1>12. checker' = [checker EXCEPT ![c] = s] /\ checker' \in [Checker -> CheckerRecord]
  BY <1>3, <1>11 DEF Becomes, LedgerTyped
<1>13. LedgerTyped'
  <2>1. acked' \in [GateId -> {"none", "met", "unmet"}]
    BY <1>1, <1>3 DEF LedgerTyped
  <2>2. passedSince' \in [Checker -> SUBSET Str]
    BY <1>1, <1>3, <1>7 DEF LedgerTyped
  <2>3. edited' \in [Checker -> BOOLEAN]
    BY <1>1, <1>3 DEF LedgerTyped
  <2> QED BY <1>9, <1>12, <2>1, <2>2, <2>3 DEF LedgerTyped
<1>14. ResultsKept'
  <2>1. ASSUME NEW x \in GateId, acked'[x] # "none"
        PROVE  StateOf(parseGates(ledger'), x) \subseteq {"abandoned"} \cup
                 IF acked'[x] = "met" THEN {"met"} ELSE {"unmet"}
    <3>1. acked \in [GateId -> {"none", "met", "unmet"}]
      BY <1>3 DEF LedgerTyped
    <3>2. CASE x = id
      <4>1. acked'[x] = IF ok THEN "met" ELSE "unmet"
        BY <1>1, <3>1, <3>2
      <4>2. StateOf(parseGates(ledger'), x) \subseteq {"abandoned", IF ok THEN "met" ELSE "unmet"}
        BY <1>8, <3>2 DEF Outcome, StatesWritten
      <4> QED BY <4>1, <4>2
    <3>3. CASE x # id
      <4>1. acked'[x] = acked[x]
        BY <1>1, <3>1, <3>3
      <4>2. r.view = ledger
        BY <1>4, <2>1, <4>1 DEF SameAsRead
      <4>3. StateOf(parseGates(ledger'), x) = StateOf(parseGates(ledger), x)
        BY <1>8, <3>3, <4>2 DEF Outcome, StatesWritten
      <4>4. StateOf(parseGates(ledger), x) \subseteq {"abandoned"} \cup
              IF acked[x] = "met" THEN {"met"} ELSE {"unmet"}
        BY <1>3, <2>1, <4>1, Zenon DEF ResultsKept
      <4> QED BY <4>1, <4>3, <4>4
    <3> QED BY <3>2, <3>3
  <2>2. ~parseGates(ledger').errors
    BY <1>9 DEF Fine
  <2> QED BY <2>1, <2>2, Zenon DEF ResultsKept
<1>15. ASSUME NEW d \in Checker
       PROVE  FreshGood(d)' /\ Good(checker'[d], ledger', passedSince'[d], edited'[d], approvals', passed')
  <2>1. CASE d = c
    <3>1. checker'[d] = s
      BY <1>3, <1>12, <2>1 DEF LedgerTyped
    <3>2. FreshGood(d)'
      BY <1>11, <3>1 DEF FreshGood
    <3> QED BY <1>11, <2>1, <3>1, <3>2
  <2>2. CASE d # c
    <3>1. checker'[d] = checker[d]
      BY <1>3, <1>12, <2>2 DEF LedgerTyped
    <3>2. FreshGood(d) /\ Good(checker[d], ledger, passedSince[d], edited[d], approvals, passed)
      BY DEF LedgerInv
    <3>3. FreshGood(d)'
      BY <1>4, <2>2, <3>1, <3>2 DEF FreshGood
    <3>4. edited'[d] \/ Kept(ledger, ledger', passedSince'[d])
      <4>1. SUFFICES ASSUME ~edited'[d] PROVE Kept(ledger, ledger', passedSince'[d])
        OBVIOUS
      <4>2. r.view = ledger
        BY <1>10, <4>1
      <4> QED BY <1>7, <1>8, <1>10, <4>2, WrittenKept
    <3>5. edited[d] => edited'[d]
      BY <1>10
    <3>6. passedSince[d] \subseteq passedSince'[d] /\ approvals \subseteq approvals' /\ passed \subseteq passed'
      BY <1>1, <1>10
    <3>7. Good(checker[d], ledger', passedSince'[d], edited'[d], approvals', passed')
      BY <3>2, <3>4, <3>5, <3>6, GoodOn
    <3> QED BY <3>1, <3>3, <3>7
  <2> QED BY <2>1, <2>2
<1> QED BY <1>9, <1>13, <1>14, <1>15 DEF LedgerInv

(* The verdict. *)

LEMMA CommandSettled ==
  ASSUME NEW r \in CheckerRecord, NEW lines, NEW since, NEW doc, doc = parseGates(lines), NEW g \in Gates(doc),
         r.mode = "reverify", r.todo = <<>>, ToWrite(r) = {}, ~r.error, ExtraUnmet(r, doc) = {},
         \A h \in Gates(doc) : gateState(h, doc.abandoned) = "met",
         Following(r, lines, since), g.check # Unset
  PROVE  g.id \in since
<1> DEFINE id == g.id
<1>1. HasTasks(r, lines) /\ NewlyMet(r, lines, since) /\ Settled(r, lines, since)
  BY DEF Following
<1>2. StateOf(doc, id) = {"met"} /\ IsMet(lines, id)
  <2>1. g \in GateNamed(doc, id) /\ GateNamed(doc, id) \subseteq Gates(doc)
    BY DEF GateNamed
  <2>2. StateOf(doc, id) = {"met"}
    BY <2>1 DEF StateOf
  <2> QED BY <2>2 DEF IsMet, StatesIn
<1>3. <<id, signature(g)>> \in Known(lines) /\ signature(g)[1] # Unset /\ id \notin AbandonedIn(lines)
  <2>1. id \notin doc.abandoned
    BY DEF gateState
  <2> QED BY <2>1 DEF Known, AbandonedIn, signature
<1>4. PICK t \in TasksOf(r) : t.gate = id
  BY <1>1, <1>3 DEF HasTasks
<1>5. t.wasMet \/ id \in since
  BY <1>1, <1>2, <1>4 DEF NewlyMet
<1>6. id \notin r.stale /\ ~(t \in r.notRun /\ t.wasMet)
  <2>1. \A x : StateOf(doc, x) \in {{}, {"met"}} =>
          x \notin {u.gate : u \in {v \in r.notRun : r.mode = "reverify" /\ v.wasMet}} \cup r.stale
    BY Zenon DEF ExtraUnmet
  <2>2. id \notin {u.gate : u \in {v \in r.notRun : r.mode = "reverify" /\ v.wasMet}} \cup r.stale
    BY <1>2, <2>1
  <2> QED BY <1>4, <2>2
<1>7. Items(r.todo) = {}
  BY DEF Items
<1>8. CASE t \in Items(r.tasks) /\ t.wasMet
  <2>1. PICK i \in DOMAIN r.tasks : t = r.tasks[i]
    BY <1>8 DEF Items
  <2>2. Written(r, t)
    BY <1>8 DEF Written
  <2>3. i < r.next
    <3>1. r.tasks \in Seq(Task) /\ r.next \in Nat /\ i \notin ToWrite(r)
      BY DEF CheckerRecord
    <3>2. i \in 1..Len(r.tasks) /\ Len(r.tasks) \in Nat
      BY <3>1
    <3>3. i \notin r.next..Len(r.tasks)
      BY <2>1, <2>2, <3>1, <3>2, Zenon DEF ToWrite
    <3> QED BY <3>1, <3>2, <3>3
  <2> QED BY <1>1, <1>2, <1>4, <1>6, <2>1, <2>2, <2>3 DEF Settled
<1> QED BY <1>4, <1>5, <1>6, <1>7, <1>8 DEF TasksOf

LEMMA VerdictKeeps ==
  ASSUME LedgerInv, NEW c \in Checker, GiveVerdict(c) PROVE LedgerInv'
<1> DEFINE r == checker[c]
           doc == parseGates(ledger)
           states == {gateState(g, doc.abandoned) : g \in Gates(doc)}
           allMet == states = {"met"} /\ ExtraUnmet(r, doc) = {}
<1>1. /\ r.at = "working" /\ r.todo = <<>> /\ ToWrite(r) = {}
      /\ ledger' = ledger /\ ledgerLock' = ledgerLock /\ approvals' = approvals /\ passed' = passed
      /\ passedSince' = passedSince /\ edited' = edited /\ acked' = acked
  BY DEF GiveVerdict, Ran, Others, Ghosts
<1>2. r \in CheckerRecord /\ Good(r, ledger, passedSince[c], edited[c], approvals, passed) /\ IsLedger(ledger)
  BY DEF LedgerInv, LedgerTyped
<1>3. PICK dispatch \in DispatchStatus :
        Becomes(c, [NotStarted EXCEPT !.at = "done", !.mode = r.mode, !.view = ledger, !.exit =
          IF r.error \/ doc.errors \/ dispatch = "invalid" \/ r.infra THEN 2
          ELSE IF states = {"met"} /\ ExtraUnmet(r, doc) = {} /\ dispatch = "none" THEN 0 ELSE 1])
  BY Zenon DEF GiveVerdict
<1> DEFINE code == IF r.error \/ doc.errors \/ dispatch = "invalid" \/ r.infra THEN 2
                   ELSE IF states = {"met"} /\ ExtraUnmet(r, doc) = {} /\ dispatch = "none" THEN 0 ELSE 1
           s == [NotStarted EXCEPT !.at = "done", !.mode = r.mode, !.view = ledger, !.exit = code]
<1>4. checker' = [checker EXCEPT ![c] = s]
  BY <1>3, Zenon DEF Becomes
<1>5. code \in {0, 1, 2} /\ (code = 0 => ~r.error /\ allMet)
  OBVIOUS
<1> HIDE DEF code
<1>6. /\ s \in CheckerRecord /\ s.todo = <<>> /\ s.tasks = <<>> /\ s.notRun = {} /\ s.next = 1
      /\ s.at = "done" /\ s.exit = code /\ s.mode = r.mode /\ s.view = ledger
  <2> HIDE DEF r
  <2> QED BY <1>2, <1>5, NotStartedTyped DEF CheckerRecord, IsLedger
<1> HIDE DEF s
<1>7. Verified(s, passedSince[c], edited[c])
  <2> SUFFICES ASSUME code = 0, r.mode = "reverify", ~edited[c], NEW g \in Gates(doc), g.check # Unset
               PROVE  g.id \in passedSince[c]
    BY <1>6 DEF Verified
  <2>1. Following(r, ledger, passedSince[c])
    BY <1>1, <1>2 DEF Good, Checking
  <2>2. ~r.error /\ ExtraUnmet(r, doc) = {} /\ \A h \in Gates(doc) : gateState(h, doc.abandoned) = "met"
    BY <1>5
  <2> HIDE DEF doc, r
  <2>3. doc = parseGates(ledger)
    BY DEF doc
  <2> QED BY <1>1, <1>2, <2>1, <2>2, <2>3, CommandSettled
<1>8. s.at \notin Checking /\ s.at # "fresh"
  BY <1>6 DEF Checking
<1>9. Good(s, ledger, passedSince[c], edited[c], approvals', passed')
  BY <1>6, <1>7, <1>8, IdleGood
<1>10. /\ checker' = Sets(checker, c, s) /\ passedSince = Sets(passedSince, c, passedSince[c])
       /\ edited = Sets(edited, c, edited[c]) /\ passedSince[c] \in SUBSET Str /\ edited[c] \in BOOLEAN
       /\ LocksStay(c, ledgerLock)
  BY <1>4, LedgerUntouched
<1>11. approvals \subseteq approvals' /\ passed \subseteq passed'
  BY <1>1
<1> QED BY <1>1, <1>6, <1>8, <1>9, <1>10, <1>11, QuietLedgerStep

LEMMA LedgerInvStep ==
  ASSUME LedgerAssumption, LedgerInv, [LedgerNext]_ledgerVars PROVE LedgerInv'
<1>1. ASSUME NEW c \in Checker, StartChecker(c) PROVE LedgerInv'
  BY <1>1, StartKeeps
<1>2. ASSUME NEW c \in Checker, Approve(c) PROVE LedgerInv'
  BY <1>2, ApproveKeeps
<1>3. ASSUME NEW c \in Checker, RunEnds(c) PROVE LedgerInv'
  BY <1>3, RunEndsKeeps
<1>4. ASSUME NEW c \in Checker, ReadFresh(c) PROVE LedgerInv'
  BY <1>4, ReadFreshKeeps
<1>5. ASSUME NEW c \in Checker, WriteBack(c) PROVE LedgerInv'
  BY <1>5, WriteBackKeeps
<1>6. ASSUME NEW c \in Checker, CheckerDies(c) PROVE LedgerInv'
  BY <1>6, DiesKeeps
<1>7. ASSUME NEW c \in Checker, GiveVerdict(c) PROVE LedgerInv'
  BY <1>7, VerdictKeeps
<1>8. CASE RemoveLedgerLock
  BY <1>8, RemoveLockKeeps
<1>9. CASE Save
  BY <1>9, SaveKeeps
<1>10. CASE UNCHANGED ledgerVars
  BY <1>10 DEF ledgerVars, LedgerInv, LedgerTyped, ResultsKept, FreshGood, SameAsRead
<1> QED BY <1>1, <1>2, <1>3, <1>4, <1>5, <1>6, <1>7, <1>8, <1>9, <1>10 DEF LedgerNext

LEMMA LedgerInvGives == ASSUME LedgerInv PROVE ResultsEarned
<1>1. ResultsKept
  BY DEF LedgerInv
<1>2. EvidenceIsOfCommand
  <2>1. Backed(ledger, approvals, passed)
    BY DEF LedgerInv
  <2> QED BY <2>1, Zenon DEF Backed, EvidenceIsOfCommand
<1>3. AllMetWasVerified
  BY DEF LedgerInv, Good, Verified, AllMetWasVerified
<1> QED BY <1>1, <1>2, <1>3 DEF ResultsEarned

\* For every number of checkers, gates, jobs and saves and every text the editor saves,
\* wherever checkers die: while the editor does not save, no result that was written back is
\* lost; evidence stands under the command that ran, was approved and passed; and after
\* ALL MET of a --reverify every command of the ledger was written as passed since it began.
THEOREM ResultsAreEarned == ASSUME LedgerAssumption PROVE LedgerSpec => []ResultsEarned
<1>1. LedgerInit => LedgerInv
  BY LedgerInvInit
<1>2. LedgerInv /\ [LedgerNext]_ledgerVars => LedgerInv'
  BY LedgerInvStep
<1>3. LedgerInv => ResultsEarned
  BY LedgerInvGives
<1> QED BY <1>1, <1>2, <1>3, PTL DEF LedgerSpec
=============================================================================
