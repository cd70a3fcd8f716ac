------------------------------- MODULE StopHook -------------------------------
(***************************************************************************)
(* The optional Stop hook (.agents/skills/unlazy/scripts/stop-hook.mjs): it *)
(* blocks a session that stops while its pipeline has open work, and lets   *)
(* it go after MAX_BLOCKS blocks without progress. Its counters are a file  *)
(* per pipeline that the hooks of all sessions share under a lock.          *)
(***************************************************************************)
EXTENDS Integers, FiniteSets, FiniteSetsExt, Functions

CONSTANTS
  Session, Scope,
  Hook,        \* hook processes; a session may stop twice at once
  SessionOf,   \* SessionOf[h]
  Wanted,      \* Wanted[s]: the scope its hook was installed for, or none
  MAX_BLOCKS,
  MaxSessions, \* counters kept in one file, 64 in the code
  MaxHookChanges \* changes of scopes, bindings and work, deaths of hooks, and blocks
                 \* that are not counted

HookAssumption ==
  /\ MAX_BLOCKS \in Nat \ {0} /\ MaxSessions \in Nat \ {0} /\ MaxHookChanges \in Nat
  /\ SessionOf \in [Hook -> Session] /\ Wanted \in [Session -> Scope \cup {"-"}]
  /\ "-" \notin Scope \cup Session \cup Hook /\ "root" \notin Scope

VARIABLES
  scope,      \* scope[p]: absent, a real directory, or an entry that is no such thing
  boundTo,    \* boundTo[p]: the session that --bind wrote
  openWork,   \* openWork[p]: what its ledgers and waves resolve to; "done" if nothing is open
  counters,   \* counters[f]: the file's counters, by session and pipeline
  countsLock, \* countsLock[f]: the hook that made its lock file
  hook,       \* what each process decided and counts
  streak,     \* streak[s]: blocks in a row for the same work, counted or blind: on file or not
  hookChanges

pipelines == <<scope, boundTo, openWork>>
hookVars == <<pipelines, counters, countsLock, hook, streak, hookChanges>>

None == "-"
File == Scope \cup {"root"}
NoCounters == [key \in {} |-> 0]
HookAtRest == [at |-> "idle", target |-> None, hash |-> None, read |-> NoCounters]
StreakOf(p, w) == [target |-> p, hash |-> w, counted |-> 0, blind |-> 0]
NoStreak == StreakOf(None, None)

HookInit ==
  /\ scope \in [Scope -> {"absent", "real"}] /\ boundTo = [p \in Scope |-> None]
  /\ openWork = [p \in Scope |-> "open"]
  /\ counters = [f \in File |-> NoCounters] /\ countsLock = [f \in File |-> None]
  /\ hook = [h \in Hook |-> HookAtRest]
  /\ streak = [s \in Session |-> NoStreak] /\ hookChanges = 0
-----------------------------------------------------------------------------
(* resolveTarget for a session. *)

Scopes == {p \in Scope : scope[p] = "real"}

\* The wanted pipeline unless it is gone, the only one, or the one bound to the session;
\* none if that leaves a choice.
Targets(s) ==
  IF Wanted[s] # None THEN IF scope[Wanted[s]] # "absent" THEN {Wanted[s]} ELSE {}
  ELSE IF Cardinality(Scopes) = 1 THEN Scopes
  ELSE LET owned == {p \in Scopes : boundTo[p] = s} IN IF Cardinality(owned) = 1 THEN owned ELSE {}

Invalid(p) == scope[p] = "invalid"
HashOf(p) == IF Invalid(p) THEN "invalid" ELSE openWork[p]
-----------------------------------------------------------------------------
Put(h, r) == hook' = [hook EXCEPT ![h] = r]
Let(s) == streak' = [streak EXCEPT ![s] = NoStreak]

\* The streak that a block of hook h goes on with.
StreakSoFar(h) ==
  LET t == streak[SessionOf[h]]
  IN  IF t.target = hook[h].target /\ t.hash = hook[h].hash THEN t
      ELSE StreakOf(hook[h].target, hook[h].hash)

\* A session stops: its hook allows that at once, or has something to clear or to count.
Stop(h) ==
  LET s == SessionOf[h] IN
  /\ hook[h].at = "idle"
  /\ \/ Targets(s) = {} /\ Let(s) /\ UNCHANGED hook
     \/ \E p \in Targets(s) :
          /\ Put(h, [HookAtRest EXCEPT !.at = IF HashOf(p) = "done" THEN "clearing" ELSE "counting",
                                      !.target = p, !.hash = HashOf(p)])
          /\ UNCHANGED streak
  /\ UNCHANGED <<pipelines, counters, countsLock, hookChanges>>

FileOf(h) == IF hook[h].hash = "invalid" THEN "root" ELSE hook[h].target

\* Mutant: one counter for all sessions of a pipeline.
AnySession(h) == <<None, hook[h].target>>

KeyOf(h) == <<SessionOf[h], hook[h].target>>

\* Mutant: every hook goes ahead, whoever holds the lock.
Ignored(f) == TRUE

\* withFileLock: the hook reads under the lock.
CountersFree(f) == countsLock[f] = None
Lock(h) ==
  /\ hook[h].at \in {"clearing", "counting"} /\ CountersFree(FileOf(h))
  /\ countsLock' = [countsLock EXCEPT ![FileOf(h)] = h]
  /\ Put(h, [hook[h] EXCEPT !.at = IF @ = "clearing" THEN "clear" ELSE "count",
                            !.read = counters[FileOf(h)]])
  /\ UNCHANGED <<pipelines, counters, streak, hookChanges>>

HookChange == hookChanges < MaxHookChanges /\ hookChanges' = hookChanges + 1

\* The lock is not had in time, or the file cannot be read or written: the session is let
\* go, unless its scope is invalid: then it is blocked, and nobody counts that.
LockFails(h) ==
  /\ hook[h].at \in {"clearing", "counting"}
  /\ Put(h, HookAtRest)
  /\ \/ hook[h].hash # "invalid" /\ Let(SessionOf[h]) /\ UNCHANGED hookChanges
     \/ /\ hook[h].hash = "invalid" /\ HookChange
        /\ streak' = [streak EXCEPT ![SessionOf[h]] = [StreakSoFar(h) EXCEPT !.blind = @ + 1]]
  /\ UNCHANGED <<pipelines, counters, countsLock>>

CountsUnlocked(h) == IF countsLock[FileOf(h)] = h THEN [countsLock EXCEPT ![FileOf(h)] = None] ELSE countsLock

\* clearSessionState; the last counter takes the file with it.
Clear(h) ==
  /\ hook[h].at = "clear"
  /\ counters' = [counters EXCEPT ![FileOf(h)] = Restrict(hook[h].read, DOMAIN hook[h].read \ {KeyOf(h)})]
  /\ countsLock' = CountsUnlocked(h) /\ Put(h, HookAtRest) /\ Let(SessionOf[h])
  /\ UNCHANGED <<pipelines, hookChanges>>

\* Blocks counted for the same work: other work, or none on file, starts anew.
BlocksCounted(h) ==
  IF KeyOf(h) \in DOMAIN hook[h].read /\ hook[h].read[KeyOf(h)].hash = hook[h].hash
  THEN hook[h].read[KeyOf(h)].blocks ELSE 0

\* One block more, not followed beyond the limit. The newest counters are kept: newest by
\* the clocks of the hooks, which may be any.
Count(h) ==
  LET s == SessionOf[h]
      blocks == Min({BlocksCounted(h) + 1, MAX_BLOCKS + 1})
      keys == DOMAIN hook[h].read \cup {KeyOf(h)}
      longer == [StreakSoFar(h) EXCEPT !.counted = @ + 1]
  IN
  /\ hook[h].at = "count"
  /\ \E kept \in SUBSET keys :
       /\ Cardinality(kept) = Min({Cardinality(keys), MaxSessions})
       /\ counters' = [counters EXCEPT ![FileOf(h)] = [key \in kept |->
            IF key = KeyOf(h) THEN [hash |-> hook[h].hash, blocks |-> blocks] ELSE hook[h].read[key]]]
       /\ streak' = [d \in Session |->
            IF \E key \in keys \ kept : key[1] = d THEN NoStreak
            ELSE IF d # s THEN streak[d]
            ELSE IF blocks > MAX_BLOCKS THEN NoStreak ELSE longer]
  /\ countsLock' = CountsUnlocked(h) /\ Put(h, HookAtRest)
  /\ UNCHANGED <<pipelines, hookChanges>>
-----------------------------------------------------------------------------
(* Agents work, scopes come and go, sessions are bound; hooks die with their lock. *)

Work(p) == HookChange /\ openWork' \in {[openWork EXCEPT ![p] = w] : w \in {"open", "less", "done"}}
           /\ UNCHANGED <<scope, boundTo, counters, countsLock, hook, streak>>
ChangeScope(p) == HookChange /\ scope' \in {[scope EXCEPT ![p] = v] : v \in {"absent", "real", "invalid"}}
                  /\ UNCHANGED <<boundTo, openWork, counters, countsLock, hook, streak>>
Bind(p) == HookChange /\ scope[p] = "real" /\ boundTo' \in {[boundTo EXCEPT ![p] = s] : s \in Session}
           /\ UNCHANGED <<scope, openWork, counters, countsLock, hook, streak>>
Die(h) == HookChange /\ hook[h].at \in {"clear", "count"} /\ Put(h, [HookAtRest EXCEPT !.at = "dead"])
          /\ UNCHANGED <<pipelines, counters, countsLock, streak>>
RemoveCountsLock(f) == countsLock[f] \in Hook /\ hook[countsLock[f]].at = "dead"
                       /\ countsLock' = [countsLock EXCEPT ![f] = None]
                       /\ UNCHANGED <<pipelines, counters, hook, streak, hookChanges>>

HookNext ==
  \/ \E h \in Hook : Stop(h) \/ Lock(h) \/ LockFails(h) \/ Clear(h) \/ Count(h) \/ Die(h)
  \/ \E p \in Scope : Work(p) \/ ChangeScope(p) \/ Bind(p)
  \/ \E f \in File : RemoveCountsLock(f)

HookSpec == HookInit /\ [][HookNext]_hookVars
-----------------------------------------------------------------------------
Blocks(s) == streak[s].counted + streak[s].blind
Uncounted(s) == IF streak[s].hash = "invalid" THEN streak[s].blind ELSE 0

\* However many sessions, pipelines and hooks count at once, a session that stops again
\* and again without progress is never blocked more than MAX_BLOCKS times in a row, as
\* long as the file keeps its counter, but for the blocks of a hook that cannot count: it
\* issues those of an invalid scope only, and they come on top, however many.
HookReleases == \A s \in Session : Blocks(s) <= MAX_BLOCKS + Uncounted(s)
=============================================================================
