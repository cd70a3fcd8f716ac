--------------------------- MODULE GateCoordination ---------------------------
(***************************************************************************)
(* What concurrent agents of one repository share (.agents/skills/unlazy):  *)
(* the dispatch wave of a scope (lib/dispatch.mjs) and the leases on paths  *)
(* (lib/gates.mjs), each a file that one-shot processes read, change and    *)
(* replace under a lock file. Processes die anywhere, clocks step back, and *)
(* a person removes the lock of a process that is gone.                     *)
(***************************************************************************)
EXTENDS Integers, Sequences, FiniteSets, FiniteSetsExt

CONSTANTS
  Process, Leaf, Handle,
  Owns,       \* Owns[l]: the paths leaf l claims, as sequences of segments
  Wild,       \* segments with a wildcard
  RepoPath,   \* paths of the repository, to say what a lease covers
  MaxCommands \* commands given to all processes

VARIABLES
  wave,     \* dispatch.json, its one wave
  leases,   \* leases[l]: the record of a leaf, or no paths
  fileLock, \* fileLock[f]: who made the lock file of f
  process,  \* command, what it read
  told,     \* what commands told their caller: started with a handle, returned, claimed
  commands

coordinationVars == <<wave, leases, fileLock, process, told, commands>>

NoOne == "-"
CoordinationAssumption ==
  /\ NoOne \notin Leaf \cup Handle \cup Process /\ MaxCommands \in Nat /\ Leaf # {}
  /\ \A l \in Leaf : Owns[l] # {} /\ \A glob \in Owns[l] : Len(glob) \in Nat
  /\ \A path \in RepoPath : Len(path) \in Nat
NoWave == [state |-> "none", started |-> [l \in Leaf |-> NoOne], returned |-> {}]
NoCommand == [at |-> "idle", cmd |-> [file |-> NoOne], read |-> {}]

CoordinationInit ==
  /\ wave = NoWave /\ leases = [l \in Leaf |-> {}]
  /\ fileLock = [f \in {"dispatch", "leases"} |-> NoOne]
  /\ process = [p \in Process |-> NoCommand]
  /\ told = [started |-> NoWave.started, returned |-> {}, holds |-> {}]
  /\ commands = 0
-----------------------------------------------------------------------------
(* dispatch-check.mjs: open, start, seal, return and abandon. *)

\* A command is refused (fail) or gives the wave to write; None says refused.
Missing(w) == {l \in Leaf : w.started[l] = NoOne}
Opened(w) == IF w.state = "none" THEN {[NoWave EXCEPT !.state = "open"]} ELSE {}

Started(w, l, h) ==
  IF w.state = "open" /\ w.started[l] = NoOne /\ \A m \in Leaf : w.started[m] # h
  THEN {[w EXCEPT !.started[l] = h]} ELSE {}
Sealed(w) == IF w.state = "open" /\ Missing(w) = {} THEN {[w EXCEPT !.state = "sealed"]} ELSE {}
Returned(w, l) ==
  IF w.state = "sealed" /\ l \notin w.returned
  THEN {[w EXCEPT !.returned = @ \cup {l},
                  !.state = IF w.returned \cup {l} = Leaf THEN "complete" ELSE @]} ELSE {}
Abandoned(w) == IF w.state \in {"open", "sealed"} THEN {[w EXCEPT !.state = "abandoned"]} ELSE {}

DispatchCommand ==
  [file : {"dispatch"}, do : {"open", "seal", "abandon"}, leaf : {NoOne}, handle : {NoOne}]
  \cup [file : {"dispatch"}, do : {"start"}, leaf : Leaf, handle : Handle]
  \cup [file : {"dispatch"}, do : {"return"}, leaf : Leaf, handle : {NoOne}]

\* updateDispatch, between reading the state and writing it.
Updated(w, cmd) ==
  CASE cmd.do = "open" -> Opened(w)
    [] cmd.do = "start" -> Started(w, cmd.leaf, cmd.handle)
    [] cmd.do = "seal" -> Sealed(w)
    [] cmd.do = "return" -> Returned(w, cmd.leaf)
    [] cmd.do = "abandon" -> Abandoned(w)

\* validateState, without the times: on reading, and before every write.
ValidWave(w) ==
  /\ w.state \in {"none", "open"} => w.returned = {}
  /\ w.state \in {"sealed", "complete"} => Missing(w) = {}
  /\ (w.state = "complete") = (w.returned = Leaf)
  /\ w.returned # {} => Missing(w) = {}
  /\ \A l, m \in Leaf : w.started[l] = w.started[m] /\ w.started[l] # NoOne => l = m
-----------------------------------------------------------------------------
(* gate-check.mjs --claim and --release. *)

\* globsOverlap: two patterns are disjoint only if literal segments differ first.
SegmentsDiffer(a, b, i) == a[i] \notin Wild /\ b[i] \notin Wild /\ a[i] # b[i]

\* Mutant: patterns of different length do not overlap.
OverlapSameLength(a, b) ==
  Len(a) = Len(b) /\ ~\E i \in 1 .. Min({Len(a), Len(b)}) : SegmentsDiffer(a, b, i)

globsOverlap(a, b) ==
  ~\E i \in 1 .. Min({Len(a), Len(b)}) :
     SegmentsDiffer(a, b, i) /\ \A j \in 1 .. i - 1 : a[j] \notin Wild /\ b[j] \notin Wild

LeaseCommand ==
  [file : {"leases"}, do : {"claim"}, leaf : Leaf] \cup [file : {"leases"}, do : {"release"}, leaf : Leaf \cup {NoOne}]

\* claimLeases: refused if the leaf has a lease, or a pattern overlaps any lease;
\* releaseLeases: those of one leaf or of the whole scope.
Conflict(held, l) == \E m \in Leaf : \E a \in Owns[l], b \in held[m] : globsOverlap(a, b)
LeasesAfter(held, cmd) ==
  IF cmd.do = "claim"
  THEN IF held[cmd.leaf] # {} \/ Conflict(held, cmd.leaf) THEN {}
       ELSE {[held EXCEPT ![cmd.leaf] = Owns[cmd.leaf]]}
  ELSE {[l \in Leaf |-> IF cmd.leaf \in {l, NoOne} THEN {} ELSE held[l]]}
-----------------------------------------------------------------------------
Set(p, r) == process' = [process EXCEPT ![p] = r]

\* Mutant: a lock file that is in the way is replaced.
AnyLock(f) == TRUE

\* withFileLock: openSync "wx". Whoever finds a lock file waits for it to go, or gives up
\* in time, which leaves everything as it was.
Free(f) == fileLock[f] = NoOne
TakeFileLock(p) ==
  /\ process[p].at = "idle" /\ commands < MaxCommands /\ commands' = commands + 1
  /\ \E cmd \in DispatchCommand \cup LeaseCommand :
       /\ Free(cmd.file) /\ fileLock' = [fileLock EXCEPT ![cmd.file] = p]
       /\ Set(p, [NoCommand EXCEPT !.at = "holding", !.cmd = cmd])
  /\ UNCHANGED <<wave, leases, told>>

\* The file is read and checked, and the change refused or prepared; validTime refuses
\* a clock behind the times on file, and a full disk fails the write.
Read(p) ==
  LET cmd == process[p].cmd
      changed == IF cmd.file = "dispatch" THEN {w \in Updated(wave, cmd) : ValidWave(w)}
                 ELSE LeasesAfter(leases, cmd) IN
  /\ process[p].at = "holding"
  /\ \/ changed # {} /\ Set(p, [process[p] EXCEPT !.at = "writing", !.read = changed])
     \/ Set(p, [process[p] EXCEPT !.at = "refused"])
  /\ UNCHANGED <<wave, leases, fileLock, told, commands>>

\* writeAtomic replaces a whole file at once: the wave's, or that of one lease; released
\* leases are deleted.
Write(p) ==
  LET r == process[p] IN
  /\ r.at = "writing" /\ Set(p, [r EXCEPT !.at = "done", !.read = {}])
  /\ IF r.cmd.file = "dispatch" THEN wave' \in r.read /\ UNCHANGED <<leases, told>>
     ELSE /\ leases' \in {[l \in Leaf |-> IF r.cmd.leaf \in {l, NoOne} THEN new[l] ELSE leases[l]] : new \in r.read}
          /\ told' = [told EXCEPT !.holds = {l \in @ : leases'[l] # {}}]
          /\ UNCHANGED wave
  /\ UNCHANGED <<fileLock, commands>>

\* The finally of withFileLock: the lock file goes if it is still the process's own; then
\* the status log, whose failure is only a warning, and the answer.
Told(cmd) ==
  CASE cmd.do = "start" -> [told EXCEPT !.started[cmd.leaf] = cmd.handle]
    [] cmd.do = "return" -> [told EXCEPT !.returned = @ \cup {cmd.leaf}]
    [] cmd.do = "claim" -> [told EXCEPT !.holds = @ \cup {cmd.leaf}]
    [] OTHER -> told
FileUnlocked(p, f) == IF fileLock[f] = p THEN [fileLock EXCEPT ![f] = NoOne] ELSE fileLock
LeaveFileLock(p) ==
  /\ process[p].at \in {"done", "refused"}
  /\ fileLock' = FileUnlocked(p, process[p].cmd.file)
  /\ told' = IF process[p].at = "done" THEN Told(process[p].cmd) ELSE told
  /\ Set(p, NoCommand) /\ UNCHANGED <<wave, leases, commands>>

\* A process dies and leaves its lock file to a person.
Crash(p) ==
  /\ process[p].at \in {"holding", "writing", "done"}
  /\ Set(p, [NoCommand EXCEPT !.at = "dead"]) /\ UNCHANGED <<wave, leases, fileLock, told, commands>>
RemoveFileLock(f) ==
  /\ fileLock[f] \in Process /\ process[fileLock[f]].at = "dead"
  /\ fileLock' = [fileLock EXCEPT ![f] = NoOne] /\ UNCHANGED <<wave, leases, process, told, commands>>

CoordinationNext ==
  \/ \E p \in Process : TakeFileLock(p) \/ Read(p) \/ Write(p) \/ LeaveFileLock(p) \/ Crash(p)
  \/ \E f \in DOMAIN fileLock : RemoveFileLock(f)

CoordinationSpec == CoordinationInit /\ [][CoordinationNext]_coordinationVars
-----------------------------------------------------------------------------
\* No launch and no return that was acknowledged is lost, nobody returned before every
\* leaf was launched, and no two leaves were launched under one handle.
WaveKeepsEvents ==
  /\ ValidWave(wave)
  /\ \A l \in Leaf : told.started[l] # NoOne => wave.started[l] = told.started[l]
  /\ told.returned \subseteq wave.returned
  /\ told.returned # {} => Missing(wave) = {}

\* A claim that was granted holds until it is released, and no path of the repository is
\* leased to two leaves: a pattern covers what it matches segment by segment and everything
\* below.
Covers(glob, path) ==
  Len(glob) <= Len(path) /\ \A i \in 1..Len(glob) : glob[i] \in Wild \/ glob[i] = path[i]
LeasesDisjoint ==
  /\ \A l \in told.holds : leases[l] = Owns[l]
  /\ \A l, m \in Leaf : l # m =>
    ~\E a \in leases[l], b \in leases[m] : \E path \in RepoPath : Covers(a, path) /\ Covers(b, path)

SharedFilesAgree == WaveKeepsEvents /\ LeasesDisjoint
=============================================================================
