------------------------------ MODULE GateLedger ------------------------------
(***************************************************************************)
(* The development gates (.agents/skills/unlazy): gate-check.mjs runs the   *)
(* commands of a Markdown ledger that a person approved and writes their    *)
(* results back, while other checkers write theirs, an editor saves the     *)
(* file without any lock, and checkers die. All checkers have the same      *)
(* environment (shell, PATH, time and output limits), a part of every       *)
(* oracle's signature. CheckRun has the commands; here they pass or not.    *)
(***************************************************************************)
EXTENDS Integers, Sequences, FiniteSets, SequencesExt

CONSTANTS
  Checker,
  GateId,   \* the gates whose results are followed
  Draft,    \* what the editor may save: ledgers as sequences of lines
  Option,   \* how each checker may be called: run, reverify or status, with --approve or not
  Jobs,     \* --jobs
  MaxSaves  \* saves of the editor

Unset == "-"
Attributes == {"check", "expect", "cwd", "evidence"}
\* What an editor writes for evidence; no command is called that.
Words == {"", "pending", "by hand"}
Line(kind, id, key, value) == [kind |-> kind, id |-> id, key |-> key, value |-> value]
IsText(lines) ==
  /\ lines \in Seq([kind : STRING, id : STRING, key : STRING, value : STRING])
  /\ \A n \in DOMAIN lines : lines[n].kind = "attr" =>
       /\ lines[n].key \in Attributes /\ lines[n].value # Unset
       /\ lines[n].key = "check" => lines[n].value \notin Words \ {""}
Unproved(lines) ==
  \A n \in DOMAIN lines :
    lines[n].kind = "attr" /\ lines[n].key = "evidence" => lines[n].value \in Words

ASSUME LedgerAssumption ==
  /\ Unset \notin Checker /\ Jobs \in Nat \ {0} /\ MaxSaves \in Nat
  /\ \A lines \in Draft : IsText(lines) /\ Unproved(lines)
  /\ Option \in [Checker -> SUBSET [mode : {"run", "reverify", "status"}, approve : BOOLEAN]]
  /\ \A c \in Checker : [mode |-> "status", approve |-> TRUE] \notin Option[c]

VARIABLES
  ledger,      \* the file
  ledgerLock,  \* its lock file: the checker that made it, or none
  approvals,   \* approval records: gate and signature
  checker,     \* what each process knows
  saves,
  acked,       \* since the last save: the result last written for each gate
  passedSince, \* passedSince[c]: gates written as passed since c began
  edited,      \* edited[c]: the editor's text came or went since c began
  passed       \* gate and signature of every run that passed

ledgerVars == <<ledger, ledgerLock, approvals, checker, saves, acked, passedSince, edited, passed>>
-----------------------------------------------------------------------------
(* parseGates. A line has a kind, and where it matters a gate, an attribute's *)
(* key and a value; a gate's value is its box. An evidence that a checker     *)
(* wrote is the command it ran.                                               *)

GateOn(n, line) ==
  [id |-> line.id, line |-> n, checked |-> line.value = "x", check |-> Unset,
   expect |-> Unset, cwd |-> Unset, evidence |-> Unset, evidenceLine |-> 0]
Detached(p) == [p EXCEPT !.errors = TRUE, !.current = 0]

\* Attributes belong to the gate above them, whatever text lies between.
WithAttribute(g, n, line) ==
  [[g EXCEPT ![line.key] = line.value] EXCEPT
     !.evidenceLine = IF line.key = "evidence" THEN n ELSE @]
Attribute(p, n, line) ==
  IF p.current = 0 THEN [p EXCEPT !.errors = TRUE]
  ELSE [p EXCEPT !.gates[p.current] = WithAttribute(@, n, line),
                 !.errors = @ \/ p.gates[p.current][line.key] # Unset]

ParseLine(p, n, line) ==
  IF p.fenced \/ line.kind = "fence" THEN [p EXCEPT !.fenced = (line.kind = "fence") # @]
  ELSE CASE line.kind = "gate" ->
              [p EXCEPT !.gates = Append(@, GateOn(n, line)), !.current = Len(p.gates) + 1,
                        !.errors = @ \/ \E i \in DOMAIN p.gates : p.gates[i].id = line.id]
         [] line.kind = "attr" -> Attribute(p, n, line)
         [] line.kind \in {"unindented", "indentedAbandon"} -> Detached(p)
         [] line.kind = "abandon" ->
              [p EXCEPT !.errors = @ \/ line.value = "" \/ line.id \in p.abandoned,
                        !.abandoned = @ \cup IF line.value = "" THEN {} ELSE {line.id}, !.current = 0]
         [] line.kind = "owns" ->
              IF p.gates # <<>> THEN Detached(p) ELSE [p EXCEPT !.owns = @ \cup {line.value}]
         [] line.kind = "heading" -> [p EXCEPT !.current = 0]
         [] OTHER -> p

HalfRunnable(g) == (g.check \in {Unset, ""}) # (g.expect \in {Unset, ""}) \/ "" \in {g.check, g.expect}

Unparsed ==
  [gates |-> <<>>, abandoned |-> {}, owns |-> {}, errors |-> FALSE, current |-> 0, fenced |-> FALSE]
\* The lines, one after the other.
LinesParsed(lines) ==
  LET p[n \in 0..Len(lines)] == IF n = 0 THEN Unparsed ELSE ParseLine(p[n - 1], n, lines[n])
  IN  p[Len(lines)]
parseGates(lines) ==
  LET p == LinesParsed(lines)
      ids == {p.gates[i].id : i \in DOMAIN p.gates}
  IN  [p EXCEPT !.errors = @ \/ p.fenced \/ p.gates = <<>> \/ ~(p.abandoned \subseteq ids)
                             \/ \E i \in DOMAIN p.gates : HalfRunnable(p.gates[i])]

gateState(g, abandoned) ==
  IF g.id \in abandoned THEN "abandoned"
  ELSE IF ~g.checked THEN "unmet"
  ELSE IF g.evidence \in {Unset, "", "pending"} THEN "unmet-no-evidence" ELSE "met"

Gates(doc) == {doc.gates[i] : i \in DOMAIN doc.gates}
GateNamed(doc, id) == {g \in Gates(doc) : g.id = id}
StateOf(doc, id) == {gateState(g, doc.abandoned) : g \in GateNamed(doc, id)}
signature(g) == <<g.check, g.expect, g.cwd>>

\* insertOrUpdateEvidence, with the box: after the attributes that follow the gate.
EndOfAttributes(lines, g) ==
  CHOOSE n \in g.line + 1 .. Len(lines) + 1 :
    /\ n > Len(lines) \/ lines[n].kind # "attr"
    /\ \A m \in g.line + 1 .. n - 1 : lines[m].kind = "attr"
WriteResult(lines, g, ok) ==
  LET boxed == [lines EXCEPT ![g.line].value = IF ok THEN "x" ELSE " "]
      said == IF ok THEN g.check ELSE "pending"
  IN  IF g.evidenceLine # 0 THEN [boxed EXCEPT ![g.evidenceLine].value = said]
      ELSE InsertAt(boxed, EndOfAttributes(lines, g), Line("attr", Unset, "evidence", said))
-----------------------------------------------------------------------------
NotStarted ==
  [at |-> "idle", mode |-> "run", approve |-> FALSE, todo |-> <<>>, tasks |-> <<>>, notRun |-> {},
   infra |-> FALSE, next |-> 1, error |-> FALSE, stale |-> {}, view |-> <<>>, exit |-> 0 - 1]

LedgerInit ==
  /\ ledger \in Draft /\ ledgerLock = Unset /\ saves = 0
  /\ approvals \in {{}, {<<id, signature(g)>> : id \in GateId, g \in Gates(parseGates(ledger))}}
  /\ checker = [c \in Checker |-> NotStarted]
  /\ acked = [id \in GateId |-> "none"]
  /\ passedSince = [c \in Checker |-> {}] /\ edited = [c \in Checker |-> FALSE] /\ passed = {}

Becomes(c, r) == checker' = [checker EXCEPT ![c] = r]
Ghosts == <<acked, passedSince, edited, passed>>
Others == <<ledger, ledgerLock, saves>>

\* The commands to run: those not met yet, or every one of them to verify again.
Runs(doc, mode, g) ==
  /\ gateState(g, doc.abandoned) # "abandoned" /\ g.check # Unset
  /\ mode = "reverify" \/ (mode = "run" /\ gateState(g, doc.abandoned) # "met")
TaskOf(doc, g) ==
  [gate |-> g.id, signature |-> signature(g), result |-> "none",
   wasMet |-> gateState(g, doc.abandoned) = "met"]
Pending(doc, mode) ==
  LET chosen[n \in 0..Len(doc.gates)] ==
        IF n = 0 THEN <<>>
        ELSE IF Runs(doc, mode, doc.gates[n]) THEN Append(chosen[n - 1], TaskOf(doc, doc.gates[n]))
        ELSE chosen[n - 1]
  IN  chosen[Len(doc.gates)]

\* A checker starts: options, the ledger, what is pending.
StartChecker(c) ==
  /\ checker[c].at = "idle"
  /\ \E o \in Option[c] : LET doc == parseGates(ledger) IN
       Becomes(c, IF doc.errors THEN [NotStarted EXCEPT !.at = "done", !.mode = o.mode, !.exit = 2]
                  ELSE [NotStarted EXCEPT !.at = "working", !.mode = o.mode, !.approve = o.approve,
                                          !.todo = Pending(doc, o.mode), !.view = ledger])
  /\ passedSince' = [passedSince EXCEPT ![c] = {}] /\ edited' = [edited EXCEPT ![c] = FALSE]
  /\ UNCHANGED <<Others, approvals, acked, passed>>

\* Mutant: an approval of the gate counts for whatever command it has by now.
ApprovedGate(task) == \E record \in approvals : record[1] = task.gate

\* approvalExists
Approved(task) == <<task.gate, task.signature>> \in approvals

\* The next pending command: approved before, now, or not run; the store may fail at either.
Approve(c) ==
  LET r == checker[c] task == Head(r.todo) left == [r EXCEPT !.todo = Tail(@)] IN
  /\ r.at = "working" /\ r.todo # <<>>
  /\ \/ /\ Approved(task) \/ r.approve
        /\ Becomes(c, [left EXCEPT !.tasks = Append(@, task)])
        /\ approvals' = IF Approved(task) THEN approvals
                         ELSE approvals \cup {<<task.gate, task.signature>>}
     \/ /\ ~Approved(task) /\ ~r.approve
        /\ Becomes(c, [left EXCEPT !.notRun = @ \cup {task}]) /\ UNCHANGED approvals
     \/ /\ Becomes(c, [left EXCEPT !.notRun = @ \cup {task}, !.infra = TRUE]) /\ UNCHANGED approvals
  /\ UNCHANGED <<Others, Ghosts>>

\* runRolling: the first commands without a result run, as many as there are jobs.
Unfinished(r) == {i \in DOMAIN r.tasks : r.tasks[i].result = "none"}
Running(r) == {i \in Unfinished(r) : Cardinality({j \in Unfinished(r) : j < i}) < Jobs}
RunEnds(c) ==
  LET r == checker[c] IN
  /\ r.at = "working" /\ r.todo = <<>>
  /\ \E i \in Running(r), result \in {"ok", "failed"} :
       /\ Becomes(c, [r EXCEPT !.tasks[i].result = result])
       /\ passed' = IF result = "ok" THEN passed \cup {<<r.tasks[i].gate, r.tasks[i].signature>>} ELSE passed
  /\ UNCHANGED <<Others, approvals, acked, passedSince, edited>>
-----------------------------------------------------------------------------
(* The results, one after the other, each under the file's lock. *)

\* What passed is written, and what was met and failed now.
Written(r, task) == task.result = "ok" \/ (r.mode = "reverify" /\ task.wasMet)
Ran(r) == r.at = "working" /\ r.todo = <<>> /\ Unfinished(r) = {}
ToWrite(r) == {i \in r.next .. Len(r.tasks) : Written(r, r.tasks[i])}
First(S) == CHOOSE i \in S : \A j \in S : i <= j
AtHand(r) == r.tasks[First(ToWrite(r))]
After(r) == [r EXCEPT !.at = "working", !.next = First(ToWrite(r)) + 1]

\* Mutant: the text loaded at the start is still good.
TextAtStart(c) == checker[c].view

\* The text as it is now, under the lock.
TextNow(c) == ledger

\* readStableRegularFile refuses a file that is replaced while it is read.
MayBeReplaced == saves > 0

\* withFileLock gives up after a time limit: it takes nobody's lock. Under the lock a
\* fresh read finds the gate with the command that ran, or discards the result.
ReadFresh(c) ==
  LET r == checker[c] task == AtHand(r) doc == parseGates(TextNow(c))
      same == {g \in GateNamed(doc, task.gate) : signature(g) = task.signature} IN
  /\ Ran(r) /\ ToWrite(r) # {}
  /\ \/ /\ ledgerLock = Unset /\ ~doc.errors /\ same # {}
        /\ ledgerLock' = c /\ Becomes(c, [r EXCEPT !.at = "fresh", !.view = TextNow(c)])
     \/ /\ ledgerLock = Unset /\ ~doc.errors /\ same = {}
        /\ Becomes(c, [After(r) EXCEPT !.stale = @ \cup {task.gate}]) /\ UNCHANGED ledgerLock
     \/ /\ ledgerLock # Unset \/ doc.errors \/ MayBeReplaced
        /\ Becomes(c, [After(r) EXCEPT !.error = TRUE]) /\ UNCHANGED ledgerLock
  /\ UNCHANGED <<ledger, saves, approvals, Ghosts>>

\* writeAtomic of the whole text, then the lock file goes, unless the checker dies. The
\* editor knows no lock: what it saved since the read is overwritten.
WriteBack(c) ==
  LET r == checker[c] task == AtHand(r) ok == task.result = "ok"
      g == CHOOSE gate \in GateNamed(parseGates(r.view), task.gate) : TRUE
      overwritten == r.view # ledger IN
  /\ r.at = "fresh"
  /\ ledger' = WriteResult(r.view, g, ok)
  /\ \/ Becomes(c, After(r)) /\ ledgerLock' = Unset
     \/ Becomes(c, [NotStarted EXCEPT !.at = "dead"]) /\ UNCHANGED ledgerLock
  /\ acked' = [acked EXCEPT ![task.gate] = IF ok THEN "met" ELSE "unmet"]
  /\ passedSince' = [d \in Checker |-> IF ok THEN passedSince[d] \cup {task.gate} ELSE passedSince[d]]
  /\ edited' = [d \in Checker |-> edited[d] \/ overwritten]
  /\ UNCHANGED <<saves, approvals, passed>>

\* A checker that dies leaves its lock file, which a person removes afterwards.
CheckerDies(c) ==
  /\ checker[c].at = "fresh"
  /\ Becomes(c, [NotStarted EXCEPT !.at = "dead"]) /\ UNCHANGED <<Others, approvals, Ghosts>>
RemoveLedgerLock ==
  /\ ledgerLock \in Checker /\ checker[ledgerLock].at = "dead"
  /\ ledgerLock' = Unset /\ UNCHANGED <<ledger, saves, approvals, checker, Ghosts>>
-----------------------------------------------------------------------------
(* The verdict. *)

\* Mutant: what was met and could not be run again still counts as met.
UnverifiedButMet(r, doc) == {id \in r.stale : StateOf(doc, id) \in {{}, {"met"}}}

\* extraUnmet: met before and not run again, or whose result was discarded.
ExtraUnmet(r, doc) ==
  LET skipped == {t.gate : t \in {u \in r.notRun : r.mode = "reverify" /\ u.wasMet}}
  IN  {id \in skipped \cup r.stale : StateOf(doc, id) \in {{}, {"met"}}}

\* dispatchStatus of the scope's waves.
DispatchStatus == {"none", "blocking", "abandoned", "invalid"}

\* The ledger is read once more, and the dispatch state of the scope.
GiveVerdict(c) ==
  LET r == checker[c] doc == parseGates(ledger)
      states == {gateState(g, doc.abandoned) : g \in Gates(doc)} IN
  /\ Ran(r) /\ ToWrite(r) = {}
  /\ \E dispatch \in DispatchStatus :
       Becomes(c, [NotStarted EXCEPT !.at = "done", !.mode = r.mode, !.view = ledger, !.exit =
         IF r.error \/ doc.errors \/ dispatch = "invalid" \/ r.infra THEN 2
         ELSE IF states = {"met"} /\ ExtraUnmet(r, doc) = {} /\ dispatch = "none" THEN 0 ELSE 1])
  /\ UNCHANGED <<Others, approvals, Ghosts>>

\* The editor saves a draft over whatever is there.
Save ==
  /\ saves < MaxSaves /\ saves' = saves + 1
  /\ ledger' \in Draft
  /\ acked' = [id \in GateId |-> "none"] /\ edited' = [c \in Checker |-> TRUE]
  /\ UNCHANGED <<ledgerLock, approvals, checker, passedSince, passed>>

LedgerNext ==
  \/ \E c \in Checker :
       \/ StartChecker(c) \/ Approve(c) \/ RunEnds(c)
       \/ ReadFresh(c) \/ WriteBack(c) \/ CheckerDies(c) \/ GiveVerdict(c)
  \/ RemoveLedgerLock \/ Save
LedgerSpec == LedgerInit /\ [][LedgerNext]_ledgerVars
-----------------------------------------------------------------------------
\* What checkers wrote last is what the ledger says, whatever other checkers wrote:
\* the text still parses and no result was lost.
ResultsKept ==
  LET doc == parseGates(ledger) IN
  \A id \in GateId : acked[id] # "none" =>
    /\ ~doc.errors
    /\ StateOf(doc, id) \subseteq {"abandoned"} \cup
         IF acked[id] = "met" THEN {"met"} ELSE {"unmet"}

\* A checker's evidence stands under the command that ran, was approved, and passed.
EvidenceIsOfCommand ==
  LET doc == parseGates(ledger) IN
  \A g \in Gates(doc) : g.evidence \notin {Unset, "", "pending", "by hand"} =>
    g.evidence = g.check /\ <<g.id, signature(g)>> \in approvals \cap passed

\* ALL MET after --reverify: every command of the ledger was written as passed since the
\* checker began, unless the editor's text came or went meanwhile.
AllMetWasVerified ==
  \A c \in Checker : checker[c].exit = 0 /\ checker[c].mode = "reverify" /\ ~edited[c] =>
    {g.id : g \in {h \in Gates(parseGates(checker[c].view)) : h.check # Unset}} \subseteq passedSince[c]

\* Evidence, results and ALL MET are what approved commands earned.
ResultsEarned == ResultsKept /\ EvidenceIsOfCommand /\ AllMetWasVerified
=============================================================================
