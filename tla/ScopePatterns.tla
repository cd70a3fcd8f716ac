---------------------------- MODULE ScopePatterns ----------------------------
(***************************************************************************)
(* Host patterns of a scope policy (common/host-pattern): which ones are    *)
(* accepted when a policy is written and which hosts one covers. A host is  *)
(* the sequence of its labels; a raw pattern carries, besides, the flaw of  *)
(* its text that is looked for before its labels are.                       *)
(***************************************************************************)
EXTENDS Integers, Sequences, FiniteSets

CONSTANTS
  Label,             \* DNS labels
  BadLabel,          \* labels no DNS name has
  MultipartSuffixes, \* MULTIPART_SUFFIXES
  MaxLabels,
  Flaw               \* flaws of the text a pattern may have, "none" among them

\* Every entry of MULTIPART_SUFFIXES has two labels.
ASSUME PatternAssumption ==
  /\ MaxLabels \in Nat /\ "none" \in Flaw
  /\ MultipartSuffixes \subseteq [1..2 -> Label]

SingleLabel == {<<"localhost">>}  \* ALLOWED_SINGLE_LABEL
Address == {<<"10", "0", "0", "1">>}  \* IPV4_RE

Names(S) == SingleLabel \cup UNION {[1..n -> S] : n \in 1..MaxLabels}
Hosts == Names(Label)
RawPatterns == [labels : Names(Label \cup {"*"} \cup BadLabel) \cup Address, flaw : {"none"}]
               \cup [labels : SingleLabel, flaw : Flaw]

VARIABLES allowedHosts, answer  \* the list of a policy, what validateAllowedHosts says of it
patternVars == <<allowedHosts, answer>>
-----------------------------------------------------------------------------
Wild(labels) == {i \in 1..Len(labels) : labels[i] = "*"}
Suffix(labels) == SubSeq(labels, 2, Len(labels))

\* Mutant: only a wildcard directly under a top-level domain is refused.
NotBroad(labels) == Len(labels) >= 3
Registrable(labels) == Len(labels) >= 3 /\ Suffix(labels) \notin MultipartSuffixes

\* validateHostPattern: is the pattern valid? The wording of the refusal is left out.
ValidHostPattern(raw) ==
  LET labels == raw.labels
      named == IF Wild(labels) = {1} THEN Suffix(labels) ELSE labels
  IN  /\ raw.flaw = "none" /\ labels # <<"*">>
      /\ Wild(labels) \in {{}, {1}}
      /\ \A i \in 1..Len(named) : named[i] \notin BadLabel
      /\ IF Wild(labels) = {} THEN labels \notin Address /\ (Len(labels) > 1 \/ labels \in SingleLabel)
         ELSE Registrable(labels)

\* validateAllowedHosts: some, all valid, none twice.
ValidAllowedHosts(hosts) ==
  /\ hosts # <<>>
  /\ \A i \in 1..Len(hosts) : ValidHostPattern(hosts[i])
  /\ \A i, j \in 1..Len(hosts) : i # j => hosts[i].labels # hosts[j].labels

\* hostMatchesPattern: a wildcard stands for one label.
HostMatchesPattern(host, labels) ==
  IF labels[1] # "*" THEN host = labels
  ELSE Len(host) = Len(labels) /\ Suffix(host) = Suffix(labels)

IsHostAllowed(host, hosts) ==
  \E i \in 1..Len(hosts) : HostMatchesPattern(host, hosts[i].labels)

PatternInit == allowedHosts \in {<<raw>> : raw \in RawPatterns} /\ answer = "none"

\* One question: a list of one pattern, or of a second beside a valid first.
Ask ==
  /\ answer = "none"
  /\ answer' = IF ValidAllowedHosts(allowedHosts) THEN "valid" ELSE "refused"
  /\ UNCHANGED allowedHosts
AddPattern ==
  /\ answer = "valid" /\ Len(allowedHosts) < 2 /\ answer' = "none"
  /\ allowedHosts' \in {Append(allowedHosts, [labels |-> <<"*">> \o Suffix(allowedHosts[1].labels), flaw |-> "none"]),
                        Append(allowedHosts, allowedHosts[1])}
PatternNext == Ask \/ AddPattern
PatternSpec == PatternInit /\ [][PatternNext]_patternVars
-----------------------------------------------------------------------------
\* The name somebody registers: one label more than the longest public suffix.
PublicSuffix == {<<l>> : l \in Label} \cup MultipartSuffixes
IsSuffix(host, i) ==
  /\ SubSeq(host, i, Len(host)) \in PublicSuffix \cup SingleLabel
  /\ \A k \in 1..(i - 1) : SubSeq(host, k, Len(host)) \notin PublicSuffix
SuffixAt(host) == CHOOSE i \in 1..Len(host) : IsSuffix(host, i)
Registrant(host) ==
  SubSeq(host, IF SuffixAt(host) = 1 THEN 1 ELSE SuffixAt(host) - 1, Len(host))

\* The attestation of a policy stays meaningful: whatever a valid pattern covers,
\* exact or by its wildcard, belongs to one registrant, and a list of patterns
\* reaches no more registrants than it has entries.
PatternsKeepToOneRegistrant ==
  answer = "valid" =>
    Cardinality({Registrant(h) : h \in {h \in Hosts : IsHostAllowed(h, allowedHosts)}})
      <= Len(allowedHosts)
=============================================================================
