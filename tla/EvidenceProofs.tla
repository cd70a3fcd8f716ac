---------------------------- MODULE EvidenceProofs ----------------------------
EXTENDS EvidenceRetention, TLAPS

USE EvidenceAssumption

\* A tombstone is of an expired row that nobody works on.
DeadIsPast == \A i \in Id : row[i].dead => Expired(i) /\ ~row[i].leased

\* Retention workers handle expired rows only.
BatchIsPast == \A k \in Worker : \A i \in Pending(k) \ {None} : Expired(i)

GoneWith(o, c) == row[o].content = c /\ Expired(o)

Own(w) == <<"job", w[1]>>

\* What an attempt captured is one of the contents of its job, and the bytes that it
\* verified are there when it inserts, or went with an expired row. Of a stage that was
\* not claimed anew between the check and the upsert: only the current attempt of the
\* job is about to write, while it captures there is no live row, and when it is done
\* the row is its own, and so is the one it reported.
WriterOK(w) ==
  /\ work[w].at \in {"verify", "insert"} => work[w].content \in Contents[w[1]]
  /\ At(w, "done") => work[w].content # None
  /\ At(w, "insert") => work[w].content \in object \/ \E o \in Id : GoneWith(o, work[w].content)
  /\ Kind[w[1]] = "stage" /\ w[1] \notin caught =>
       /\ At(w, "insert") => Current(w)
       /\ Current(w) /\ work[w].at \in {"verify", "insert"} => ~Live(Own(w))
       /\ \/ Current(w) /\ At(w, "done")
          \/ At(w, "over") /\ work[w].content # None
          => row[Own(w)].content = work[w].content \/ row[Own(w)].dead

EvidenceInv ==
  /\ TypeOK /\ DeadIsPast /\ BatchIsPast /\ BytesUntilExpiry
  /\ \A w \in Writer : WriterOK(w)

-----------------------------------------------------------------------------
(* Writers and the rows they write. *)

LEMMA WriterIs ==
  ASSUME NEW w \in Writer
  PROVE  w[1] \in Job /\ w[2] \in 1..MaxAttempt[w[1]] /\ w = <<w[1], w[2]>>
BY DEF Writer

LEMMA WriterOf ==
  ASSUME NEW j \in Job, NEW n \in 1..MaxAttempt[j]
  PROVE  <<j, n>> \in Writer
BY DEF Writer

LEMMA ContentOf ==
  ASSUME NEW j \in Job, NEW c \in Contents[j]
  PROVE  c \in Content /\ c # None
BY DEF Content

LEMMA IdInId ==
  ASSUME NEW w \in Writer, NEW c \in Contents[w[1]]
  PROVE  IdOf(w, c) \in Id
<1>1. c \in Content
  BY WriterIs, ContentOf
<1>2. <<w, c>> \in {q \in Writer \X Content : q[2] \in Contents[q[1][1]]}
  BY <1>1
<1> QED
  BY <1>2 DEF Id

LEMMA StageId ==
  ASSUME NEW w \in Writer, NEW v \in Writer, NEW c, Kind[w[1]] = "stage"
  PROVE  /\ IdOf(w, c) = Own(w)
         /\ IdOf(v, c) = Own(w) => v[1] = w[1]
BY DEF IdOf, Own

LEMMA OwnInId ==
  ASSUME NEW w \in Writer, Kind[w[1]] = "stage"
  PROVE  Own(w) \in Id
<1>1. PICK c : c \in Contents[w[1]]
  BY WriterIs
<1> QED
  BY <1>1, IdInId, StageId

\* What no step takes back: a row stays, with its content, its expiry moves nearer
\* only, and a tombstone is final.
RowsKept ==
  /\ now' \in Nat /\ now <= now'
  /\ \A i \in Id : Exists(i) =>
       /\ Exists(i)' /\ row'[i].content = row[i].content /\ row'[i].expires <= row[i].expires
       /\ row[i].dead => row'[i] = row[i]

LEMMA ExpiredStays ==
  ASSUME TypeOK, TypeOK', RowsKept, NEW i \in Id
  PROVE  /\ Expired(i) => Expired(i)'
         /\ \A c : GoneWith(i, c) => GoneWith(i, c)'
BY DEF TypeOK, Row, RowsKept, Expired, GoneWith, Exists

-----------------------------------------------------------------------------
(* Steps of the calendar, the policy and the retention workers that delete no bytes. *)

\* Such a step leaves writers and bytes alone, and creates no row.
LEMMA RestFollows ==
  ASSUME EvidenceInv, TypeOK', RowsKept, UNCHANGED <<writerVars, object>>,
         \A i \in Id : ~Exists(i) => ~Exists(i)', DeadIsPast', BatchIsPast'
  PROVE  EvidenceInv'
<1>1. ASSUME NEW w \in Writer PROVE WriterOK(w)'
  <2>1. /\ work[w].at \in {"verify", "insert"} => work[w].content \in Contents[w[1]]
        /\ At(w, "insert") => work[w].content \in object \/ \E o \in Id : GoneWith(o, work[w].content)'
    <3>1. \A o \in Id : GoneWith(o, work[w].content) => GoneWith(o, work[w].content)'
      BY ExpiredStays DEF EvidenceInv, writerVars, GoneWith
    <3> QED
      BY <3>1 DEF EvidenceInv, WriterOK
  <2>2. ASSUME Kind[w[1]] = "stage"
        PROVE  /\ ~Live(Own(w)) => ~Live(Own(w))'
               /\ \A c \in Content : row[Own(w)].content = c \/ row[Own(w)].dead
                                       => row'[Own(w)].content = c \/ row'[Own(w)].dead
    <3>1. Own(w) \in Id
      BY <2>2, OwnInId
    <3> QED
      BY <3>1, EvidenceAssumption DEF EvidenceInv, RowsKept, Live, Exists, DeadIsPast, Expired, EvidenceAssumption
  <2>3. work[w].content \in Content \cup {None}
    BY DEF EvidenceInv, TypeOK, Memory
  <2> QED
    BY <2>1, <2>2, <2>3 DEF EvidenceInv, WriterOK, writerVars, At, Current
<1>2. BytesUntilExpiry'
  <2> SUFFICES ASSUME NEW i \in Id, Exists(i)', ~Expired(i)'
               PROVE  \/ Download(i)' = "bytes"
                      \/ /\ Download(i)' = "missing"
                         /\ \E o \in Id \ {i} : row'[o].content = row'[i].content /\ Expired(o)'
    BY DEF BytesUntilExpiry
  <2>1. Exists(i) /\ ~Expired(i) /\ row'[i].content = row[i].content
    BY ExpiredStays DEF EvidenceInv, RowsKept
  <2>2. ~row'[i].dead
    BY DEF DeadIsPast
  <2>3. row[i].content \in object \/ \E o \in Id \ {i} : GoneWith(o, row[i].content)
    BY <2>1 DEF EvidenceInv, BytesUntilExpiry, Download, GoneWith
  <2>4. row[i].content \in object \/ \E o \in Id \ {i} : row'[o].content = row'[i].content /\ Expired(o)'
    BY <2>1, <2>3, ExpiredStays DEF EvidenceInv, GoneWith
  <2> QED
    BY <2>1, <2>2, <2>4 DEF Download, writerVars
<1> QED
  BY <1>1, <1>2 DEF EvidenceInv

LEMMA PutPolicyKeeps ==
  ASSUME EvidenceInv, PutPolicy
  PROVE  EvidenceInv' /\ RowsKept
<1>1. /\ UNCHANGED <<now, writerVars, object, batch, faults>> /\ days' \in Days /\ Reschedule(days')
      /\ changes' \in 0..MaxChanges /\ days' \in Nat /\ TypeOK
  BY DEF PutPolicy, EvidenceInv, TypeOK
<1>2. ASSUME NEW i \in Id
      PROVE  /\ row'[i] \in Row /\ row'[i].content = row[i].content /\ row'[i].dead = row[i].dead
             /\ row'[i].leased = row[i].leased /\ row'[i].expires <= row[i].expires
             /\ ~Live(i) => row'[i] = row[i]
  <2>1. row[i] \in Row /\ row'[i] = IF ~Live(i) THEN row[i] ELSE
            [row[i] EXCEPT !.expires = Rescheduled(row[i].expires, row[i].captured + days')]
    BY <1>1 DEF Reschedule, TypeOK
  <2>2. Rescheduled(row[i].expires, row[i].captured + days') \in Nat
        /\ Rescheduled(row[i].expires, row[i].captured + days') <= row[i].expires
    BY <1>1, <2>1 DEF Rescheduled, Earlier, Row
  <2> QED BY <2>1, <2>2 DEF Row
<1>3. TypeOK'
  <2>1. row' \in [Id -> Row]
    BY <1>1, <1>2 DEF Reschedule
  <2> QED BY <1>1, <2>1 DEF TypeOK, writerVars
<1>4. RowsKept
  BY <1>1, <1>2 DEF RowsKept, Exists, Live, TypeOK
<1>5. \A i \in Id : ~Exists(i) => ~Exists(i)'
  BY <1>2 DEF Exists
<1>6. DeadIsPast'
  BY <1>1, <1>2, <1>3, <1>4, ExpiredStays DEF EvidenceInv, DeadIsPast
<1>7. BatchIsPast'
  BY <1>1, <1>3, <1>4, ExpiredStays DEF EvidenceInv, BatchIsPast, Pending, TypeOK
<1> QED
  BY <1>1, <1>3, <1>4, <1>5, <1>6, <1>7, RestFollows

LEMMA NextDayKeeps ==
  ASSUME EvidenceInv, NextDay
  PROVE  EvidenceInv' /\ RowsKept
<1>1. UNCHANGED <<policyVars, faults, writerVars, row, object, batch>> /\ now' = now + 1 /\ now < MaxNow /\ TypeOK
  BY DEF NextDay, EvidenceInv
<1>2. TypeOK'
  BY <1>1 DEF TypeOK, policyVars, writerVars
<1>3. RowsKept
  BY <1>1 DEF RowsKept, Exists, TypeOK, Row
<1>4. DeadIsPast' /\ BatchIsPast'
  BY <1>1, <1>2, <1>3, ExpiredStays DEF EvidenceInv, DeadIsPast, BatchIsPast, Pending, TypeOK
<1> QED
  BY <1>1, <1>2, <1>3, <1>4, RestFollows DEF Exists

\* A retention worker changes of a row its lease, and makes a tombstone of an expired one.
LEMMA WorkersKeep ==
  ASSUME EvidenceInv, UNCHANGED <<now, policyVars, writerVars, object>>, faults' \in 0..MaxFaults,
         batch' \in [Worker -> [todo : SUBSET Id, current : Id \cup {None}]],
         row' \in [Id -> Row],
         \A i \in Id :
           \/ row'[i] = row[i]
           \/ /\ row'[i].content = row[i].content /\ row'[i].expires = row[i].expires /\ ~row[i].dead
              /\ row'[i].dead => Expired(i) /\ ~row'[i].leased,
         \A k \in Worker : \A i \in Pending(k)' \ {None} : i \in Id /\ Expired(i)
  PROVE  EvidenceInv' /\ RowsKept
<1>1. TypeOK /\ TypeOK'
  BY DEF EvidenceInv, TypeOK, policyVars, writerVars
<1>2. RowsKept
  BY <1>1 DEF RowsKept, Exists, TypeOK, Row
<1>3. \A i \in Id : ~Exists(i) => ~Exists(i)'
  BY DEF Exists
<1>4. DeadIsPast'
  BY <1>1, <1>2, ExpiredStays DEF EvidenceInv, DeadIsPast
<1>5. BatchIsPast'
  BY <1>1, <1>2, ExpiredStays DEF BatchIsPast
<1> QED
  BY <1>1, <1>2, <1>3, <1>4, <1>5, RestFollows

\* What a tombstone and a lease that is given back leave of a row.
LEMMA FreedRow ==
  ASSUME NEW r \in Row, NEW v, \/ v = [r EXCEPT !.lease = None, !.leased = FALSE]
                               \/ v = [r EXCEPT !.dead = TRUE, !.lease = None, !.leased = FALSE]
  PROVE  /\ v \in Row /\ v.content = r.content /\ v.expires = r.expires /\ ~v.leased
         /\ v = [r EXCEPT !.lease = None, !.leased = FALSE] => v.dead = r.dead
<1>1. CASE v = [r EXCEPT !.lease = None, !.leased = FALSE]
  BY <1>1 DEF Row
<1>2. CASE v = [r EXCEPT !.dead = TRUE, !.lease = None, !.leased = FALSE]
  <2>1. v \in Row /\ v.content = r.content /\ v.expires = r.expires /\ v.leased = FALSE /\ v.dead = TRUE
    BY <1>2 DEF Row
  <2>2. ASSUME v = [r EXCEPT !.lease = None, !.leased = FALSE] PROVE v.dead = r.dead
    BY <2>2 DEF Row
  <2> QED BY <2>1, <2>2
<1> QED BY <1>1, <1>2

LEMMA ClaimBatchKeeps ==
  ASSUME EvidenceInv, NEW k \in Worker, ClaimBatch(k)
  PROVE  EvidenceInv' /\ RowsKept
<1>1. PICK S \in SUBSET {i \in Id : Due(i)} :
        /\ row' = [i \in Id |-> IF i \in S THEN [row[i] EXCEPT !.lease = k, !.leased = TRUE] ELSE row[i]]
        /\ batch' = [batch EXCEPT ![k].todo = S]
  BY DEF ClaimBatch
<1>2. TypeOK /\ UNCHANGED <<now, policyVars, faults, writerVars, object>> /\ batch[k] = Empty
  BY DEF ClaimBatch, EvidenceInv
<1>3. ASSUME NEW i \in Id
      PROVE  /\ row'[i] \in Row
             /\ \/ row'[i] = row[i]
                \/ /\ row'[i].content = row[i].content /\ row'[i].expires = row[i].expires
                   /\ ~row[i].dead /\ ~row'[i].dead
  <2>1. row[i] \in Row
    BY <1>2 DEF TypeOK
  <2>2. i \in S => row'[i] = [row[i] EXCEPT !.lease = k, !.leased = TRUE] /\ ~row[i].dead
    BY <1>1 DEF Due, Live
  <2>3. i \notin S => row'[i] = row[i]
    BY <1>1
  <2> QED BY <2>1, <2>2, <2>3 DEF Row
<1>4. row' \in [Id -> Row]
  BY <1>1, <1>3
<1>5. batch' \in [Worker -> [todo : SUBSET Id, current : Id \cup {None}]]
  BY <1>1, <1>2, ZenonT(40) DEF TypeOK
<1>6. ASSUME NEW j \in Worker, NEW i \in Pending(j)' \ {None} PROVE i \in Id /\ Expired(i)
  <2>1. CASE j = k
    <3>1. batch'[j].todo = S /\ batch'[j].current = batch[k].current /\ batch[k].current = None
      <4>1. batch[k].current = None
        BY <1>2 DEF Empty
      <4>2. batch[k] \in [todo : SUBSET Id, current : Id \cup {None}] /\ batch'[j] = [batch[k] EXCEPT !.todo = S]
        BY <1>1, <1>2, <2>1 DEF TypeOK
      <4>3. batch'[j].todo = S /\ batch'[j].current = batch[k].current
        BY <4>2
      <4> QED BY <4>1, <4>3
    <3>2. i \in S
      BY <3>1 DEF Pending
    <3> QED BY <3>2 DEF Due, Past, Live, Expired
  <2>2. CASE j # k
    <3>1. Pending(j)' = Pending(j) /\ Pending(j) \subseteq Id \cup {None}
      BY <1>1, <1>2, <2>2 DEF Pending, TypeOK
    <3> QED BY <3>1 DEF EvidenceInv, BatchIsPast
  <2> QED BY <2>1, <2>2
<1> QED
  BY <1>2, <1>3, <1>4, <1>5, <1>6, WorkersKeep DEF TypeOK

LEMMA TombstoneKeeps ==
  ASSUME EvidenceInv, NEW k \in Worker, Tombstone(k)
  PROVE  EvidenceInv' /\ RowsKept
<1> DEFINE i == batch[k].current
<1>1. TypeOK /\ UNCHANGED <<now, policyVars, faults, writerVars, object>> /\ i \in Id /\ Expired(i)
      /\ batch' = [batch EXCEPT ![k].current = None]
  BY DEF Tombstone, EvidenceInv, TypeOK, BatchIsPast, Pending
<1> DEFINE tombstone == [row[i] EXCEPT !.dead = TRUE, !.lease = None, !.leased = FALSE]
<1>2. \/ row' = row
      \/ ~row[i].dead /\ row' = [row EXCEPT ![i] = tombstone]
  BY <1>1 DEF Tombstone, Holds, TypeOK, Row
<1>3. /\ tombstone \in Row /\ tombstone.content = row[i].content /\ tombstone.expires = row[i].expires
      /\ ~tombstone.leased
  BY <1>1, FreedRow DEF TypeOK
<1> HIDE DEF tombstone
<1>4. ASSUME NEW o \in Id
      PROVE  /\ row'[o] \in Row
             /\ \/ row'[o] = row[o]
                \/ /\ row'[o].content = row[o].content /\ row'[o].expires = row[o].expires /\ ~row[o].dead
                   /\ row'[o].dead => Expired(o) /\ ~row'[o].leased
  BY <1>1, <1>2, <1>3 DEF TypeOK
<1>5. row' \in [Id -> Row]
  BY <1>1, <1>2, <1>3 DEF TypeOK
<1>6. batch' \in [Worker -> [todo : SUBSET Id, current : Id \cup {None}]]
  BY <1>1 DEF TypeOK
<1>7. ASSUME NEW j \in Worker, NEW o \in Pending(j)' \ {None} PROVE o \in Id /\ Expired(o)
  <2>1. o \in Pending(j) /\ o \in Id
    BY <1>1, <1>6 DEF Pending, TypeOK
  <2> QED BY <2>1 DEF EvidenceInv, BatchIsPast
<1> QED
  BY <1>1, <1>4, <1>5, <1>6, <1>7, WorkersKeep DEF TypeOK

LEMMA LeaseStepsKeep ==
  ASSUME EvidenceInv,
         \/ \E k \in Worker : WorkerCrash(k)
         \/ \E k \in Worker, i \in Id : DeleteFails(k, i)
         \/ \E i \in Id : LeaseEnds(i)
  PROVE  EvidenceInv' /\ RowsKept
<1> DEFINE Batches == [Worker -> [todo : SUBSET Id, current : Id \cup {None}]]
<1>1. TypeOK
  BY DEF EvidenceInv
<1>2. ASSUME NEW k \in Worker, WorkerCrash(k) PROVE EvidenceInv' /\ RowsKept
  <2>1. batch' \in Batches /\ \A j \in Worker : Pending(j)' \subseteq Pending(j) \cup {None} /\ Pending(j) \subseteq Id \cup {None}
    BY <1>1, <1>2 DEF WorkerCrash, TypeOK, Pending, Empty
  <2>2. \A j \in Worker : \A i \in Pending(j)' \ {None} : i \in Id /\ Expired(i)
    BY <2>1 DEF EvidenceInv, BatchIsPast
  <2>3. /\ UNCHANGED <<now, policyVars, writerVars, row, object>> /\ faults' \in 0..MaxFaults
        /\ row' \in [Id -> Row]
    BY <1>1, <1>2 DEF WorkerCrash, TypeOK
  <2> QED BY <2>1, <2>2, <2>3, WorkersKeep
<1>3. ASSUME NEW k \in Worker, NEW i \in Id, DeleteFails(k, i) PROVE EvidenceInv' /\ RowsKept
  <2>1. batch' \in Batches /\ \A j \in Worker : Pending(j)' \subseteq Pending(j) \cup {None} /\ Pending(j) \subseteq Id \cup {None}
    <3>1. batch' = [batch EXCEPT ![k] = [todo |-> batch[k].todo \ {i}, current |-> None]]
      BY <1>3 DEF DeleteFails
    <3> QED BY <1>1, <3>1 DEF TypeOK, Pending
  <2>2. \A j \in Worker : \A o \in Pending(j)' \ {None} : o \in Id /\ Expired(o)
    BY <2>1 DEF EvidenceInv, BatchIsPast
  <2>3. UNCHANGED <<now, policyVars, writerVars, object>> /\ faults' \in 0..MaxFaults
        /\ row' = [row EXCEPT ![i] = Unclaimed(k, i)]
    BY <1>1, <1>3 DEF DeleteFails, TypeOK
  <2>4. /\ Unclaimed(k, i) \in Row
        /\ \/ Unclaimed(k, i) = row[i]
           \/ /\ Unclaimed(k, i).content = row[i].content /\ Unclaimed(k, i).expires = row[i].expires
              /\ ~row[i].dead /\ ~Unclaimed(k, i).dead
    <3>1. row[i] \in Row
      BY <1>1, SMTT(30) DEF TypeOK
    <3>2. CASE Holds(k, i)
      <4>1. Unclaimed(k, i) = [row[i] EXCEPT !.lease = None, !.leased = FALSE]
        BY <3>2 DEF Unclaimed
      <4> QED BY <3>1, <3>2, <4>1, FreedRow, ZenonT(30) DEF Holds
    <3>3. CASE ~Holds(k, i)
      BY <3>1, <3>3 DEF Unclaimed
    <3> QED BY <3>2, <3>3
  <2> HIDE DEF Batches
  <2>5. row' \in [Id -> Row] /\ \A o \in Id : row'[o] = IF o = i THEN Unclaimed(k, i) ELSE row[o]
    BY <1>1, <2>3, <2>4 DEF TypeOK
  <2> QED BY <2>1, <2>2, <2>3, <2>4, <2>5, WorkersKeep DEF Batches
<1>4. ASSUME NEW i \in Id, LeaseEnds(i) PROVE EvidenceInv' /\ RowsKept
  <2>1. ~row[i].dead
    BY <1>4 DEF LeaseEnds, EvidenceInv, DeadIsPast
  <2>2. /\ UNCHANGED <<now, policyVars, writerVars, object, batch>> /\ faults' \in 0..MaxFaults
        /\ row' = [row EXCEPT ![i].leased = FALSE]
    BY <1>1, <1>4 DEF LeaseEnds, TypeOK
  <2>3. row' \in [Id -> Row] /\ batch' \in Batches
    <3>1. row \in [Id -> Row] /\ batch' \in Batches
      BY <1>1, <2>2 DEF TypeOK
    <3>2. PICK r \in Row : r = row[i]
      BY <3>1
    <3>3. [r EXCEPT !.leased = FALSE] \in Row
      BY DEF Row
    <3>4. row' = [row EXCEPT ![i] = [r EXCEPT !.leased = FALSE]]
      BY <2>2, <3>2
    <3> QED BY <3>1, <3>3, <3>4
  <2>4. \A o \in Id : \/ row'[o] = row[o]
                      \/ /\ row'[o].content = row[o].content /\ row'[o].expires = row[o].expires /\ ~row[o].dead
                         /\ row'[o].dead => Expired(o) /\ ~row'[o].leased
    BY <1>1, <2>1, <2>2 DEF TypeOK, Row
  <2>5. \A j \in Worker : \A o \in Pending(j)' \ {None} : o \in Id /\ Expired(o)
    BY <1>1, <2>2 DEF EvidenceInv, BatchIsPast, Pending, TypeOK
  <2> QED BY <2>2, <2>3, <2>4, <2>5, WorkersKeep
<1> QED
  BY <1>2, <1>3, <1>4

-----------------------------------------------------------------------------
(* Deletions and captures. *)

\* The bytes that go are an expired row's, and so may stay away from any other.
LEMMA DeleteObjectKeeps ==
  ASSUME EvidenceInv, NEW k \in Worker, NEW i \in Id, DeleteObject(k, i)
  PROVE  EvidenceInv' /\ RowsKept
<1>1. /\ TypeOK /\ UNCHANGED <<now, policyVars, faults, writerVars, row>> /\ i \in batch[k].todo
      /\ object' = object \ {row[i].content}
      /\ batch' = [batch EXCEPT ![k] = [todo |-> batch[k].todo \ {i}, current |-> i]]
  BY DEF DeleteObject, EvidenceInv
<1>2. TypeOK'
  BY <1>1 DEF TypeOK, policyVars, writerVars
<1>3. RowsKept
  BY <1>1 DEF RowsKept, Exists, TypeOK, Row
<1>4. Expired(i) /\ \A o \in Id : (Expired(o)' <=> Expired(o)) /\ (Exists(o)' <=> Exists(o))
  BY <1>1 DEF EvidenceInv, BatchIsPast, Pending, Expired, Exists, TypeOK
<1>5. BatchIsPast'
  <2> SUFFICES ASSUME NEW j \in Worker, NEW o \in Pending(j)' \ {None} PROVE o \in Id /\ Expired(o)
    BY <1>4 DEF BatchIsPast
  <2>1. o \in Pending(j) \/ o = i
    BY <1>1 DEF Pending, TypeOK
  <2>2. Pending(j) \subseteq Id \cup {None}
    BY <1>1 DEF Pending, TypeOK
  <2> QED BY <1>4, <2>1, <2>2 DEF EvidenceInv, BatchIsPast
<1>6. DeadIsPast'
  BY <1>1, <1>4 DEF EvidenceInv, DeadIsPast
<1>7. ASSUME NEW w \in Writer PROVE WriterOK(w)'
  <2>1. \A o \in Id : GoneWith(o, work[w].content)' <=> GoneWith(o, work[w].content)
    BY <1>1, <1>4 DEF GoneWith, writerVars
  <2>2. At(w, "insert") => work[w].content \in object' \/ \E o \in Id : GoneWith(o, work[w].content)
    BY <1>1, <1>4 DEF EvidenceInv, WriterOK, GoneWith
  <2> QED
    BY <1>1, <2>1, <2>2 DEF EvidenceInv, WriterOK, writerVars, At, Current, Live, Exists
<1>8. BytesUntilExpiry'
  <2> SUFFICES ASSUME NEW o \in Id, Exists(o), ~Expired(o)
               PROVE  \/ Download(o)' = "bytes"
                      \/ /\ Download(o)' = "missing"
                         /\ \E p \in Id \ {o} : row[p].content = row[o].content /\ Expired(p)
    BY <1>1, <1>4 DEF BytesUntilExpiry
  <2>1. CASE row[o].content = row[i].content
    <3>1. ~row[o].dead
      BY DEF EvidenceInv, DeadIsPast
    <3> QED BY <1>1, <1>4, <2>1, <3>1 DEF Download
  <2>2. CASE row[o].content # row[i].content
    <3>1. Download(o)' = Download(o)
      BY <1>1, <2>2 DEF Download
    <3> QED BY <3>1 DEF EvidenceInv, BytesUntilExpiry
  <2> QED BY <2>1, <2>2
<1> QED
  BY <1>2, <1>3, <1>5, <1>6, <1>7, <1>8 DEF EvidenceInv

\* What a step leaves of an attempt that it is not about: it may stop being current,
\* but for a stage between check and upsert, unless that is on record.
Undisturbed(w) ==
  /\ work'[w] = work[w] /\ (Current(w)' => Current(w))
  /\ Kind[w[1]] = "stage" /\ w[1] \notin caught' /\ At(w, "insert") /\ Current(w) => Current(w)'

\* A writer's step that writes no row.
LEMMA WriterFollows ==
  ASSUME EvidenceInv, UNCHANGED <<now, policyVars, row, batch>>, faults' \in 0..MaxFaults,
         caught \subseteq caught', caught' \subseteq Job,
         work' \in [Writer -> Memory], object \subseteq object', object' \subseteq Content,
         job' \in [Job -> {"queued", "running", "succeeded"}],
         attempts' \in [Job -> Nat], \A j \in Job : attempts'[j] <= MaxAttempt[j],
         \A w \in Writer : Undisturbed(w) \/ WriterOK(w)'
  PROVE  EvidenceInv' /\ RowsKept
<1>1. TypeOK /\ TypeOK'
  BY DEF EvidenceInv, TypeOK, policyVars
<1>2. RowsKept
  BY <1>1 DEF RowsKept, Exists, TypeOK, Row
<1>3. \A i \in Id : (Expired(i)' <=> Expired(i)) /\ (Exists(i)' <=> Exists(i)) /\ (Live(i)' <=> Live(i))
  BY DEF Expired, Exists, Live
<1>4. BatchIsPast' /\ DeadIsPast'
  BY <1>1, <1>3 DEF EvidenceInv, BatchIsPast, DeadIsPast, Pending, TypeOK
<1>5. ASSUME NEW w \in Writer PROVE WriterOK(w)'
  <2> SUFFICES ASSUME Undisturbed(w) PROVE WriterOK(w)'
    OBVIOUS
  <2>1. \A o \in Id : GoneWith(o, work[w].content)' <=> GoneWith(o, work[w].content)
    BY <1>3 DEF GoneWith, Undisturbed
  <2>2. Live(Own(w))' <=> Live(Own(w))
    BY DEF Live, Exists
  <2>3. /\ w[1] \notin caught' => w[1] \notin caught
        /\ work'[w] = work[w] /\ (Current(w)' => Current(w))
        /\ Kind[w[1]] = "stage" /\ w[1] \notin caught' /\ At(w, "insert") /\ Current(w) => Current(w)'
    BY DEF Undisturbed
  <2>4. WriterOK(w)
    BY DEF EvidenceInv
  <2>5. /\ work'[w].at \in {"verify", "insert"} => work'[w].content \in Contents[w[1]]
        /\ At(w, "done")' => work'[w].content # None
        /\ At(w, "insert")' => work'[w].content \in object' \/ \E o \in Id : GoneWith(o, work[w].content)'
    BY <2>1, <2>3, <2>4 DEF WriterOK, At
  <2>6. Kind[w[1]] = "stage" /\ w[1] \notin caught' =>
          /\ At(w, "insert")' => Current(w)'
          /\ Current(w)' /\ work'[w].at \in {"verify", "insert"} => ~Live(Own(w))'
          /\ \/ Current(w)' /\ At(w, "done")'
             \/ At(w, "over")' /\ work'[w].content # None
             => row'[Own(w)].content = work'[w].content \/ row'[Own(w)].dead
    BY <2>2, <2>3, <2>4 DEF WriterOK, At
  <2> QED
    BY <2>5, <2>6 DEF WriterOK, Own
<1>6. BytesUntilExpiry'
  BY <1>1, <1>3, <1>4 DEF EvidenceInv, BytesUntilExpiry, Download
<1> QED
  BY <1>1, <1>2, <1>4, <1>5, <1>6 DEF EvidenceInv

LEMMA ClaimKeeps ==
  ASSUME EvidenceInv, NEW j \in Job, Claim(j)
  PROVE  EvidenceInv' /\ RowsKept
<1> DEFINE n == attempts[j] + 1
           fresh == [Idle EXCEPT !.at = "begin", !.expires = IF Kind[j] = "sast" THEN now + days ELSE 0]
<1>1. /\ UNCHANGED <<now, policyVars, faults, batch, row, object>> /\ TypeOK
      /\ job' = [job EXCEPT ![j] = "running"] /\ attempts' = [attempts EXCEPT ![j] = n]
      /\ attempts[j] < MaxAttempt[j]
  BY DEF Claim, StillWriting, EvidenceInv
<1>2. n \in 1..MaxAttempt[j] /\ <<j, n>> \in Writer
  BY <1>1, WriterOf, EvidenceAssumption DEF TypeOK, EvidenceAssumption
<1>3. work' = [work EXCEPT ![<<j, n>>] = fresh]
  BY <1>1 DEF Claim, TypeOK
<1>4. fresh \in Memory /\ fresh.at = "begin"
  <2> DEFINE idle == Idle
             expires == IF Kind[j] = "sast" THEN now + days ELSE 0
  <2>1. idle \in Memory
    BY DEF Idle, Memory
  <2>2. expires \in Nat
    BY <1>1, EvidenceAssumption DEF EvidenceAssumption, TypeOK
  <2> HIDE DEF idle, expires
  <2>3. [idle EXCEPT !.at = "begin", !.expires = expires] \in Memory
        /\ [idle EXCEPT !.at = "begin", !.expires = expires].at = "begin"
    BY <2>1, <2>2 DEF Memory
  <2> QED BY <2>3 DEF idle, expires
<1> HIDE DEF fresh
<1>5. /\ work' \in [Writer -> Memory] /\ job' \in [Job -> {"queued", "running", "succeeded"}]
      /\ attempts' \in [Job -> Nat] /\ \A k \in Job : attempts'[k] <= MaxAttempt[k]
  BY <1>1, <1>2, <1>3, <1>4, EvidenceAssumption DEF EvidenceAssumption, TypeOK
<1>6. ASSUME NEW w \in Writer PROVE Undisturbed(w) \/ WriterOK(w)'
  <2>1. CASE w = <<j, n>>
    <3>1. work'[w] = fresh
      BY <1>1, <1>2, <1>3, <2>1 DEF TypeOK
    <3> QED BY <1>4, <3>1 DEF WriterOK, At
  <2>2. CASE w # <<j, n>>
    <3>1. work'[w] = work[w]
      BY <1>1, <1>3, <2>2 DEF TypeOK
    <3>2. w[1] \in Job /\ (w[1] = j => w[2] # n)
      BY <2>2, WriterIs
    <3>3. Current(w)' => Current(w)
      BY <1>1, <3>2 DEF Current, TypeOK
    <3>4. ASSUME Kind[w[1]] = "stage", At(w, "insert"), w[1] \notin caught' PROVE Current(w) => Current(w)'
      <4>1. w[1] # j
        BY <3>4 DEF Claim, AboutToWrite
      <4> QED BY <1>1, <3>2, <4>1 DEF Current, TypeOK
    <3> QED BY <3>1, <3>3, <3>4 DEF Undisturbed
  <2> QED BY <2>1, <2>2
<1>7. caught \subseteq caught' /\ caught' \subseteq Job
  BY <1>1 DEF Claim, TypeOK
<1> QED
  BY <1>1, <1>5, <1>6, <1>7, WriterFollows DEF TypeOK

\* A step of one attempt that leaves the job to it.
LEMMA AttemptFollows ==
  ASSUME EvidenceInv, UNCHANGED <<now, policyVars, row, batch, attempts, caught>>, faults' \in 0..MaxFaults,
         NEW w \in Writer,
         job' \in [Job -> {"queued", "running", "succeeded"}],
         \A v \in Writer : v # w => (Current(v)' <=> Current(v)),
         object \subseteq object', object' \subseteq Content,
         NEW memory \in Memory, work' = [work EXCEPT ![w] = memory], WriterOK(w)'
  PROVE  EvidenceInv' /\ RowsKept
<1>1. TypeOK
  BY DEF EvidenceInv
<1>2. work' \in [Writer -> Memory] /\ \A v \in Writer : v # w => work'[v] = work[v]
  BY <1>1 DEF TypeOK
<1>3. \A v \in Writer : Undisturbed(v) \/ WriterOK(v)'
  BY <1>2 DEF Undisturbed
<1> QED
  BY <1>1, <1>2, <1>3, WriterFollows DEF TypeOK

LEMMA CaptureKeeps ==
  ASSUME EvidenceInv, NEW w \in Writer, Capture(w)
  PROVE  EvidenceInv' /\ RowsKept
<1>1. /\ TypeOK /\ UNCHANGED <<now, policyVars, faults, row, batch, attempts, caught, job>>
      /\ At(w, "begin") /\ work[w] \in Memory /\ object \subseteq Content /\ w[1] \in Job
  BY WriterIs DEF Capture, StillWriting, EvidenceInv, TypeOK
<1>2. \A v \in Writer : Current(v)' <=> Current(v)
  BY <1>1 DEF Current
<1>3. CASE /\ Kind[w[1]] = "stage" /\ Live(Own(w)) /\ row[Own(w)].content \in object
           /\ work' = [work EXCEPT ![w].at = "done", ![w].content = row[Own(w)].content]
           /\ UNCHANGED object
  <2> DEFINE c == row[Own(w)].content
             memory == [work[w] EXCEPT !.at = "done", !.content = c]
  <2>1. c \in Content
    BY <1>1, <1>3
  <2>2. work' = [work EXCEPT ![w] = memory]
    BY <1>1, <1>3 DEF TypeOK
  <2> HIDE DEF c
  <2>3. memory \in Memory /\ memory.at = "done" /\ memory.content = c
    BY <1>1, <2>1 DEF Memory
  <2> HIDE DEF memory
  <2>4. work'[w] = memory
    BY <1>1, <2>2 DEF TypeOK
  <2>5. c # None
    BY <2>1, EvidenceAssumption DEF EvidenceAssumption
  <2>6. WriterOK(w)'
    BY <1>1, <2>3, <2>4, <2>5 DEF WriterOK, At, c, Own
  <2> QED BY <1>1, <1>2, <1>3, <2>2, <2>3, <2>6, AttemptFollows DEF TypeOK
<1>4. CASE /\ Kind[w[1]] = "stage" => ~Live(Own(w))
           /\ \E c \in Contents[w[1]] :
                 /\ work' = [work EXCEPT ![w].at = "verify", ![w].content = c]
                 /\ object' = object \cup {c}
  <2>1. PICK c \in Contents[w[1]] :
                 /\ work' = [work EXCEPT ![w].at = "verify", ![w].content = c]
                 /\ object' = object \cup {c}
    BY <1>4
  <2> DEFINE memory == [work[w] EXCEPT !.at = "verify", !.content = c]
  <2>2. c \in Content
    BY <1>1, ContentOf
  <2>3. work' = [work EXCEPT ![w] = memory]
    BY <1>1, <2>1 DEF TypeOK
  <2>4. memory \in Memory /\ memory.at = "verify" /\ memory.content = c
    BY <1>1, <2>2 DEF Memory
  <2> HIDE DEF memory
  <2>5. work'[w] = memory
    BY <1>1, <2>3 DEF TypeOK
  <2>6. WriterOK(w)'
    BY <1>1, <1>4, <2>4, <2>5 DEF WriterOK, At, Live, Exists, Own
  <2> QED BY <1>1, <1>2, <2>1, <2>2, <2>3, <2>4, <2>6, AttemptFollows DEF TypeOK
<1> QED
  BY <1>3, <1>4 DEF Capture, Own

LEMMA VerifyKeeps ==
  ASSUME EvidenceInv, NEW w \in Writer, Verify(w)
  PROVE  EvidenceInv' /\ RowsKept
<1> DEFINE expires == IF Kind[w[1]] = "sast" THEN work[w].expires ELSE now + days
           memory == [work[w] EXCEPT !.at = "insert", !.expires = expires]
<1>1. /\ TypeOK /\ UNCHANGED <<now, policyVars, faults, row, batch, attempts, caught, job, object>>
      /\ At(w, "verify") /\ work[w].content \in object /\ work[w] \in Memory /\ w[1] \in Job
      /\ Kind[w[1]] = "stage" => Current(w)
  BY WriterIs DEF Verify, Writable, StillWriting, EvidenceInv, TypeOK
<1>2. \A v \in Writer : Current(v)' <=> Current(v)
  BY <1>1 DEF Current
<1>3. expires \in Nat
  BY <1>1, EvidenceAssumption DEF EvidenceAssumption, TypeOK, Memory
<1>4. work' = [work EXCEPT ![w] = memory]
  BY <1>1 DEF Verify, TypeOK
<1> HIDE DEF expires
<1>5. memory \in Memory /\ memory.at = "insert" /\ memory.content = work[w].content
  BY <1>1, <1>3 DEF Memory
<1> HIDE DEF memory
<1>6. work'[w] = memory
  BY <1>1, <1>4 DEF TypeOK
<1>7. WriterOK(w)'
  BY <1>1, <1>5, <1>6 DEF EvidenceInv, WriterOK, At, Live, Exists, Own, Current
<1> QED
  BY <1>1, <1>2, <1>4, <1>5, <1>7, AttemptFollows DEF TypeOK

LEMMA SucceedKeeps ==
  ASSUME EvidenceInv, NEW w \in Writer, Succeed(w)
  PROVE  EvidenceInv' /\ RowsKept
<1> DEFINE c == IF Kind[w[1]] = "stage" THEN work[w].content ELSE None
           memory == [Idle EXCEPT !.at = "over", !.content = c]
<1>1. /\ TypeOK /\ UNCHANGED <<now, policyVars, faults, row, batch, attempts, caught, object>>
      /\ At(w, "done") /\ Current(w) /\ work[w] \in Memory /\ w[1] \in Job
      /\ job' = [job EXCEPT ![w[1]] = "succeeded"] /\ work' = [work EXCEPT ![w] = memory]
  BY WriterIs DEF Succeed, StillWriting, EvidenceInv, TypeOK
<1>2. /\ job' \in [Job -> {"queued", "running", "succeeded"}]
      /\ \A v \in Writer : v # w => (Current(v)' <=> Current(v))
  <2>1. job' \in [Job -> {"queued", "running", "succeeded"}]
    BY <1>1 DEF TypeOK
  <2>2. ASSUME NEW v \in Writer, v # w PROVE Current(v)' <=> Current(v)
    <3>1. v[1] \in Job /\ (v[1] = w[1] => v[2] # w[2])
      BY <2>2, WriterIs
    <3> QED BY <1>1, <3>1 DEF Current, TypeOK
  <2> QED BY <2>1, <2>2
<1>3. c \in Content \cup {None}
  BY <1>1 DEF Memory
<1>4. memory \in Memory /\ memory.at = "over" /\ memory.content = c
  BY <1>3 DEF Memory, Idle
<1> HIDE DEF memory
<1>5. work'[w] = memory
  BY <1>1 DEF TypeOK
<1>6. WriterOK(w)'
  BY <1>1, <1>4, <1>5 DEF EvidenceInv, WriterOK, At, Own
<1> QED
  BY <1>1, <1>2, <1>4, <1>6, AttemptFollows DEF TypeOK

LEMMA GiveUpKeeps ==
  ASSUME EvidenceInv, NEW w \in Writer, GiveUp(w)
  PROVE  EvidenceInv' /\ RowsKept
<1> DEFINE memory == [Idle EXCEPT !.at = "over"]
<1>1. /\ TypeOK /\ UNCHANGED <<now, policyVars, row, batch, attempts, caught, object, job>>
      /\ work' = [work EXCEPT ![w] = memory] /\ faults' \in 0..MaxFaults
  BY DEF GiveUp, Over, EvidenceInv, TypeOK
<1>2. \A v \in Writer : Current(v)' <=> Current(v)
  BY <1>1 DEF Current
<1>3. memory \in Memory /\ memory.at = "over" /\ memory.content = None
  BY DEF Memory, Idle
<1> HIDE DEF memory
<1>4. work'[w] = memory
  BY <1>1 DEF TypeOK
<1>5. WriterOK(w)'
  BY <1>3, <1>4 DEF WriterOK, At
<1> QED
  BY <1>1, <1>2, <1>3, <1>5, AttemptFollows DEF TypeOK

\* The transaction writes the row of the capture, unless there is one.
LEMMA InsertKeeps ==
  ASSUME EvidenceInv, NEW w \in Writer, Insert(w)
  PROVE  EvidenceInv' /\ RowsKept
<1> DEFINE c == work[w].content
           i == IdOf(w, c)
           fresh == [NoRow EXCEPT !.content = c, !.captured = now, !.expires = work[w].expires]
           memory == [work[w] EXCEPT !.at = "done", !.expires = 0]
<1>1. /\ TypeOK /\ UNCHANGED <<now, policyVars, faults, batch, job, attempts, caught, object>>
      /\ At(w, "insert") /\ row' = [row EXCEPT ![i] = Upserted(i, fresh)]
      /\ work' = [work EXCEPT ![w] = memory] /\ work[w] \in Memory
  BY DEF Insert, StillWriting, EvidenceInv, TypeOK
<1>2. c \in Contents[w[1]] /\ i \in Id /\ c \in Content /\ c # None /\ w[1] \in Job
  BY <1>1, IdInId, WriterIs, ContentOf DEF EvidenceInv, WriterOK, At
<1>3. memory \in Memory /\ memory.at = "done" /\ memory.content = c
  BY <1>1 DEF Memory
<1>4. fresh \in Row /\ fresh.content = c /\ ~fresh.dead
  <2> DEFINE none == NoRow
             expires == work[w].expires
  <2>1. none \in Row /\ none.dead = FALSE
    BY DEF NoRow, Row
  <2>2. expires \in Nat /\ now \in Nat
    BY <1>1 DEF Memory, TypeOK
  <2> HIDE DEF none, expires, c
  <2>3. PICK v : v = [none EXCEPT !.content = c, !.captured = now, !.expires = expires]
    OBVIOUS
  <2>4. v \in Row /\ v.content = c /\ v.dead = none.dead
    BY <1>2, <2>1, <2>2, <2>3 DEF Row
  <2> QED BY <2>1, <2>3, <2>4 DEF none, expires, c
<1> HIDE DEF memory, fresh, i
<1>5. /\ work'[w] = memory /\ \A v \in Writer : v # w => work'[v] = work[v]
      /\ work' \in [Writer -> Memory]
  BY <1>1, <1>3 DEF TypeOK
<1>6. /\ row' \in [Id -> Row] /\ \A o \in Id : Exists(o) \/ o # i => row'[o] = row[o]
      /\ ~Exists(i) => row'[i] = fresh
  BY <1>1, <1>2, <1>4 DEF TypeOK, Upserted
<1>7. TypeOK'
  BY <1>1, <1>5, <1>6 DEF TypeOK, policyVars
<1>8. RowsKept
  BY <1>1, <1>6 DEF RowsKept, Exists, TypeOK, Row
<1>9. DeadIsPast' /\ BatchIsPast'
  <2>1. \A o \in Id : Expired(o) => Expired(o)'
    BY <1>1, <1>7, <1>8, ExpiredStays
  <2>2. DeadIsPast'
    BY <1>4, <1>6, <2>1 DEF EvidenceInv, DeadIsPast, Exists
  <2>3. BatchIsPast'
    BY <1>1, <2>1 DEF EvidenceInv, BatchIsPast, Pending, TypeOK
  <2> QED BY <2>2, <2>3
<1>10. ASSUME NEW v \in Writer PROVE WriterOK(v)'
  <2>1. CASE v = w
    <3>1. Kind[w[1]] = "stage" /\ w[1] \notin caught => row'[Own(w)].content = c \/ row'[Own(w)].dead
      <4> SUFFICES ASSUME Kind[w[1]] = "stage", w[1] \notin caught PROVE row'[Own(w)].content = c \/ row'[Own(w)].dead
        OBVIOUS
      <4>1. i = Own(w) /\ Current(w)
        BY <1>1, StageId DEF EvidenceInv, WriterOK, i
      <4>2. ~Live(i)
        BY <1>1, <4>1 DEF EvidenceInv, WriterOK, At
      <4> QED BY <1>2, <1>4, <1>6, <4>1, <4>2 DEF Live
    <3> QED BY <1>1, <1>2, <1>3, <1>5, <2>1, <3>1 DEF WriterOK, At, Own
  <2>2. CASE v # w
    <3>1. work'[v] = work[v] /\ (Current(v)' <=> Current(v))
      BY <1>1, <1>5, <2>2 DEF Current
    <3>2. \A o \in Id : GoneWith(o, work[v].content) => GoneWith(o, work[v].content)'
      BY <1>1, <1>7, <1>8, <3>1, ExpiredStays DEF GoneWith
    <3>3. ASSUME Kind[v[1]] = "stage", v[1] \notin caught
          PROVE  /\ Current(v) => row'[Own(v)] = row[Own(v)]
                 /\ \A d \in Content : row[Own(v)].content = d \/ row[Own(v)].dead
                                         => row'[Own(v)].content = d \/ row'[Own(v)].dead
      <4>1. Own(v) \in Id
        BY <3>3, OwnInId
      <4>2. ASSUME Own(v) = i, Current(v) PROVE FALSE
        <5>1. w[1] = v[1]
          BY <3>3, <4>2, StageId DEF i
        <5>2. Current(w)
          BY <1>1, <3>3, <5>1 DEF EvidenceInv, WriterOK
        <5> QED BY <2>2, <4>2, <5>1, <5>2, WriterIs DEF Current
      <4>3. \A d \in Content : d # None
        BY EvidenceAssumption DEF EvidenceAssumption
      <4> QED
        BY <1>6, <4>1, <4>2, <4>3 DEF EvidenceInv, DeadIsPast, Expired, Exists
    <3>4. work[v].content \in Content \cup {None}
      BY <1>1 DEF TypeOK, Memory
    <3>5. Kind[v[1]] = "stage" /\ v[1] \notin caught /\ Current(v) => (Live(Own(v))' <=> Live(Own(v)))
      BY <3>3 DEF Live, Exists
    <3> QED
      BY <1>1, <3>1, <3>2, <3>3, <3>4, <3>5 DEF EvidenceInv, WriterOK, At
  <2> QED BY <2>1, <2>2
<1>11. BytesUntilExpiry'
  <2> SUFFICES ASSUME NEW o \in Id, Exists(o)', ~Expired(o)'
               PROVE  \/ Download(o)' = "bytes"
                      \/ /\ Download(o)' = "missing"
                         /\ \E p \in Id \ {o} : row'[p].content = row'[o].content /\ Expired(p)'
    BY DEF BytesUntilExpiry
  <2>1. CASE Exists(o)
    <3>1. row'[o] = row[o] /\ ~Expired(o) /\ Download(o)' = Download(o)
      BY <1>1, <1>6, <1>7, <1>8, <2>1, ExpiredStays DEF Download
    <3>2. \A p \in Id : GoneWith(p, row[o].content) => row'[p].content = row'[o].content /\ Expired(p)'
      BY <1>1, <1>7, <1>8, <3>1, ExpiredStays DEF GoneWith, RowsKept, Expired
    <3> QED BY <2>1, <3>1, <3>2 DEF EvidenceInv, BytesUntilExpiry, GoneWith
  <2>2. CASE ~Exists(o)
    <3>1. o = i /\ row'[o] = fresh
      BY <1>6, <2>2 DEF Exists
    <3>2. CASE c \in object
      BY <1>1, <1>4, <3>1, <3>2 DEF Download
    <3>3. CASE c \notin object
      <4>1. PICK p \in Id : GoneWith(p, c)
        BY <1>1, <3>3 DEF EvidenceInv, WriterOK
      <4>2. p # o /\ row'[p].content = c /\ Expired(p)'
        BY <1>1, <1>7, <1>8, <2>2, <4>1, ExpiredStays DEF GoneWith, Expired, RowsKept
      <4> QED BY <1>1, <1>4, <3>1, <3>3, <4>2 DEF Download
    <3> QED BY <3>2, <3>3
  <2> QED BY <2>1, <2>2
<1> QED
  BY <1>7, <1>8, <1>9, <1>10, <1>11 DEF EvidenceInv

LEMMA EvidenceStarts == Init => EvidenceInv
<1> SUFFICES ASSUME Init PROVE EvidenceInv
  OBVIOUS
<1>1. NoRow \in Row /\ NoRow.content = None /\ ~NoRow.dead
  BY DEF NoRow, Row
<1>2. Idle \in Memory /\ Idle.at = "none"
  BY DEF Idle, Memory
<1>3. Empty \in [todo : SUBSET Id, current : Id \cup {None}] /\ Empty.todo \cup {Empty.current} = {None}
  BY DEF Empty
<1>4. TypeOK
  BY <1>1, <1>2, <1>3, EvidenceAssumption DEF EvidenceAssumption, Init, TypeOK
<1>5. DeadIsPast /\ BytesUntilExpiry
  BY <1>1 DEF Init, DeadIsPast, BytesUntilExpiry, Exists
<1>6. BatchIsPast
  BY <1>3 DEF Init, BatchIsPast, Pending
<1>7. \A w \in Writer : WriterOK(w)
  BY <1>2 DEF Init, WriterOK, At
<1> QED
  BY <1>4, <1>5, <1>6, <1>7 DEF EvidenceInv

LEMMA EvidenceSteps == EvidenceInv /\ [Next]_vars => EvidenceInv' /\ RowsKept
<1> SUFFICES ASSUME EvidenceInv, [Next]_vars PROVE EvidenceInv' /\ RowsKept
  OBVIOUS
<1>1. CASE UNCHANGED vars
  <2>1. TypeOK' /\ TypeOK
    BY <1>1 DEF EvidenceInv, TypeOK, vars, policyVars, writerVars
  <2>2. RowsKept
    BY <1>1, <2>1 DEF RowsKept, Exists, TypeOK, Row, vars
  <2>3. DeadIsPast' /\ BatchIsPast'
    BY <1>1 DEF EvidenceInv, DeadIsPast, BatchIsPast, Pending, Expired, Exists, vars
  <2> QED BY <1>1, <2>1, <2>2, <2>3, RestFollows DEF vars, Exists
<1>2. CASE Next
  BY <1>2, PutPolicyKeeps, NextDayKeeps, ClaimKeeps, CaptureKeeps, VerifyKeeps, InsertKeeps, SucceedKeeps,
     GiveUpKeeps, ClaimBatchKeeps, TombstoneKeeps, LeaseStepsKeep, DeleteObjectKeeps DEF Next, Writing, Deleting
<1> QED
  BY <1>1, <1>2

\* A download before the expiry gives the bytes, however captures, deletions, crashes
\* and policies interleave, unless the bytes went with an expired row that shared them.
THEOREM BytesStayUntilExpiry == Spec => []BytesUntilExpiry
<1>1. EvidenceInv => BytesUntilExpiry
  BY DEF EvidenceInv
<1> QED
  BY <1>1, EvidenceStarts, EvidenceSteps, PTL DEF Spec

\* What a stage's successful attempt reported is what the row of its job holds, unless
\* the stage was claimed anew while an attempt was between the check of its transaction
\* and its upsert, which no lock joins.
THEOREM ReportsStay == Spec => []ReportedIsStored
<1>1. EvidenceInv => ReportedIsStored
  BY StageId DEF EvidenceInv, WriterOK, ReportedIsStored
<1> QED
  BY <1>1, EvidenceStarts, EvidenceSteps, PTL DEF Spec

\* No step moves an expiry later or brings back what was tombstoned.
THEOREM CommitmentsAreKept == Spec => CommitmentKept
<1>1. EvidenceInv /\ [Next]_vars =>
        [\A i \in Id : Exists(i) =>
           /\ row'[i].expires <= row[i].expires
           /\ row[i].dead => row'[i] = row[i]]_vars
  BY EvidenceSteps DEF RowsKept
<1> QED
  BY <1>1, EvidenceStarts, EvidenceSteps, PTL DEF Spec, CommitmentKept
=============================================================================
