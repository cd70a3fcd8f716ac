----------------------------- MODULE AuditEvents -----------------------------
(***************************************************************************)
(* The event log of one audit and its resumable stream (audit-events):      *)
(* writers append under the audit's row lock, a poller sends the rows after *)
(* its cursor, and a client that lost its connection, or whose server       *)
(* restarted, comes back with the last event number it received.            *)
(***************************************************************************)
EXTENDS Integers, Sequences

CONSTANTS
  Appender,     \* processes that append
  MaxEvents,  \* bound on the rows
  Batch,      \* rows one poll may take
  MaxDrops    \* connections lost

EventsAssumption ==
  /\ "free" \notin Appender
  /\ MaxEvents \in Nat /\ Batch \in Nat \ {0} /\ MaxDrops \in Nat

VARIABLES
  rows,      \* AuditEvent: the rows committed carry the sequences 1..rows
  lock,      \* the writer that holds the audit's row lock, or "free"
  mine,      \* mine[w]: the sequence writer w is about to insert, 0 if none
  refused,   \* an insert met the unique index on the sequence
  stream,    \* the server's side of the connection
  wire,      \* events sent and not yet received
  received,  \* what the client saw, over all its connections
  drops

eventVars == <<rows, lock, mine, refused, stream, wire, received, drops>>

\* polls: the cursors with which polls under way called listAfter.
Closed == [open |-> FALSE, cursor |-> 0, polling |-> FALSE, polls |-> <<>>]
LastSeen == IF received = <<>> THEN 0 ELSE received[Len(received)]

EventsInit ==
  /\ rows = 0 /\ lock = "free" /\ mine = [w \in Appender |-> 0] /\ refused = FALSE
  /\ stream = Closed /\ wire = <<>> /\ received = <<>> /\ drops = 0
-----------------------------------------------------------------------------
(* append: one transaction. *)

\* Mutant: the transaction does not lock the audit.
NotLocked(w) == TRUE
LockFree(w) == lock = "free"

ReadLast(w) ==
  /\ LockFree(w) /\ mine[w] = 0 /\ rows < MaxEvents
  /\ lock' = w /\ mine' = [mine EXCEPT ![w] = rows + 1]
  /\ UNCHANGED <<rows, refused, stream, wire, received, drops>>

Insert(w) ==
  /\ mine[w] > 0
  /\ IF mine[w] > rows THEN rows' = mine[w] /\ UNCHANGED refused
                       ELSE refused' = TRUE /\ UNCHANGED rows
  /\ lock' = "free" /\ mine' = [mine EXCEPT ![w] = 0]
  /\ UNCHANGED <<stream, wire, received, drops>>

\* The writer dies: its transaction is rolled back.
Rollback(w) ==
  /\ mine[w] > 0 /\ drops < MaxDrops /\ drops' = drops + 1
  /\ lock' = "free" /\ mine' = [mine EXCEPT ![w] = 0]
  /\ UNCHANGED <<rows, refused, stream, wire, received>>
-----------------------------------------------------------------------------
(* stream: the cursor of a new connection is the client's Last-Event-ID. *)

Connect ==
  /\ ~stream.open
  /\ stream' = [Closed EXCEPT !.open = TRUE, !.cursor = LastSeen]
  /\ UNCHANGED <<rows, lock, mine, refused, wire, received, drops>>

\* Mutant: the timer polls although a poll is under way.
AlwaysIdle == Len(stream.polls) < 2
Idle == ~stream.polling

StartPoll ==
  /\ stream.open /\ Idle
  /\ stream' = [stream EXCEPT !.polling = TRUE, !.polls = Append(@, stream.cursor)]
  /\ UNCHANGED <<rows, lock, mine, refused, wire, received, drops>>

\* listAfter answers with the rows after the poll's cursor, oldest first.
ListAfter(after) == [i \in 1..(IF rows - after < Batch THEN rows - after ELSE Batch) |-> after + i]

\* Mutant: the poll does not take back its flag.
StillPolling == TRUE
PollingAfter == FALSE

Deliver ==
  /\ stream.open /\ stream.polls # <<>>
  /\ LET events == ListAfter(Head(stream.polls))
     IN  /\ wire' = wire \o events
         /\ stream' = [stream EXCEPT !.polling = PollingAfter, !.polls = Tail(@),
                         !.cursor = IF events = <<>> THEN @ ELSE events[Len(events)]]
  /\ UNCHANGED <<rows, lock, mine, refused, received, drops>>

Receive ==
  /\ wire # <<>>
  /\ received' = Append(received, Head(wire)) /\ wire' = Tail(wire)
  /\ UNCHANGED <<rows, lock, mine, refused, stream, drops>>

\* The query fails, the client leaves or the API restarts: what was sent is lost.
Disconnect ==
  /\ stream.open /\ drops < MaxDrops /\ drops' = drops + 1
  /\ stream' = Closed /\ wire' = <<>>
  /\ UNCHANGED <<rows, lock, mine, refused, received>>

EventsNext ==
  \/ \E w \in Appender : ReadLast(w) \/ Insert(w) \/ Rollback(w)
  \/ Connect \/ StartPoll \/ Deliver \/ Receive \/ Disconnect

\* The timer fires, queries answer and the client reconnects.
EventsFairness ==
  WF_eventVars(Connect) /\ WF_eventVars(StartPoll) /\ WF_eventVars(Deliver) /\ WF_eventVars(Receive)

EventsSpec == EventsInit /\ [][EventsNext]_eventVars /\ EventsFairness
-----------------------------------------------------------------------------
\* Across writers that race, lost connections and restarts the client sees every
\* event once and in the order of its number, and no append is refused.
EventsInOrder == ~refused /\ received = [i \in 1..Len(received) |-> i]

\* The client catches up: however writers append and connections are lost, there is
\* always a later moment at which it has received every event that is committed.
EventsArrive == []<>(Len(received) >= rows)
=============================================================================
