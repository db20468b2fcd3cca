------------------------------- MODULE Outbox -------------------------------
(***************************************************************************)
(* The store-and-forward queue of the Raspberry Pi receiver: the outbox    *)
(* table of radio_tracker.py, filled by enqueue_detection on the threads   *)
(* of contact timers and emptied by sync_outbox on the sync thread.        *)
(*                                                                         *)
(* The process may die between any two steps; the table survives and the   *)
(* sync thread's variables do not.  A row is identified by its id, and its *)
(* payload is abstracted to whether the server's validation will take it.  *)
(* The server is external: it is modelled from how sync_outbox reads its   *)
(* answers.                                                                *)
(***************************************************************************)
EXTENDS Integers, FiniteSets, FiniteSetsExt

CONSTANTS
  MaxRows,    \* how many detections are logged (a bound)
  BatchSize,  \* OUTBOX_BATCH_SIZE
  ErrorCap,   \* how many refused rows one answer of the server lists
  MaxFaults   \* lost requests and answers, failed commits and crashes (a bound)

ASSUME OutboxAssumption ==
  /\ MaxRows \in Nat /\ MaxFaults \in Nat
  /\ BatchSize \in Nat \ {0}
  /\ ErrorCap \in Nat

Ids == 1..MaxRows

VARIABLES
  row,      \* id -> state of the row, "absent" when there is none
  valid,    \* the rows the server's validation takes
  logged,   \* how many detections log_and_alert has recorded
  enqueue_failures,
  sync,     \* where sync_outbox is
  batch,    \* the ids it selected
  reply,    \* the indices the server's answer lists as errors
  copies,   \* id -> how many times the server has stored it
  refused,  \* the rows the server has refused
  faults    \* how many faults there have been

outboxVars == <<row, valid, logged, enqueue_failures, sync, batch, reply, copies, refused, faults>>
server == <<copies, refused>>

OutboxTypeOK ==
  /\ row \in [Ids -> {"absent", "pending", "sent", "error"}]
  /\ valid \subseteq Ids
  /\ logged \in 0..MaxRows /\ enqueue_failures \in 0..MaxRows
  /\ sync \in {"idle", "posting", "answered"}
  /\ batch \subseteq Ids
  /\ reply \subseteq Nat
  /\ copies \in [Ids -> Nat]
  /\ refused \subseteq Ids
  /\ faults \in 0..MaxFaults

OutboxInit ==
  /\ row = [i \in Ids |-> "absent"]
  /\ valid = {}
  /\ logged = 0 /\ enqueue_failures = 0
  /\ sync = "idle" /\ batch = {} /\ reply = {}
  /\ copies = [i \in Ids |-> 0]
  /\ refused = {}
  /\ faults = 0

-----------------------------------------------------------------------------
(* The table.                                                              *)

Pending == {i \in Ids : row[i] = "pending"}
Unsent == {i \in Ids : row[i] \in {"pending", "error"}}
Present == {i \in Ids : row[i] # "absent"}

\* The position of id i when S is listed by id: the index the server sees.
Index(S, i) == Cardinality({j \in S : j < i})

\* ORDER BY id LIMIT BatchSize
OldestFirst(S) == {i \in S : Index(S, i) < BatchSize}
UnsentFirst(S) == OldestFirst(Unsent)
Selected(S) == OldestFirst(S)

\* AUTOINCREMENT gives a row an id above every other.
NextId == Cardinality(Present) + 1

\* enqueue_detection
Enqueue ==
  /\ logged < MaxRows
  /\ logged' = logged + 1
  /\ row' = [row EXCEPT ![NextId] = "pending"]
  /\ valid' \in {valid, valid \cup {NextId}}
  /\ UNCHANGED <<enqueue_failures, sync, batch, reply, server, faults>>

\* Its except branch: the detection stays in the CSV and the failure is counted.
EnqueueFails ==
  /\ logged < MaxRows
  /\ logged' = logged + 1
  /\ enqueue_failures' = enqueue_failures + 1
  /\ UNCHANGED <<row, valid, sync, batch, reply, server, faults>>

-----------------------------------------------------------------------------
(* sync_outbox.                                                            *)

\* The SELECT, outside any transaction: rows may be added while the batch is
\* in flight.
Select ==
  /\ sync = "idle"
  /\ Pending # {}
  /\ batch' = Selected(Pending)
  /\ sync' = "posting"
  /\ UNCHANGED <<row, valid, logged, enqueue_failures, reply, server, faults>>

\* The server stores the rows it takes and lists the others by index, as many
\* as fit its answer; a batch with nothing to take is answered 400 with the
\* same body, which sync_outbox reads alike.
Answer ==
  /\ sync = "posting"
  /\ copies' = [i \in Ids |-> IF i \in batch \cap valid THEN copies[i] + 1 ELSE copies[i]]
  /\ refused' = refused \cup (batch \ valid)
  /\ LET bad == {Index(batch, i) : i \in batch \ valid}
     IN  \E listed \in SUBSET bad :
           /\ Cardinality(listed) = Min({Cardinality(bad), ErrorCap})
           /\ reply' = listed
  /\ sync' = "answered"
  /\ UNCHANGED <<row, valid, logged, enqueue_failures, batch, faults>>

\* rejected: the ids the answer's indices stand for.
NoneRejected(ids, indices) == {}
Rejected(ids, indices) == {i \in ids : Index(ids, i) \in indices}

\* Both UPDATEs and their one commit.
Mark ==
  /\ sync = "answered"
  /\ row' = [i \in Ids |-> IF i \notin batch THEN row[i]
                           ELSE IF i \in Rejected(batch, reply) THEN "error" ELSE "sent"]
  /\ sync' = "idle" /\ batch' = {} /\ reply' = {}
  /\ UNCHANGED <<valid, logged, enqueue_failures, server, faults>>

\* sync_outbox ends without having marked anything: the connection failed before
\* or after the server saw the batch, its answer could not be read, the database
\* stayed locked, or the process died.  The rows are selected again.
Abandon ==
  /\ sync # "idle"
  /\ faults < MaxFaults
  /\ faults' = faults + 1
  /\ sync' = "idle" /\ batch' = {} /\ reply' = {}
  /\ UNCHANGED <<row, valid, logged, enqueue_failures, server>>

\* Every detection was logged and every row settled.
Drained == logged = MaxRows /\ sync = "idle" /\ Pending = {} /\ UNCHANGED outboxVars

OutboxNext == Enqueue \/ EnqueueFails \/ Select \/ Answer \/ Mark \/ Abandon \/ Drained

OutboxSpec == OutboxInit /\ [][OutboxNext]_outboxVars

\* The sync loop keeps running; the server answers in the end, since faults are
\* finite.
OutboxFairness == WF_outboxVars(Select) /\ WF_outboxVars(Answer) /\ WF_outboxVars(Mark)

OutboxFairSpec == OutboxSpec /\ OutboxFairness
-----------------------------------------------------------------------------
(* Properties.                                                             *)

\* A row is marked sent only when the server has stored it ("Marking the whole
\* batch sent on any 2xx quietly discarded exactly the rows that needed
\* attention").
SentIsStored == \A i \in Ids : row[i] = "sent" => copies[i] > 0

\* A row is set aside for good only when the server refused that row: the index
\* in the answer is taken for the right id even though rows arrived meanwhile.
ErrorIsRefused == \A i \in Ids : row[i] = "error" => i \in refused

\* Every queued row is settled in the end: refused rows never block the queue
\* behind them.
EveryRowIsSettled == \A i \in Ids : row[i] = "pending" ~> row[i] \in {"sent", "error"}

\* The queue delivers: what Delivery promises, with a row as the detection.
D == INSTANCE Delivery WITH
       Detections <- Ids,
       queued     <- Present,
       delivered  <- {i \in Ids : row[i] = "sent"},
       setAside   <- {i \in Ids : row[i] = "error"},
       kept       <- {i \in Ids : copies[i] > 0},
       refused    <- refused
Delivers == D!DeliverySpec
=============================================================================
