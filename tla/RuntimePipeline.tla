-------------------------- MODULE RuntimePipeline --------------------------
(***************************************************************************)
(* The collector of module Collector, the network, and the collector       *)
(* service that stores its events (services/api/app.py, storage.py).       *)
(*                                                                         *)
(* Every batch a flush sends is one POST.  The service runs its handlers   *)
(* in threads that take PostgresEventStore._lock in turn and insert a      *)
(* batch in one transaction of the single connection the store opened at   *)
(* start-up.  The service may crash, the connection may break (nothing     *)
(* reopens it before a restart), requests and replies may be lost, and a   *)
(* batch may be posted again.                                              *)
(***************************************************************************)
EXTENDS Collector

VARIABLES
    serverUp,   \* the service runs
    connected,  \* PostgresEventStore._conn is usable
    requests,   \* batches on the wire, or whose handler waits for _lock
    txn,        \* the transaction of the handler that holds _lock
    operation,  \* table operation: the ids with a committed row
    statement,  \* table statement: committed rows of each operation
    accepted    \* batches a 202 was sent for

tables == <<operation, statement>>
serverVars == <<serverUp, connected, requests, txn, tables, accepted>>

(* The uncommitted state of the transaction: it sees the committed rows    *)
(* and its own inserts.                                                    *)
NoTxn == [stage |-> "none", batch |-> <<>>, operation |-> {}, statement |-> [op \in Ops |-> 0]]
Txns == [stage : {"none", "begun", "operations", "statements"}, batch : Seq(Ops),
         operation : SUBSET Ops, statement : [Ops -> 0..MaxStatements]]

PipelineTypeOK ==
    /\ TypeOK
    /\ serverUp \in BOOLEAN
    /\ connected \in BOOLEAN
    /\ requests \subseteq Seq(Ops)
    /\ txn \in Txns
    /\ operation \subseteq Ops
    /\ statement \in [Ops -> 0..MaxStatements]
    /\ accepted \subseteq Seq(Ops)

PipelineInit ==
    /\ Init
    /\ serverUp = TRUE
    /\ connected = TRUE
    /\ requests = {}
    /\ txn = NoTxn
    /\ operation = {}
    /\ statement = [op \in Ops |-> 0]
    /\ accepted = {}
----------------------------------------------------------------------------
(* The application. *)

(* send() posts the batch a flush has just taken. *)
Post ==
    /\ requests' = requests \union (inflight' \ inflight)
    /\ UNCHANGED <<serverUp, connected, txn, tables, accepted>>

Answered_AnyStatus(batch, ok) == ok => batch \notin requests

(* response.ok: only a batch the service answered 202 for resolves.  Any   *)
(* send may reject, the five-second abort comes whatever the service does. *)
Answered(batch, ok) == ok => batch \in accepted

Application ==
    /\ up
    /\ \/ RequestPath \/ TimerFire \/ ImmediateFire \/ FlushCall \/ Exit
       \/ \E batch \in inflight, ok \in BOOLEAN : Answered(batch, ok) /\ SettleBatch(batch, ok)
    /\ Post
----------------------------------------------------------------------------
(* The network. *)

(* A connection refused or reset before the handler did anything. *)
LoseRequest ==
    /\ \E batch \in requests : requests' = requests \ {batch}
    /\ UNCHANGED <<vars, serverUp, connected, txn, tables, accepted>>

(* A batch that was posted reaches the service once more (the tests post   *)
(* one twice).                                                             *)
Redeliver ==
    /\ \E batch \in inflight \union accepted : requests' = requests \union {batch}
    /\ UNCHANGED <<vars, serverUp, connected, txn, tables, accepted>>
----------------------------------------------------------------------------
(* The service: POST /v1/operations. *)

(* A handler gets _lock and opens a transaction. *)
BeginIngest(batch) ==
    /\ txn.stage = "none"
    /\ connected
    /\ txn' = [stage |-> "begun", batch |-> batch, operation |-> operation, statement |-> statement]
    /\ requests' = requests \ {batch}
    /\ UNCHANGED <<connected, tables, accepted>>

(* On a closed connection opening the transaction raises: a 500. *)
RefuseIngest(batch) ==
    /\ txn.stage = "none"
    /\ ~connected
    /\ requests' = requests \ {batch}
    /\ UNCHANGED <<connected, txn, tables, accepted>>

InsertOperations_Autocommit ==
    /\ txn.stage = "begun"
    /\ txn' = [txn EXCEPT !.stage = "operations",
                          !.operation = @ \union Range(txn.batch)]
    /\ operation' = operation \union Range(txn.batch)
    /\ UNCHANGED <<connected, requests, statement, accepted>>

(* ON CONFLICT (operation_id) DO NOTHING *)
InsertOperations ==
    /\ txn.stage = "begun"
    /\ txn' = [txn EXCEPT !.stage = "operations",
                          !.operation = @ \union Range(txn.batch)]
    /\ UNCHANGED <<connected, requests, tables, accepted>>

WithRows_Appended(rows, op) == rows[op] + shipped[op]

(* One row per position 0, 1, ..., present positions are left alone:       *)
(* ON CONFLICT (operation_id, position) DO NOTHING.                        *)
WithRows(rows, op) == IF rows[op] < shipped[op] THEN shipped[op] ELSE rows[op]

InsertStatements ==
    /\ txn.stage = "operations"
    /\ txn' = [txn EXCEPT !.stage = "statements",
                          !.statement = [op \in Ops |-> IF op \in Range(txn.batch)
                                                        THEN WithRows(@, op) ELSE @[op]]]
    /\ UNCHANGED <<connected, requests, tables, accepted>>

Publish == operation' = txn.operation /\ statement' = txn.statement

(* Leaving the with block commits and releases _lock; the handler answers  *)
(* 202.  An answer that does not arrive is a send that rejects.            *)
Commit ==
    /\ txn.stage = "statements"
    /\ Publish
    /\ txn' = NoTxn
    /\ accepted' = accepted \union {txn.batch}
    /\ UNCHANGED <<connected, requests>>

(* An insert raises: the transaction rolls back and the answer is a 500. *)
Rollback ==
    /\ txn.stage # "none"
    /\ txn' = NoTxn
    /\ UNCHANGED <<connected, requests, tables, accepted>>

(* The database drops the connection.  A transaction that was committing   *)
(* may have been committed, the handler sees an error either way.          *)
ConnectionLost ==
    /\ connected
    /\ connected' = FALSE
    /\ txn' = NoTxn
    /\ UNCHANGED tables \/ (txn.stage = "statements" /\ Publish)
    /\ UNCHANGED <<requests, accepted>>

Service ==
    /\ serverUp
    /\ \/ \E batch \in requests : BeginIngest(batch) \/ RefuseIngest(batch)
       \/ InsertOperations \/ InsertStatements \/ Commit \/ Rollback \/ ConnectionLost
    /\ UNCHANGED <<vars, serverUp>>

(* The service process dies with the requests it was handling ... *)
ServerCrash ==
    /\ serverUp
    /\ serverUp' = FALSE
    /\ requests' = {}
    /\ txn' = NoTxn
    /\ UNCHANGED tables \/ (txn.stage = "statements" /\ Publish)
    /\ UNCHANGED <<vars, connected, accepted>>

(* ... and starting it again opens a new connection. *)
ServerStart ==
    /\ ~serverUp
    /\ serverUp' = TRUE
    /\ connected' = TRUE
    /\ UNCHANGED <<vars, requests, txn, tables, accepted>>

PipelineNext ==
    \/ Application
    \/ LoseRequest \/ Redeliver
    \/ Service \/ ServerCrash \/ ServerStart

pipelineVars == <<vars, serverVars>>

PipelineSpec == PipelineInit /\ [][PipelineNext]_pipelineVars
----------------------------------------------------------------------------
(***************************************************************************)
(* What the collector counts as sent is in the results database, with the  *)
(* SQL that was in the request, and that is at least all its operation had *)
(* executed when it ended; a crash, a broken connection or a lost reply    *)
(* never turns a delivered event into a missing one.                       *)
(***************************************************************************)
SentIsStored ==
    \A op \in Ops : fate[op] = "sent" =>
        /\ op \in operation
        /\ statement[op] = shipped[op]
        /\ statement[op] >= ended[op]

(***************************************************************************)
(* The analyzers that read the results database never see an operation     *)
(* without its SQL, nor SQL without its operation, and no part of a batch: *)
(* a request is stored as a whole or not at all.                           *)
(***************************************************************************)
StoredWhole ==
    /\ \A op \in Ops : statement[op] = IF op \in operation THEN shipped[op] ELSE 0
    /\ \A batch \in inflight \union requests \union accepted :
          Range(batch) \subseteq operation \/ Range(batch) \intersect operation = {}

(***************************************************************************)
(* Stored rows never change or disappear, also when a batch is delivered   *)
(* again after it was stored.                                              *)
(***************************************************************************)
StoredIsFinal ==
    [][ /\ operation \subseteq operation'
        /\ \A op \in operation : statement'[op] = statement[op] ]_pipelineVars

Delivered == INSTANCE DeliveryLedger

(***************************************************************************)
(* Collector, network and service together are a DeliveryLedger: requests  *)
(* are stored whole, once, for good, with all their operations had         *)
(* executed, and an event counts as sent only when it is stored.           *)
(***************************************************************************)
ImplementsDelivery == Delivered!DeliverySpec
============================================================================
