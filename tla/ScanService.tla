---------------------------- MODULE ScanService ----------------------------
(***************************************************************************)
(* The scan routes of the dashboard API (services/api/dashboard/app.py),   *)
(* the scan they run (scan.py) and the table it is kept in (store.py).     *)
(*                                                                         *)
(* Handlers run in threads.  _scan_lock admits one scan at a time, but all *)
(* handlers share the ScanStore, and with it one ReconnectingConnection:   *)
(* a statement of any handler that is executed while ScanStore.finish has  *)
(* its transaction open becomes part of that transaction.                  *)
(*                                                                         *)
(* A request that scans is identified with the scan_id it draws, and every *)
(* user has at most one project.                                           *)
(***************************************************************************)
EXTENDS Naturals, FiniteSets

CONSTANTS
    Requests,   \* HTTP requests
    Users,
    None,       \* no request
    MaxFaults   \* bound of the model: lost connections and crashes of the API

ASSUME ScanAssumption ==
    /\ None \notin Requests
    /\ MaxFaults \in Nat

VARIABLES
    call,       \* what each request asks for
    pc,         \* where its handler is
    answer,     \* its HTTP status
    lock,       \* _scan_lock: the request that holds it
    rows,       \* dashboard.scan and dashboard.finding, committed
    txn,        \* the transaction of ScanStore.finish
    faults,     \* lost connections and crashes so far
    found,      \* history: the pipeline found something to store
    deleted,    \* history: the scans a delete request found
    disturbed   \* history: scans a retried insert or mark as failed raised for, and scans
                \* whose transaction another request made fail before its COMMIT

vars == <<call, pc, answer, lock, rows, txn, faults, found, deleted, disturbed>>

Kinds == {"app", "project", "rescan", "delete", "badId"}
ScanKinds == {"app", "project", "rescan"}
ProjectKinds == {"project", "rescan"}

NoCall == [kind |-> "none", user |-> None]
Calls == {NoCall} \union [kind : Kinds, user : Users]

(* A row of dashboard.scan, and whether dashboard.finding holds its        *)
(* findings.                                                               *)
Row == [status : {"absent", "running", "ok", "failed"}, findings : BOOLEAN]
Absent == [status |-> "absent", findings |-> FALSE]
Tables == [Requests -> Row]

NoTxn == [owner |-> None, table |-> [r \in Requests |-> Absent], aborted |-> FALSE]

(* From the pipeline to the commit a handler is inside the try of run_scan. *)
Pipeline == {"layers", "setSource", "begin", "findings", "update", "commit"}
Critical == Pipeline \union {"start", "fail", "release"}

ScanTypeOK ==
    /\ call \in [Requests -> Calls]
    /\ pc \in [Requests -> {"new", "resolve", "lock", "done", "gone"} \union Critical]
    /\ answer \in [Requests -> {0, 201, 204, 404, 409, 500, 502}]
    /\ lock \in Requests \union {None}
    /\ rows \in Tables
    /\ txn \in [owner : Requests \union {None}, table : Tables, aborted : BOOLEAN]
    /\ faults \in 0..MaxFaults
    /\ found \in [Requests -> BOOLEAN]
    /\ deleted \in [Requests -> SUBSET Requests]
    /\ disturbed \subseteq Requests

Init ==
    /\ call = [r \in Requests |-> NoCall]
    /\ pc = [r \in Requests |-> "new"]
    /\ answer = [r \in Requests |-> 0]
    /\ lock = None
    /\ rows = [r \in Requests |-> Absent]
    /\ txn = NoTxn
    /\ faults = 0
    /\ found = [r \in Requests |-> FALSE]
    /\ deleted = [r \in Requests |-> {}]
    /\ disturbed = {}

GoTo(r, where) == pc' = [pc EXCEPT ![r] = where]

Answer(r, status) ==
    /\ pc' = [pc EXCEPT ![r] = "done"]
    /\ answer' = [answer EXCEPT ![r] = status]
----------------------------------------------------------------------------
(* Statements on the shared connection. *)

TxnOpen == txn.owner # None

(* What a statement sees: an open transaction is everybody's. *)
View == IF TxnOpen THEN txn.table ELSE rows

(* store.projects(user): the scans of a user's project. *)
ProjectRows(table, user) ==
    {r \in Requests : /\ call[r].kind \in ProjectKinds
                      /\ call[r].user = user
                      /\ table[r].status # "absent"}

(* A statement, of the request for scan r and of its user. *)
Statement(op, r, user) == [op |-> op, scan |-> r, user |-> user]
Of(r, op) == Statement(op, r, call[r].user)

SetStatus_Unknown(table, r, status) ==
    IF table[r].status = "absent" THEN table
    ELSE [table EXCEPT ![r].status = IF status = "failed" THEN "error" ELSE status]

SetStatus(table, r, status) ==
    IF table[r].status = "absent" THEN table ELSE [table EXCEPT ![r].status = status]

(* The table after a statement.  Findings are deleted with their scan      *)
(* (ON DELETE CASCADE).                                                    *)
Applied(st, table) ==
    CASE st.op = "insert" -> [table EXCEPT ![st.scan] = [status |-> "running", findings |-> FALSE]]
      [] st.op = "fail"   -> SetStatus(table, st.scan, "failed")
      [] st.op = "delete" -> [q \in Requests |-> IF q \in ProjectRows(table, st.user)
                                                 THEN Absent ELSE table[q]]
      [] OTHER            -> table

(* A second insert of a primary key, a text that is not a uuid. *)
Rejected(st, table) ==
    \/ st.op = "insert" /\ table[st.scan].status # "absent"
    \/ st.op = "badId"

(* ReconnectingConnection.execute while the server keeps the connection.   *)
(* An error inside a transaction makes the rest of it fail.                *)
ExecuteOnce(st, raised) ==
    /\ raised = (txn.aborted \/ Rejected(st, View))
    /\ UNCHANGED faults
    /\ CASE raised /\ TxnOpen   -> /\ txn' = [txn EXCEPT !.aborted = TRUE]
                                   /\ disturbed' = disturbed \union
                                        {o \in {txn.owner} : pc[o] = "commit"}
                                   /\ UNCHANGED rows
         [] raised /\ ~TxnOpen  -> UNCHANGED <<rows, txn, disturbed>>
         [] ~raised /\ TxnOpen  -> /\ txn' = [txn EXCEPT !.table = Applied(st, @)]
                                   /\ UNCHANGED <<rows, disturbed>>
         [] OTHER               -> /\ rows' = Applied(st, rows)
                                   /\ UNCHANGED <<txn, disturbed>>

(* What the server had committed when the connection was lost: in an open  *)
(* transaction nothing, otherwise the statement may have been executed.    *)
AfterLoss(st) ==
    IF TxnOpen \/ Rejected(st, rows) THEN {rows} ELSE {rows, Applied(st, rows)}

(* The connection is lost during the statement: it is executed once more   *)
(* on a new connection, which may not open either.                         *)
ExecuteTwice(st, raised, seen) ==
    /\ faults < MaxFaults
    /\ faults' = faults + 1
    /\ txn' = NoTxn
    /\ disturbed' = IF raised /\ st.op \in {"insert", "fail"}
                    THEN disturbed \union {st.scan} ELSE disturbed
    /\ seen \in AfterLoss(st)
    /\ \/ raised /\ rows' = seen
       \/ /\ raised = Rejected(st, seen)
          /\ rows' = IF raised THEN seen ELSE Applied(st, seen)

(* `seen` is the table the attempt that counts ran on. *)
Execute(st, raised, seen) ==
    \/ seen = View /\ ExecuteOnce(st, raised)
    \/ ExecuteTwice(st, raised, seen)

Tried(st) == {View} \union AfterLoss(st)
----------------------------------------------------------------------------
(* POST /v1/apps/{app}/scans, /v1/projects/scans, /v1/projects/{name}/rescan *)

Ask(r, kind, user) ==
    /\ pc[r] = "new"
    /\ call' = [call EXCEPT ![r] = [kind |-> kind, user |-> user]]

StartScan(r) ==
    /\ \E user \in Users :
          \/ Ask(r, "app", user) /\ GoTo(r, "lock")
          \/ Ask(r, "project", user) /\ GoTo(r, "resolve")
    /\ UNCHANGED <<answer, lock, rows, txn, faults, found, deleted, disturbed>>

(* store.projects names the project to scan again, if the user has one. *)
RescanProject(r) ==
    /\ \E user \in Users, raised \in BOOLEAN :
       LET st == Statement("projects", r, user) IN
       \E seen \in Tried(st) :
          /\ Ask(r, "rescan", user)
          /\ Execute(st, raised, seen)
          /\ CASE raised -> Answer(r, 500)
               [] ~raised /\ ProjectRows(seen, user) = {} -> Answer(r, 404)
               [] OTHER -> GoTo(r, "resolve") /\ UNCHANGED answer
    /\ UNCHANGED <<lock, found, deleted>>

(* resolve() clones or pulls the project before the lock is asked for; it  *)
(* may fail, or give the project the name of a built-in app.               *)
Resolve(r) ==
    /\ pc[r] = "resolve"
    /\ \/ GoTo(r, "lock") /\ UNCHANGED answer
       \/ \E status \in {409, 502} : Answer(r, status)
    /\ UNCHANGED <<call, lock, rows, txn, faults, found, deleted, disturbed>>

AcquireLock_Blind(r) ==
    /\ pc[r] = "lock"
    /\ lock' = r /\ GoTo(r, "start") /\ UNCHANGED answer
    /\ UNCHANGED <<call, rows, txn, faults, found, deleted, disturbed>>

(* acquire(blocking=False) *)
AcquireLock(r) ==
    /\ pc[r] = "lock"
    /\ IF lock = None
       THEN lock' = r /\ GoTo(r, "start") /\ UNCHANGED answer
       ELSE Answer(r, 409) /\ UNCHANGED lock
    /\ UNCHANGED <<call, rows, txn, faults, found, deleted, disturbed>>

(* The status the handler will answer once it has released the lock. *)
Conclude(r, status) ==
    /\ GoTo(r, "release")
    /\ answer' = [answer EXCEPT ![r] = status]

Start_KeepsLock(r) ==
    /\ pc[r] = "start"
    /\ \E raised \in BOOLEAN, seen \in Tried(Of(r, "insert")) :
          /\ Execute(Of(r, "insert"), raised, seen)
          /\ IF raised THEN Answer(r, 500) ELSE GoTo(r, "layers") /\ UNCHANGED answer
    /\ UNCHANGED <<call, lock, found, deleted>>

(* store.start is called before the try: when it raises nobody marks the   *)
(* scan failed.                                                            *)
Start(r) ==
    /\ pc[r] = "start"
    /\ \E raised \in BOOLEAN, seen \in Tried(Of(r, "insert")) :
          /\ Execute(Of(r, "insert"), raised, seen)
          /\ IF raised THEN Conclude(r, 500) ELSE GoTo(r, "layers") /\ UNCHANGED answer
    /\ UNCHANGED <<call, lock, found, deleted>>

RunLayers_Unhandled(r) ==
    /\ pc[r] = "layers"
    /\ \/ Conclude(r, 500) /\ UNCHANGED found
       \/ /\ GoTo(r, IF call[r].kind = "app" THEN "begin" ELSE "setSource")
          /\ \E some \in BOOLEAN : found' = [found EXCEPT ![r] = some]
          /\ UNCHANGED answer
    /\ UNCHANGED <<call, lock, rows, txn, faults, deleted, disturbed>>

(* The providers of the evidence layers and correlate(); any may raise.    *)
RunLayers(r) ==
    /\ pc[r] = "layers"
    /\ \/ GoTo(r, "fail") /\ UNCHANGED found
       \/ /\ GoTo(r, IF call[r].kind = "app" THEN "begin" ELSE "setSource")
          /\ \E some \in BOOLEAN : found' = [found EXCEPT ![r] = some]
    /\ UNCHANGED <<call, answer, lock, rows, txn, faults, deleted, disturbed>>

SetSource(r) ==
    /\ pc[r] = "setSource"
    /\ \E raised \in BOOLEAN, seen \in Tried(Of(r, "setSource")) :
          /\ Execute(Of(r, "setSource"), raised, seen)
          /\ GoTo(r, IF raised THEN "fail" ELSE "begin")
    /\ UNCHANGED <<call, answer, lock, found, deleted>>
----------------------------------------------------------------------------
(* ScanStore.finish: one transaction on the live connection, no retry. *)

(* live() or BEGIN raises when the connection was lost and does not open.  *)
BeginTxn(r) ==
    /\ pc[r] = "begin"
    /\ \/ /\ txn' = [owner |-> r, table |-> rows, aborted |-> FALSE]
          /\ GoTo(r, "findings") /\ UNCHANGED faults
       \/ /\ faults < MaxFaults /\ faults' = faults + 1
          /\ GoTo(r, "fail") /\ UNCHANGED txn
    /\ UNCHANGED <<call, answer, lock, rows, found, deleted, disturbed>>

(* A statement raises: the with block rolls back, the except marks the     *)
(* scan failed.                                                            *)
RollBack(r) ==
    /\ txn' = IF txn.owner = r THEN NoTxn ELSE txn
    /\ GoTo(r, "fail")

(* The transaction of r can go on: the connection was not lost under it    *)
(* and no statement in it has failed.                                      *)
InTxn(r) == txn.owner = r /\ ~txn.aborted

(* Findings need their scan's row (a foreign key); none need nothing. *)
InsertFindings(r) ==
    /\ pc[r] = "findings"
    /\ IF InTxn(r) /\ (found[r] => txn.table[r].status # "absent")
       THEN txn' = [txn EXCEPT !.table[r].findings = found[r]] /\ GoTo(r, "update")
       ELSE RollBack(r)
    /\ UNCHANGED <<call, answer, lock, rows, faults, found, deleted, disturbed>>

UpdateScan_Upserts(r) ==
    /\ pc[r] = "update"
    /\ IF InTxn(r)
       THEN /\ txn' = [txn EXCEPT !.table[r].status = "ok"]
            /\ GoTo(r, "commit")
       ELSE RollBack(r)
    /\ UNCHANGED <<call, answer, lock, rows, faults, found, deleted, disturbed>>

UpdateScan_OwnTransaction(r) ==
    /\ pc[r] = "update"
    /\ IF InTxn(r)
       THEN /\ txn' = [txn EXCEPT !.table = SetStatus(@, r, "ok")]
            /\ rows' = SetStatus(rows, r, "ok")
            /\ GoTo(r, "commit")
       ELSE RollBack(r) /\ UNCHANGED rows
    /\ UNCHANGED <<call, answer, lock, faults, found, deleted, disturbed>>

(* An UPDATE of a row that is gone changes nothing and raises nothing. *)
UpdateScan(r) ==
    /\ pc[r] = "update"
    /\ IF InTxn(r)
       THEN txn' = [txn EXCEPT !.table = SetStatus(@, r, "ok")] /\ GoTo(r, "commit")
       ELSE RollBack(r)
    /\ UNCHANGED <<call, answer, lock, rows, faults, found, deleted, disturbed>>

(* The with block ends.  COMMIT of a transaction that has failed rolls it  *)
(* back and reports no error.                                              *)
CommitTxn(r) ==
    /\ pc[r] = "commit"
    /\ IF txn.owner = r
       THEN /\ rows' = IF txn.aborted THEN rows ELSE txn.table
            /\ txn' = NoTxn
            /\ Conclude(r, 201)
       ELSE RollBack(r) /\ UNCHANGED <<rows, answer>>
    /\ UNCHANGED <<call, lock, faults, found, deleted, disturbed>>

(* The connection is lost under the transaction: it is rolled back, or the *)
(* reply to its COMMIT was lost.                                           *)
LoseTxn ==
    /\ TxnOpen
    /\ faults < MaxFaults
    /\ faults' = faults + 1
    /\ txn' = NoTxn
    /\ UNCHANGED rows \/ (pc[txn.owner] = "commit" /\ ~txn.aborted /\ rows' = txn.table)
    /\ UNCHANGED <<call, pc, answer, lock, found, deleted, disturbed>>

(* store.fail: whether it raises or not, the handler answers 500. *)
MarkFailed(r) ==
    /\ pc[r] = "fail"
    /\ \E raised \in BOOLEAN, seen \in Tried(Of(r, "fail")) : Execute(Of(r, "fail"), raised, seen)
    /\ Conclude(r, 500)
    /\ UNCHANGED <<call, lock, found, deleted>>

(* finally: _scan_lock.release() *)
Release(r) ==
    /\ pc[r] = "release"
    /\ lock' = None
    /\ GoTo(r, "done")
    /\ UNCHANGED <<call, answer, rows, txn, faults, found, deleted, disturbed>>
----------------------------------------------------------------------------
(* DELETE /v1/projects/{name} takes no lock; its answer is the number of   *)
(* rows the attempt that counts has deleted.                               *)
DeleteProject(r) ==
    /\ \E user \in Users, raised \in BOOLEAN :
       LET st == Statement("delete", r, user) IN
       \E seen \in Tried(st) :
          /\ Ask(r, "delete", user)
          /\ Execute(st, raised, seen)
          /\ deleted' = [deleted EXCEPT ![r] = ProjectRows(View, user)]
          /\ Answer(r, CASE raised -> 500
                         [] ~raised /\ ProjectRows(seen, user) = {} -> 404
                         [] OTHER -> 204)
    /\ UNCHANGED <<lock, found>>

(* GET /v1/scans/{scan_id} with a text that is no uuid: the statement      *)
(* raises and the handler turns that into a 404.                           *)
ReadBadId(r) ==
    /\ \E user \in Users, raised \in BOOLEAN :
       LET st == Statement("badId", r, user) IN
       \E seen \in Tried(st) :
          /\ Ask(r, "badId", user)
          /\ Execute(st, raised, seen)
    /\ Answer(r, 404)
    /\ UNCHANGED <<lock, found, deleted>>

(* The API process dies and is started again: the server rolls the         *)
(* transaction back, the lock and the handlers are gone.                   *)
Active(r) == pc[r] \notin {"new", "done", "gone"}

Crash ==
    /\ faults < MaxFaults
    /\ faults' = faults + 1
    /\ pc' = [r \in Requests |-> IF Active(r) THEN "gone" ELSE pc[r]]
    /\ lock' = None
    /\ txn' = NoTxn
    /\ UNCHANGED rows \/ (TxnOpen /\ pc[txn.owner] = "commit" /\ ~txn.aborted /\ rows' = txn.table)
    /\ UNCHANGED <<call, answer, found, deleted, disturbed>>

Handle(r) ==
    \/ Resolve(r) \/ AcquireLock(r) \/ Start(r) \/ RunLayers(r) \/ SetSource(r)
    \/ BeginTxn(r) \/ InsertFindings(r) \/ UpdateScan(r) \/ CommitTxn(r)
    \/ MarkFailed(r) \/ Release(r)

Arrive(r) == StartScan(r) \/ RescanProject(r) \/ DeleteProject(r) \/ ReadBadId(r)

Next == (\E r \in Requests : Arrive(r) \/ Handle(r)) \/ LoseTxn \/ Crash

Spec == Init /\ [][Next]_vars

(* The threads run; a provider of a layer returns or raises. *)
FairSpec == Spec /\ \A r \in Requests : WF_vars(Handle(r))
----------------------------------------------------------------------------
(***************************************************************************)
(* A scan that reads ok has all the findings it found, and a running or    *)
(* deleted scan has none, in spite of crashes, lost connections and the    *)
(* statements other requests slip into the transaction.  A failed scan may *)
(* keep findings: the reply to its COMMIT was lost.                        *)
(***************************************************************************)
FindingsMatchStatus ==
    \A r \in Requests :
        /\ rows[r].status = "ok" => rows[r].findings = found[r]
        /\ rows[r].status \in {"absent", "running"} => ~rows[r].findings

(***************************************************************************)
(* An answered scan has the row its answer announces, 201 one that is ok   *)
(* and 500 a failed one, unless the project was deleted; so it does not    *)
(* read running for ever.  Only two things are left out: its insert or its *)
(* mark as failed was tried twice and raised, or another request's failing *)
(* statement got between its last update and its COMMIT, which then rolls  *)
(* back in silence.  A scan that lost its connection or its transaction    *)
(* anywhere else reads failed.  Nothing is said of a handler that died.    *)
(***************************************************************************)
UndisturbedScansConclude ==
    \A r \in Requests \ disturbed :
        /\ call[r].kind \in ScanKinds
        /\ pc[r] = "done"
        /\ rows[r].status # "absent"
        => rows[r].status = IF answer[r] = 201 THEN "ok" ELSE "failed"

(***************************************************************************)
(* The shared connection never sees two transactions: the one that is open *)
(* belongs to the request that holds the scan lock, and it is in finish.   *)
(***************************************************************************)
OneTransaction ==
    /\ TxnOpen => lock = txn.owner /\ pc[txn.owner] \in {"findings", "update", "commit"}
    /\ \A r \in Requests : pc[r] \in Critical => lock = r

(***************************************************************************)
(* A scan that was deleted stays deleted: nothing the running scan still   *)
(* writes brings the committed row back.                                   *)
(***************************************************************************)
DeletedNeverReturns ==
    [][ \A r \in Requests :
          rows[r].status = "absent" /\ rows'[r].status # "absent" => pc[r] = "start" ]_vars

(***************************************************************************)
(* What a reader of the tables sees is a ScanLedger: scans one at a time,  *)
(* each through running, ok and failed in that order, its findings there   *)
(* from the commit that makes it ok; what is removed never returns.        *)
(***************************************************************************)
Early == {"new", "resolve", "lock", "start"}

LifeOf(row, where) ==
    IF row.status # "absent" THEN row.status
    ELSE IF where \in Early THEN "new" ELSE "gone"

Life(r) == LifeOf(rows[r], pc[r])

Ledger == INSTANCE ScanLedger WITH
    Scans <- Requests, Nobody <- None,
    life <- [r \in Requests |-> Life(r)],
    results <- {r \in Requests : rows[r].findings},
    active <- lock

ImplementsScanLedger == Ledger!ScanLedgerSpec

(***************************************************************************)
(* Whoever holds the scan lock gives it up, on every path: otherwise each  *)
(* later scan is answered 409.                                             *)
(***************************************************************************)
LockIsReleased == lock # None ~> lock = None
----------------------------------------------------------------------------
(***************************************************************************)
(* "Remove one of your projects: its scans, findings, and the cloned copy" *)
(* (app.py:227): the scans a delete removed are gone once it has answered  *)
(* 204 and no transaction is open.                                         *)
(***************************************************************************)
DeletedScansAreGone ==
    ~TxnOpen => \A r \in Requests : answer[r] = 204 =>
                    \A q \in deleted[r] : rows[q].status = "absent"
============================================================================
