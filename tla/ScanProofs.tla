----------------------------- MODULE ScanProofs -----------------------------
(***************************************************************************)
(* Theorems about module ScanService, for any set of requests and of users *)
(* and any number of lost connections and crashes.                         *)
(*                                                                         *)
(* The argument: the handler inside the transaction of ScanStore.finish    *)
(* holds _scan_lock, so the only foreign statements that reach that        *)
(* transaction are those of handlers that take no lock, and these can only *)
(* remove rows or make the transaction fail.  The invariant says how far   *)
(* the uncommitted table may be from the committed one.                    *)
(***************************************************************************)
EXTENDS ScanService, TLAPS

Started == {"layers", "setSource", "begin", "findings", "update"}
Finishing == {"findings", "update", "commit"}
Open == {"running", "absent"}

(* What the committed row of a scan is, by where its handler is.           *)
RowFollowsHandler(r) ==
    /\ pc[r] \in Early => rows[r].status = "absent"
    /\ pc[r] \in Started => rows[r].status \in Open

RowIsWhole(r) ==
    /\ rows[r].status = "ok" => rows[r].findings = found[r]
    /\ rows[r].status \in Open => ~rows[r].findings

Concluded(r) ==
    /\ r \notin disturbed /\ pc[r] \in {"release", "done"} /\ rows[r].status # "absent"
    => rows[r].status = IF answer[r] = 201 THEN "ok" ELSE "failed"

RequestInv(r) == RowFollowsHandler(r) /\ RowIsWhole(r) /\ Concluded(r)

(* The uncommitted row of the scan whose transaction is open.              *)
OwnRow(r, row) ==
    /\ row.status = "absent" => ~row.findings
    /\ pc[r] = "findings" => row \in {rows[r], Absent}
    /\ pc[r] = "update" => row.status \in Open /\ (row.status = "running" => row.findings = found[r])
    /\ pc[r] = "commit" =>
          row.status \in {"ok", "absent"} /\ (row.status = "ok" => row.findings = found[r])

(* In the open transaction other scans can only have been deleted, and a   *)
(* committed row that is gone is gone there too.                           *)
TxnInv ==
    /\ ~TxnOpen => txn = NoTxn
    /\ txn.aborted /\ pc[txn.owner] = "commit" => txn.owner \in disturbed
    /\ TxnOpen =>
          /\ \A r \in Requests \ {txn.owner} : txn.table[r] \in {rows[r], Absent}
          /\ rows[txn.owner].status \in Open
          /\ rows[txn.owner].status = "absent" => txn.table[txn.owner].status = "absent"
          /\ OwnRow(txn.owner, txn.table[txn.owner])

ScanInv ==
    /\ ScanTypeOK
    /\ OneTransaction
    /\ TxnInv
    /\ \A r \in Requests : RequestInv(r)

(* Only store.start brings a row into the committed table.                 *)
OnlyStartInserts ==
    \A r \in Requests : rows[r].status = "absent" /\ rows'[r].status # "absent" => pc[r] = "start"
----------------------------------------------------------------------------
(* Types. *)

Places == {"new", "resolve", "lock", "done", "gone"} \union Critical
Txns == [owner : Requests \union {None}, table : Tables, aborted : BOOLEAN]
Ops == {"projects", "insert", "setSource", "fail", "delete", "badId"}
Statements == [op : Ops, scan : Requests, user : Users \union {None}]

LEMMA NoTxnType == Absent \in Row /\ NoTxn \in Txns /\ NoTxn.owner = None /\ NoTxn.aborted = FALSE
BY DEF NoTxn, Txns, Tables, Absent, Row

LEMMA SetStatusType ==
    ASSUME NEW table \in Tables, NEW r \in Requests, NEW status \in {"running", "ok", "failed"}
    PROVE  /\ SetStatus(table, r, status) \in Tables
           /\ \A q \in Requests \ {r} : SetStatus(table, r, status)[q] = table[q]
           /\ SetStatus(table, r, status)[r] =
                IF table[r].status = "absent" THEN table[r]
                ELSE [status |-> status, findings |-> table[r].findings]
<1>1. table[r] \in Row
  BY DEF Tables
<1>2. [table[r] EXCEPT !.status = status] = [status |-> status, findings |-> table[r].findings]
  BY <1>1 DEF Row
<1>3. [status |-> status, findings |-> table[r].findings] \in Row
  BY <1>1 DEF Row
<1> QED
  BY <1>1, <1>2, <1>3 DEF SetStatus, Tables

(* The table after a statement: only insert and fail write, and only the   *)
(* row of their own scan; delete removes rows.                             *)
LEMMA AppliedRows ==
    ASSUME NEW st \in Statements, NEW table \in Tables
    PROVE  /\ Applied(st, table) \in Tables
           /\ st.op = "insert" =>
                 /\ Applied(st, table)[st.scan] = [status |-> "running", findings |-> FALSE]
                 /\ \A q \in Requests \ {st.scan} : Applied(st, table)[q] = table[q]
           /\ st.op = "fail" => Applied(st, table) = SetStatus(table, st.scan, "failed")
           /\ st.op \in {"setSource", "projects", "badId"} => Applied(st, table) = table
           /\ st.op = "delete" => \A q \in Requests : Applied(st, table)[q] \in {table[q], Absent}
<1>1. st.scan \in Requests /\ st.op \in Ops
  BY DEF Statements
<1>2. CASE st.op = "insert"
  <2>1. [status |-> "running", findings |-> FALSE] \in Row
    BY DEF Row
  <2> QED
    BY <1>1, <1>2, <2>1 DEF Applied, Tables
<1>3. CASE st.op = "fail"
  BY <1>1, <1>3, SetStatusType DEF Applied
<1>4. CASE st.op = "delete"
  BY <1>4, NoTxnType DEF Applied, Tables
<1>5. CASE st.op \in {"setSource", "projects", "badId"}
  BY <1>5 DEF Applied
<1> QED
  BY <1>1, <1>2, <1>3, <1>4, <1>5 DEF Ops

(* What a step may do to a request that does not take part in it.          *)
LEMMA BystanderInv ==
    ASSUME NEW q \in Requests, RequestInv(q), pc'[q] = pc[q], answer'[q] = answer[q],
           found'[q] = found[q], disturbed \subseteq disturbed',
           rows'[q] \in {rows[q], Absent}
    PROVE  RequestInv(q)'
<1>1. Absent.status = "absent" /\ Absent.findings = FALSE
  BY DEF Absent
<1>2. RowFollowsHandler(q)' /\ RowIsWhole(q)'
  BY <1>1 DEF RequestInv, RowFollowsHandler, RowIsWhole, Open
<1>3. Concluded(q)'
  BY <1>1 DEF RequestInv, Concluded
<1> QED
  BY <1>2, <1>3 DEF RequestInv
----------------------------------------------------------------------------
(* Statements on the shared connection. *)

(* Outside finish no transaction is open: its owner holds the lock.        *)
LEMMA ClosedOutsideFinish ==
    ASSUME ScanInv, NEW r \in Requests, pc[r] \in Critical \ Finishing
    PROVE  txn = NoTxn /\ ~TxnOpen /\ ~txn.aborted
<1>1. lock = r
  BY DEF ScanInv, OneTransaction
<1>2. ~TxnOpen
  BY <1>1 DEF ScanInv, OneTransaction, Finishing
<1> QED
  BY <1>2, NoTxnType DEF ScanInv, TxnInv

(* A statement of a handler that takes no lock only removes rows.  In an   *)
(* open transaction it stays uncommitted, makes the transaction fail, or   *)
(* loses it.                                                               *)
LEMMA ForeignStatement ==
    ASSUME ScanAssumption, ScanInv,
           NEW st \in Statements, st.op \in {"projects", "delete", "badId"},
           NEW raised \in BOOLEAN, NEW seen, Execute(st, raised, seen)
    PROVE  /\ rows' \in Tables /\ txn' \in Txns /\ faults' \in 0..MaxFaults
           /\ disturbed \subseteq disturbed' /\ disturbed' \subseteq Requests
           /\ \A q \in Requests : rows'[q] \in {rows[q], Absent}
           /\ \/ txn' = NoTxn
              \/ /\ TxnOpen /\ rows' = rows /\ txn'.owner = txn.owner
                 /\ txn'.aborted /\ pc[txn.owner] = "commit" => txn.owner \in disturbed'
                 /\ \A q \in Requests : txn'.table[q] \in {txn.table[q], Absent}
<1> USE DEF ScanInv
<1>1. /\ rows \in Tables /\ txn \in Txns /\ faults \in 0..MaxFaults /\ disturbed \subseteq Requests
      /\ txn.table \in Tables /\ txn.aborted \in BOOLEAN
      /\ txn.owner \in Requests \union {None} /\ None \notin Requests
      /\ st.scan \in Requests
      /\ TxnOpen => txn.owner \in Requests
  BY DEF ScanTypeOK, Txns, ScanAssumption, Statements, TxnOpen
<1>2. \A table \in Tables :
         /\ Applied(st, table) \in Tables
         /\ \A q \in Requests : Applied(st, table)[q] \in {table[q], Absent}
  BY AppliedRows
<1>3. ~TxnOpen => txn = NoTxn
  BY DEF TxnInv
<1>4. CASE ExecuteOnce(st, raised)
  <2>1. faults' = faults
    BY <1>4 DEF ExecuteOnce
  <2>2. CASE raised /\ TxnOpen
    <3>1. /\ txn' = [txn EXCEPT !.aborted = TRUE] /\ rows' = rows
          /\ disturbed' = disturbed \union {o \in {txn.owner} : pc[o] = "commit"}
      BY <1>4, <2>2 DEF ExecuteOnce
    <3>2. txn' \in Txns /\ txn'.owner = txn.owner /\ txn'.table = txn.table
      BY <1>1, <3>1 DEF Txns
    <3>3. txn' # NoTxn
      BY <2>2, <3>2, NoTxnType DEF TxnOpen
    <3> QED
      BY <1>1, <2>1, <2>2, <3>1, <3>2, <3>3
  <2>3. CASE raised /\ ~TxnOpen
    <3>1. rows' = rows /\ txn' = txn /\ disturbed' = disturbed
      BY <1>4, <2>3 DEF ExecuteOnce
    <3> QED
      BY <1>1, <1>3, <2>1, <2>3, <3>1
  <2>4. CASE ~raised /\ TxnOpen
    <3>1. /\ txn' = [txn EXCEPT !.table = Applied(st, txn.table)]
          /\ rows' = rows /\ disturbed' = disturbed
      BY <1>4, <2>4 DEF ExecuteOnce
    <3>2. /\ txn' \in Txns /\ txn'.owner = txn.owner /\ txn'.aborted = txn.aborted
          /\ txn'.table = Applied(st, txn.table)
      BY <1>1, <1>2, <3>1 DEF Txns
    <3>3. txn' # NoTxn
      BY <2>4, <3>2, NoTxnType DEF TxnOpen
    <3>4. txn.aborted /\ pc[txn.owner] = "commit" => txn.owner \in disturbed
      BY DEF TxnInv
    <3> QED
      BY <1>1, <1>2, <2>1, <2>4, <3>1, <3>2, <3>3, <3>4
  <2>5. CASE ~raised /\ ~TxnOpen
    <3>1. rows' = Applied(st, rows) /\ txn' = txn /\ disturbed' = disturbed
      BY <1>4, <2>5 DEF ExecuteOnce
    <3> QED
      BY <1>1, <1>2, <1>3, <2>1, <2>5, <3>1
  <2> QED
    BY <2>2, <2>3, <2>4, <2>5
<1>5. CASE ExecuteTwice(st, raised, seen)
  <2>1. /\ faults < MaxFaults /\ faults' = faults + 1 /\ txn' = NoTxn
        /\ disturbed' \in {disturbed, disturbed \union {st.scan}}
        /\ seen = rows \/ seen = Applied(st, rows)
        /\ rows' = seen \/ rows' = Applied(st, seen)
    BY <1>5 DEF ExecuteTwice, AfterLoss
  <2>2. faults' \in 0..MaxFaults
    BY <1>1, <2>1 DEF ScanAssumption
  <2>3. seen \in Tables /\ \A q \in Requests : seen[q] \in {rows[q], Absent}
    BY <1>1, <1>2, <2>1
  <2>4. rows' \in Tables /\ \A q \in Requests : rows'[q] \in {rows[q], Absent}
    BY <1>1, <1>2, <2>1, <2>3
  <2> QED
    BY <1>1, <2>1, <2>2, <2>4, NoTxnType
<1> QED
  BY <1>4, <1>5 DEF Execute

(* A statement of the scan that holds the lock finds no transaction open   *)
(* and writes its own row; the exact effect when nothing interferes.       *)
LEMMA OwnStatement ==
    ASSUME ScanAssumption, ScanInv, NEW r \in Requests, pc[r] \in Critical \ Finishing,
           NEW op \in {"insert", "setSource", "fail"},
           NEW raised \in BOOLEAN, NEW seen, Execute(Of(r, op), raised, seen)
    PROVE  /\ rows' \in Tables /\ txn' = NoTxn /\ txn = NoTxn /\ faults' \in 0..MaxFaults
           /\ disturbed \subseteq disturbed' /\ disturbed' \subseteq Requests
           /\ \A q \in Requests \ {r} : rows'[q] = rows[q]
           /\ op = "insert" =>
                 rows'[r] = rows[r] \/ rows'[r] = [status |-> "running", findings |-> FALSE]
           /\ op = "setSource" => rows' = rows
           /\ op = "fail" =>
                 \/ rows'[r] = rows[r]
                 \/ /\ rows'[r].status = "failed" /\ rows[r].status # "absent"
                    /\ rows'[r].findings = rows[r].findings
           /\ r \notin disturbed' =>
                 /\ op = "insert" => (raised => rows[r].status # "absent")
                 /\ op = "fail" => rows'[r].status \in {"absent", "failed"}
<1> DEFINE st == Of(r, op)
<1>1. /\ st \in Statements /\ st.op = op /\ st.scan = r
  <2>1. call[r].user \in Users \union {None}
    BY DEF ScanInv, ScanTypeOK, Calls, NoCall
  <2> QED
    BY <2>1 DEF Of, Statement, Statements, Ops
<1> HIDE DEF st
<1>2. /\ rows \in Tables /\ faults \in 0..MaxFaults /\ disturbed \subseteq Requests
  BY DEF ScanInv, ScanTypeOK
<1>3. txn = NoTxn /\ ~TxnOpen /\ ~txn.aborted /\ View = rows
  BY ClosedOutsideFinish DEF View
<1>4. ASSUME NEW table \in Tables
      PROVE  /\ Applied(st, table) \in Tables
             /\ \A q \in Requests \ {r} : Applied(st, table)[q] = table[q]
             /\ op = "insert" => Applied(st, table)[r] = [status |-> "running", findings |-> FALSE]
             /\ op = "setSource" => Applied(st, table) = table
             /\ op = "fail" => IF table[r].status = "absent"
                               THEN Applied(st, table)[r] = table[r]
                               ELSE /\ Applied(st, table)[r].status = "failed"
                                    /\ Applied(st, table)[r].findings = table[r].findings
  <2>1. CASE op = "fail"
    <3>1. Applied(st, table) = SetStatus(table, r, "failed")
      BY <1>1, <2>1, AppliedRows
    <3>2. /\ SetStatus(table, r, "failed") \in Tables
          /\ \A q \in Requests \ {r} : SetStatus(table, r, "failed")[q] = table[q]
          /\ SetStatus(table, r, "failed")[r] =
                IF table[r].status = "absent" THEN table[r]
                ELSE [status |-> "failed", findings |-> table[r].findings]
      BY SetStatusType
    <3> QED
      BY <2>1, <3>1, <3>2
  <2>2. CASE op \in {"insert", "setSource"}
    BY <1>1, <2>2, AppliedRows
  <2> QED
    BY <2>1, <2>2
<1>5. CASE ExecuteOnce(st, raised)
  <2>1. /\ faults' = faults /\ disturbed' = disturbed /\ txn' = txn
        /\ raised => Rejected(st, rows)
        /\ rows' = IF raised THEN rows ELSE Applied(st, rows)
    <3>1. raised = (txn.aborted \/ Rejected(st, rows)) /\ faults' = faults
      BY <1>3, <1>5 DEF ExecuteOnce
    <3>2. raised => Rejected(st, rows)
      BY <1>3, <3>1
    <3>3. CASE raised
      BY <1>3, <1>5, <3>1, <3>2, <3>3 DEF ExecuteOnce
    <3>4. CASE ~raised
      BY <1>3, <1>5, <3>1, <3>4 DEF ExecuteOnce
    <3> QED
      BY <3>3, <3>4
  <2>2. raised => op = "insert" /\ rows[r].status # "absent"
    BY <1>1, <2>1 DEF Rejected
  <2>3. CASE raised
    BY <1>2, <1>3, <2>1, <2>2, <2>3
  <2>4. CASE ~raised
    <3>1. rows' = Applied(st, rows)
      BY <2>1, <2>4
    <3> QED
      BY <1>2, <1>3, <1>4, <2>1, <2>4, <3>1
  <2> QED
    BY <2>3, <2>4
<1>6. CASE ExecuteTwice(st, raised, seen)
  <2>1. /\ faults < MaxFaults /\ faults' = faults + 1 /\ txn' = NoTxn
        /\ disturbed' \in {disturbed, disturbed \union {r}}
        /\ raised /\ op \in {"insert", "fail"} => r \in disturbed'
        /\ seen = rows \/ seen = Applied(st, rows)
        /\ rows' = seen \/ rows' = Applied(st, seen)
        /\ ~raised => rows' = Applied(st, seen)
    BY <1>1, <1>3, <1>6 DEF ExecuteTwice, AfterLoss
  <2>2. faults' \in 0..MaxFaults
    BY <1>2, <2>1 DEF ScanAssumption
  <2>3. seen \in Tables
    BY <1>2, <1>4, <2>1
  <2>4. rows' \in Tables
    BY <1>4, <2>1, <2>3
  <2>5. /\ \A q \in Requests \ {r} : rows'[q] = rows[q]
        /\ op = "insert" =>
              rows'[r] = rows[r] \/ rows'[r] = [status |-> "running", findings |-> FALSE]
        /\ op = "setSource" => rows' = rows
    BY <1>2, <1>4, <2>1, <2>3
  <2>6. op = "fail" => \/ rows'[r] = rows[r]
                       \/ /\ rows'[r].status = "failed" /\ rows[r].status # "absent"
                          /\ rows'[r].findings = rows[r].findings
    BY <1>2, <1>4, <2>1, <2>3
  <2>7. r \notin disturbed' /\ op = "fail" => rows'[r].status \in {"absent", "failed"}
    BY <1>4, <2>1, <2>3
  <2> QED
    BY <1>2, <1>3, <2>1, <2>2, <2>4, <2>5, <2>6, <2>7
<1> QED
  BY <1>5, <1>6 DEF Execute, st
----------------------------------------------------------------------------
(* Steps outside the transaction. *)

Statuses == {0, 201, 204, 404, 409, 500, 502}

LEMMA NewIsNotCritical ==
    /\ "new" \notin Critical /\ "resolve" \notin Critical /\ "lock" \notin Critical
    /\ "done" \notin Critical /\ "gone" \notin Critical
    /\ Finishing \subseteq Critical /\ {"start", "layers", "setSource", "begin", "fail", "release"}
                                          \subseteq Critical \ Finishing
BY DEF Critical, Pipeline, Finishing

(* Where the owner of the transaction does not take part and the rows are  *)
(* as they were, the transaction is as far as it was.                      *)
LEMMA TxnStays ==
    ASSUME ScanInv, txn' = txn, rows' = rows, disturbed \subseteq disturbed',
           TxnOpen => pc'[txn.owner] = pc[txn.owner] /\ found'[txn.owner] = found[txn.owner]
    PROVE  TxnInv'
<1>1. TxnOpen' <=> TxnOpen
  BY DEF TxnOpen
<1>2. NoTxn' = NoTxn
  BY DEF NoTxn
<1>3. TxnOpen => OwnRow(txn.owner, txn.table[txn.owner])'
  BY DEF ScanInv, TxnInv, OwnRow
<1>4. ~TxnOpen => ~txn.aborted
  BY NoTxnType DEF ScanInv, TxnInv
<1> QED
  BY <1>1, <1>2, <1>3, <1>4 DEF ScanInv, TxnInv

(* The handler of r moves, outside finish, and touches no table.           *)
LEMMA QuietStep ==
    ASSUME ScanInv, NEW r \in Requests, NEW where \in Places,
           pc[r] \notin Finishing, where \notin Finishing,
           pc' = [pc EXCEPT ![r] = where],
           UNCHANGED <<rows, txn, faults, deleted, disturbed>>,
           call' \in [Requests -> Calls],
           answer' \in [Requests -> Statuses],
           \A q \in Requests \ {r} : answer'[q] = answer[q],
           found' \in [Requests -> BOOLEAN],
           \A q \in Requests \ {r} : found'[q] = found[q],
           lock' \in Requests \union {None},
           OneTransaction', RequestInv(r)'
    PROVE  ScanInv' /\ OnlyStartInserts
<1>1. pc \in [Requests -> Places]
  BY DEF ScanInv, ScanTypeOK, Places
<1>2. ScanTypeOK'
  <2>1. pc' \in [Requests -> Places]
    BY <1>1
  <2> QED
    BY <2>1 DEF ScanInv, ScanTypeOK, Places, Statuses
<1>3. TxnOpen => txn.owner # r /\ txn.owner \in Requests
  BY DEF ScanInv, OneTransaction, ScanTypeOK, TxnOpen, Finishing
<1>4. TxnInv'
  BY <1>1, <1>3, TxnStays
<1>5. \A q \in Requests : RequestInv(q)'
  <2> SUFFICES ASSUME NEW q \in Requests \ {r}
               PROVE  RequestInv(q)'
    OBVIOUS
  <2>1. RequestInv(q)
    BY DEF ScanInv
  <2> QED
    BY <1>1, <2>1, BystanderInv
<1> QED
  BY <1>2, <1>4, <1>5 DEF ScanInv, OnlyStartInserts

(* A statement of a handler without the lock, which is new and goes where  *)
(* it holds no lock either.                                                *)
Executes(r, op) ==
    \E user \in Users, raised \in BOOLEAN : \E seen :
       Execute(Statement(op, r, user), raised, seen)

LEMMA ForeignStep ==
    ASSUME ScanAssumption, ScanInv, NEW r \in Requests, pc[r] = "new",
           pc' = [pc EXCEPT ![r] = "done"] \/ pc' = [pc EXCEPT ![r] = "resolve"],
           Executes(r, "projects") \/ Executes(r, "delete") \/ Executes(r, "badId"),
           call' \in [Requests -> Calls],
           answer' \in [Requests -> Statuses],
           \A q \in Requests \ {r} : answer'[q] = answer[q],
           deleted' \in [Requests -> SUBSET Requests],
           found' = found, lock' = lock
    PROVE  ScanInv' /\ OnlyStartInserts
<1>0. PICK where \in {"done", "resolve"}, op \in {"projects", "delete", "badId"} :
         pc' = [pc EXCEPT ![r] = where] /\ Executes(r, op)
  OBVIOUS
<1> PICK user \in Users, raised \in BOOLEAN :
         \E seen : Execute(Statement(op, r, user), raised, seen)
  BY <1>0 DEF Executes
<1> PICK seen : Execute(Statement(op, r, user), raised, seen)
  OBVIOUS
<1> DEFINE st == Statement(op, r, user)
<1>1. st \in Statements /\ st.op \in {"projects", "delete", "badId"}
  BY DEF Statement, Statements, Ops
<1> HIDE DEF st
<1>2. Execute(st, raised, seen)
  BY DEF st
<1>3. /\ rows' \in Tables /\ txn' \in Txns /\ faults' \in 0..MaxFaults
      /\ disturbed \subseteq disturbed' /\ disturbed' \subseteq Requests
      /\ \A q \in Requests : rows'[q] \in {rows[q], Absent}
      /\ \/ txn' = NoTxn
         \/ /\ TxnOpen /\ rows' = rows /\ txn'.owner = txn.owner
            /\ txn'.aborted /\ pc[txn.owner] = "commit" => txn.owner \in disturbed'
            /\ \A q \in Requests : txn'.table[q] \in {txn.table[q], Absent}
  BY <1>1, <1>2, ForeignStatement
<1>4. /\ pc \in [Requests -> Places]
      /\ pc' \in [Requests -> Places]
      /\ pc'[r] = where /\ \A q \in Requests \ {r} : pc'[q] = pc[q]
  BY <1>0 DEF ScanInv, ScanTypeOK, Places
<1>5. ScanTypeOK'
  BY <1>3, <1>4 DEF ScanInv, ScanTypeOK, Places, Statuses, Txns
<1>6. TxnOpen => txn.owner \in Requests \ {r} /\ pc[txn.owner] \in Finishing /\ lock = txn.owner
  BY DEF ScanInv, OneTransaction, ScanTypeOK, TxnOpen, Finishing
<1>7. NoTxn' = NoTxn /\ NoTxn.owner = None /\ NoTxn.aborted = FALSE
  BY NoTxnType DEF NoTxn
<1>8. OneTransaction'
  <2>1. \A q \in Requests : pc'[q] \in Critical => lock' = q
    BY <1>4, NewIsNotCritical DEF ScanInv, OneTransaction
  <2>2. TxnOpen' => lock' = txn'.owner /\ pc'[txn'.owner] \in {"findings", "update", "commit"}
    BY <1>3, <1>4, <1>6, <1>7 DEF TxnOpen, Finishing
  <2> QED
    BY <2>1, <2>2 DEF OneTransaction
<1>9. TxnInv'
  <2>1. CASE txn' = NoTxn
    BY <1>7, <2>1 DEF TxnInv, TxnOpen
  <2>2. CASE /\ TxnOpen /\ rows' = rows /\ txn'.owner = txn.owner
             /\ txn'.aborted /\ pc[txn.owner] = "commit" => txn.owner \in disturbed'
             /\ \A q \in Requests : txn'.table[q] \in {txn.table[q], Absent}
    <3> DEFINE o == txn.owner
    <3>1. /\ o \in Requests /\ pc'[o] = pc[o] /\ rows'[o] = rows[o]
          /\ \A q \in Requests \ {o} : txn.table[q] \in {rows[q], Absent}
          /\ rows[o].status \in Open
          /\ rows[o].status = "absent" => txn.table[o].status = "absent"
          /\ OwnRow(o, txn.table[o])
      BY <1>4, <1>6, <2>2 DEF ScanInv, TxnInv
    <3>2. Absent.status = "absent" /\ Absent.findings = FALSE /\ Absent' = Absent
      BY DEF Absent
    <3>3. OwnRow(txn.owner, txn.table[txn.owner])'
      BY <2>2, <3>1, <3>2 DEF OwnRow, Open
    <3>4. \A q \in Requests \ {o} : txn'.table[q] \in {rows'[q], Absent}
      BY <2>2, <3>1
    <3>5. rows'[o].status = "absent" => txn'.table[o].status = "absent"
      BY <2>2, <3>1, <3>2
    <3> QED
      BY <2>2, <3>1, <3>2, <3>3, <3>4, <3>5 DEF TxnInv, TxnOpen
  <2> QED
    BY <1>3, <2>1, <2>2
<1>10. \A q \in Requests : RequestInv(q)'
  <2>1. ASSUME NEW q \in Requests \ {r}
        PROVE  RequestInv(q)'
    <3>1. RequestInv(q)
      BY DEF ScanInv
    <3> QED
      BY <1>3, <1>4, <3>1, BystanderInv
  <2>2. RequestInv(r)'
    <3>1. rows[r].status = "absent" /\ ~rows[r].findings
      BY DEF ScanInv, RequestInv, RowFollowsHandler, RowIsWhole, Early, Open
    <3>2. rows'[r].status = "absent" /\ ~rows'[r].findings
      BY <1>3, <3>1 DEF Absent
    <3> QED
      BY <1>4, <3>2
      DEF RequestInv, RowFollowsHandler, RowIsWhole, Concluded, Started, Finishing, Open
  <2> QED
    BY <2>1, <2>2
<1>11. OnlyStartInserts
  BY <1>3 DEF OnlyStartInserts, Absent
<1> QED
  BY <1>5, <1>8, <1>9, <1>10, <1>11 DEF ScanInv
----------------------------------------------------------------------------
(* One lemma per action.  The requests that arrive:                        *)

LEMMA AskType ==
    ASSUME ScanInv, NEW r \in Requests, NEW kind \in Kinds, NEW user \in Users,
           Ask(r, kind, user)
    PROVE  call' \in [Requests -> Calls] /\ pc[r] = "new"
<1>1. [kind |-> kind, user |-> user] \in Calls
  BY DEF Calls
<1> QED
  BY <1>1 DEF Ask, ScanInv, ScanTypeOK

(* A row that is absent concludes nothing. *)
LEMMA NotStartedInv ==
    ASSUME ScanInv, NEW r \in Requests, pc[r] \in Early, rows' = rows,
           pc'[r] \notin Finishing
    PROVE  RequestInv(r)'
BY DEF ScanInv, RequestInv, RowFollowsHandler, RowIsWhole, Concluded, Open

LEMMA StartScanStep ==
    ASSUME ScanInv, NEW r \in Requests, StartScan(r)
    PROVE  ScanInv' /\ OnlyStartInserts
<1>1. PICK user \in Users, where \in {"lock", "resolve"} :
         /\ Ask(r, "app", user) \/ Ask(r, "project", user)
         /\ GoTo(r, where)
  BY DEF StartScan
<1>2. call' \in [Requests -> Calls] /\ pc[r] = "new"
  BY <1>1, AskType DEF Kinds
<1>3. pc' = [pc EXCEPT ![r] = where] /\ where \in Places /\ where \notin Critical
  BY <1>1, NewIsNotCritical DEF GoTo, Places
<1>4. UNCHANGED <<answer, lock, rows, txn, faults, found, deleted, disturbed>>
  BY DEF StartScan
<1>5. pc \in [Requests -> Places] /\ answer \in [Requests -> Statuses]
      /\ found \in [Requests -> BOOLEAN] /\ lock \in Requests \union {None}
  BY DEF ScanInv, ScanTypeOK, Places, Statuses
<1>6. OneTransaction'
  BY <1>2, <1>3, <1>4, <1>5 DEF ScanInv, OneTransaction, TxnOpen
<1>7. RequestInv(r)'
  BY <1>2, <1>3, <1>4, <1>5, NewIsNotCritical, NotStartedInv DEF Early
<1> QED
  BY <1>2, <1>3, <1>4, <1>5, <1>6, <1>7, NewIsNotCritical, QuietStep

LEMMA AnswerType ==
    ASSUME ScanInv, NEW r \in Requests, NEW status \in Statuses,
           \/ answer' = answer
           \/ answer' = [answer EXCEPT ![r] = status]
    PROVE  /\ answer' \in [Requests -> Statuses]
           /\ \A q \in Requests \ {r} : answer'[q] = answer[q]
BY DEF ScanInv, ScanTypeOK, Statuses

LEMMA RescanProjectStep ==
    ASSUME ScanAssumption, ScanInv, NEW r \in Requests, RescanProject(r)
    PROVE  ScanInv' /\ OnlyStartInserts
<1>1. PICK user \in Users, raised \in BOOLEAN :
         \E seen \in Tried(Statement("projects", r, user)) :
            /\ Ask(r, "rescan", user)
            /\ Execute(Statement("projects", r, user), raised, seen)
            /\ CASE raised -> Answer(r, 500)
                 [] ~raised /\ ProjectRows(seen, user) = {} -> Answer(r, 404)
                 [] OTHER -> GoTo(r, "resolve") /\ UNCHANGED answer
  BY DEF RescanProject
<1>2. PICK seen :
         /\ Ask(r, "rescan", user)
         /\ Execute(Statement("projects", r, user), raised, seen)
         /\ CASE raised -> Answer(r, 500)
              [] ~raised /\ ProjectRows(seen, user) = {} -> Answer(r, 404)
              [] OTHER -> GoTo(r, "resolve") /\ UNCHANGED answer
  BY <1>1
<1>3. PICK where \in {"done", "resolve"}, status \in Statuses :
         /\ pc' = [pc EXCEPT ![r] = where]
         /\ answer' = answer \/ answer' = [answer EXCEPT ![r] = status]
  <2>1. CASE raised
    BY <1>2, <2>1 DEF Answer, Statuses
  <2>2. CASE ~raised /\ ProjectRows(seen, user) = {}
    BY <1>2, <2>2 DEF Answer, Statuses
  <2>3. CASE ~raised /\ ProjectRows(seen, user) # {}
    BY <1>2, <2>3 DEF GoTo, Statuses
  <2> QED
    BY <2>1, <2>2, <2>3
<1>4. call' \in [Requests -> Calls] /\ pc[r] = "new"
  BY <1>2, AskType DEF Kinds
<1>5. answer' \in [Requests -> Statuses] /\ \A q \in Requests \ {r} : answer'[q] = answer[q]
  BY <1>3, AnswerType
<1>6. lock' = lock /\ found' = found /\ deleted' \in [Requests -> SUBSET Requests]
  BY DEF RescanProject, ScanInv, ScanTypeOK
<1>7. Executes(r, "projects")
  BY <1>2 DEF Executes
<1>8. pc' = [pc EXCEPT ![r] = "done"] \/ pc' = [pc EXCEPT ![r] = "resolve"]
  BY <1>3
<1> QED
  BY <1>4, <1>5, <1>6, <1>7, <1>8, ForeignStep

LEMMA DeleteProjectStep ==
    ASSUME ScanAssumption, ScanInv, NEW r \in Requests, DeleteProject(r)
    PROVE  ScanInv' /\ OnlyStartInserts
<1>1. PICK user \in Users, raised \in BOOLEAN :
         \E seen \in Tried(Statement("delete", r, user)) :
            /\ Ask(r, "delete", user)
            /\ Execute(Statement("delete", r, user), raised, seen)
            /\ deleted' = [deleted EXCEPT ![r] = ProjectRows(View, user)]
            /\ Answer(r, CASE raised -> 500
                           [] ~raised /\ ProjectRows(seen, user) = {} -> 404
                           [] OTHER -> 204)
  BY DEF DeleteProject
<1>2. PICK seen :
         /\ Ask(r, "delete", user)
         /\ Execute(Statement("delete", r, user), raised, seen)
         /\ deleted' = [deleted EXCEPT ![r] = ProjectRows(View, user)]
         /\ Answer(r, CASE raised -> 500
                        [] ~raised /\ ProjectRows(seen, user) = {} -> 404
                        [] OTHER -> 204)
  BY <1>1
<1>3. PICK status \in Statuses :
         /\ pc' = [pc EXCEPT ![r] = "done"]
         /\ answer' = [answer EXCEPT ![r] = status]
  <2>1. (CASE raised -> 500
           [] ~raised /\ ProjectRows(seen, user) = {} -> 404
           [] OTHER -> 204) \in Statuses
    BY DEF Statuses
  <2> QED
    BY <1>2, <2>1 DEF Answer
<1>4. call' \in [Requests -> Calls] /\ pc[r] = "new"
  BY <1>2, AskType DEF Kinds
<1>5. answer' \in [Requests -> Statuses] /\ \A q \in Requests \ {r} : answer'[q] = answer[q]
  BY <1>3, AnswerType
<1>6. deleted' \in [Requests -> SUBSET Requests]
  BY <1>2 DEF ProjectRows, ScanInv, ScanTypeOK
<1>7. lock' = lock /\ found' = found
  BY DEF DeleteProject
<1>8. Executes(r, "delete")
  BY <1>2 DEF Executes
<1> QED
  BY <1>3, <1>4, <1>5, <1>6, <1>7, <1>8, ForeignStep

LEMMA ReadBadIdStep ==
    ASSUME ScanAssumption, ScanInv, NEW r \in Requests, ReadBadId(r)
    PROVE  ScanInv' /\ OnlyStartInserts
<1>1. PICK user \in Users : \E raised \in BOOLEAN : \E seen :
         Ask(r, "badId", user) /\ Execute(Statement("badId", r, user), raised, seen)
  BY DEF ReadBadId
<1>2. call' \in [Requests -> Calls] /\ pc[r] = "new"
  BY <1>1, AskType DEF Kinds
<1>3. pc' = [pc EXCEPT ![r] = "done"] /\ answer' = [answer EXCEPT ![r] = 404]
  BY DEF ReadBadId, Answer
<1>4. answer' \in [Requests -> Statuses] /\ \A q \in Requests \ {r} : answer'[q] = answer[q]
  BY <1>3 DEF ScanInv, ScanTypeOK, Statuses
<1>5. lock' = lock /\ found' = found /\ deleted' \in [Requests -> SUBSET Requests]
  BY DEF ReadBadId, ScanInv, ScanTypeOK
<1>6. Executes(r, "badId")
  BY <1>1 DEF Executes
<1> QED
  BY <1>2, <1>3, <1>4, <1>5, <1>6, ForeignStep
----------------------------------------------------------------------------
(* The handlers outside the transaction. *)

LEMMA ResolveStep ==
    ASSUME ScanInv, NEW r \in Requests, Resolve(r)
    PROVE  ScanInv' /\ OnlyStartInserts
<1>1. PICK where \in {"lock", "done"}, status \in Statuses :
         /\ pc' = [pc EXCEPT ![r] = where]
         /\ answer' = answer \/ answer' = [answer EXCEPT ![r] = status]
  BY DEF Resolve, GoTo, Answer, Statuses
<1>2. /\ pc[r] = "resolve"
      /\ UNCHANGED <<call, lock, rows, txn, faults, found, deleted, disturbed>>
  BY DEF Resolve
<1>3. /\ pc \in [Requests -> Places] /\ call \in [Requests -> Calls]
      /\ found \in [Requests -> BOOLEAN] /\ lock \in Requests \union {None}
  BY DEF ScanInv, ScanTypeOK, Places
<1>4. answer' \in [Requests -> Statuses] /\ \A q \in Requests \ {r} : answer'[q] = answer[q]
  BY <1>1, AnswerType
<1>5. where \in Places /\ where \notin Critical
  BY NewIsNotCritical DEF Places
<1>6. OneTransaction'
  BY <1>1, <1>2, <1>3, <1>5 DEF ScanInv, OneTransaction, TxnOpen
<1>7. RequestInv(r)'
  <2>1. pc[r] \in Early /\ rows' = rows
    BY <1>2 DEF Early
  <2>2. pc'[r] \notin Finishing
    BY <1>1, <1>3 DEF Finishing
  <2> QED
    BY <2>1, <2>2, NotStartedInv
<1> QED
  BY <1>1, <1>2, <1>3, <1>4, <1>5, <1>6, <1>7, NewIsNotCritical, QuietStep

LEMMA AcquireLockStep ==
    ASSUME ScanAssumption, ScanInv, NEW r \in Requests, AcquireLock(r)
    PROVE  ScanInv' /\ OnlyStartInserts
<1>1. /\ pc[r] = "lock"
      /\ UNCHANGED <<call, rows, txn, faults, found, deleted, disturbed>>
  BY DEF AcquireLock
<1>2. /\ pc \in [Requests -> Places] /\ call \in [Requests -> Calls]
      /\ found \in [Requests -> BOOLEAN] /\ lock \in Requests \union {None}
      /\ answer \in [Requests -> Statuses]
  BY DEF ScanInv, ScanTypeOK, Places, Statuses
<1>3. pc[r] \in Early /\ rows' = rows
  BY <1>1 DEF Early
<1>4. CASE lock = None
  <2>1. lock' = r /\ pc' = [pc EXCEPT ![r] = "start"] /\ answer' = answer
    BY <1>4 DEF AcquireLock, GoTo
  <2>2. \A q \in Requests : pc[q] \notin Critical
    BY <1>4 DEF ScanInv, OneTransaction, ScanAssumption
  <2>3. ~TxnOpen
    BY <1>4 DEF ScanInv, OneTransaction, TxnOpen
  <2>4. OneTransaction'
    BY <1>1, <1>2, <2>1, <2>2, <2>3 DEF OneTransaction, TxnOpen
  <2>5. RequestInv(r)'
    BY <1>2, <1>3, <2>1, NotStartedInv DEF Finishing
  <2>6. "start" \in Places /\ "start" \notin Finishing /\ pc[r] \notin Finishing
    BY <1>1 DEF Places, Critical, Finishing
  <2>7. /\ answer' \in [Requests -> Statuses] /\ \A q \in Requests \ {r} : answer'[q] = answer[q]
        /\ found' \in [Requests -> BOOLEAN] /\ \A q \in Requests \ {r} : found'[q] = found[q]
        /\ call' \in [Requests -> Calls] /\ lock' \in Requests \union {None}
    BY <1>1, <1>2, <2>1
  <2> QED
    BY <1>1, <2>1, <2>4, <2>5, <2>6, <2>7, QuietStep
<1>5. CASE lock # None
  <2>1. lock' = lock /\ pc' = [pc EXCEPT ![r] = "done"] /\ answer' = [answer EXCEPT ![r] = 409]
    BY <1>5 DEF AcquireLock, Answer
  <2>2. OneTransaction'
    BY <1>1, <1>2, <2>1, NewIsNotCritical DEF ScanInv, OneTransaction, TxnOpen
  <2>3. RequestInv(r)'
    BY <1>2, <1>3, <2>1, NotStartedInv DEF Finishing
  <2>4. "done" \in Places /\ "done" \notin Finishing /\ pc[r] \notin Finishing
    BY <1>1 DEF Places, Critical, Finishing
  <2>5. answer' \in [Requests -> Statuses] /\ \A q \in Requests \ {r} : answer'[q] = answer[q]
    BY <1>2, <2>1 DEF Statuses
  <2>6. /\ found' \in [Requests -> BOOLEAN] /\ \A q \in Requests \ {r} : found'[q] = found[q]
        /\ call' \in [Requests -> Calls] /\ lock' \in Requests \union {None}
    BY <1>1, <1>2, <2>1
  <2> QED
    BY <1>1, <2>1, <2>2, <2>3, <2>4, <2>5, <2>6, QuietStep
<1> QED
  BY <1>4, <1>5

(* The lock stays where it is while its holder goes on.                    *)
LEMMA HolderGoesOn ==
    ASSUME ScanInv, NEW r \in Requests, NEW where \in Critical \ Finishing,
           pc[r] \in Critical \ Finishing, pc' = [pc EXCEPT ![r] = where],
           lock' = lock, txn' = txn
    PROVE  OneTransaction'
<1>1. lock = r /\ ~TxnOpen
  BY ClosedOutsideFinish DEF ScanInv, OneTransaction
<1>2. \A q \in Requests : pc'[q] \in Critical => lock = q
  BY <1>1 DEF ScanInv, ScanTypeOK, OneTransaction
<1> QED
  BY <1>1, <1>2 DEF OneTransaction, TxnOpen

LEMMA RunLayersStep ==
    ASSUME ScanInv, NEW r \in Requests, RunLayers(r)
    PROVE  ScanInv' /\ OnlyStartInserts
<1>1. PICK where \in {"fail", "begin", "setSource"}, some \in BOOLEAN :
         /\ pc' = [pc EXCEPT ![r] = where]
         /\ found' = found \/ found' = [found EXCEPT ![r] = some]
  BY DEF RunLayers, GoTo
<1>2. /\ pc[r] = "layers"
      /\ UNCHANGED <<call, answer, lock, rows, txn, faults, deleted, disturbed>>
  BY DEF RunLayers
<1>3. /\ pc \in [Requests -> Places] /\ call \in [Requests -> Calls]
      /\ found \in [Requests -> BOOLEAN] /\ lock \in Requests \union {None}
      /\ answer \in [Requests -> Statuses]
  BY DEF ScanInv, ScanTypeOK, Places, Statuses
<1>4. /\ found' \in [Requests -> BOOLEAN]
      /\ \A q \in Requests \ {r} : found'[q] = found[q]
  BY <1>1, <1>3
<1>5. where \in Critical \ Finishing /\ where \in Places
      /\ pc[r] \in Critical \ Finishing
  BY <1>2, NewIsNotCritical DEF Places
<1>6. OneTransaction'
  BY <1>1, <1>2, <1>5, HolderGoesOn
<1>7. RequestInv(r)'
  <2>1. rows[r].status \in Open /\ ~rows[r].findings
    BY <1>2 DEF ScanInv, RequestInv, RowFollowsHandler, RowIsWhole, Started
  <2>2. pc'[r] = where
    BY <1>1, <1>3
  <2> QED
    BY <1>2, <2>1, <2>2
    DEF RequestInv, RowFollowsHandler, RowIsWhole, Concluded, Early, Finishing, Open
<1> QED
  BY <1>1, <1>2, <1>3, <1>4, <1>5, <1>6, <1>7, QuietStep

LEMMA ReleaseStep ==
    ASSUME ScanAssumption, ScanInv, NEW r \in Requests, Release(r)
    PROVE  ScanInv' /\ OnlyStartInserts
<1>1. /\ pc[r] = "release" /\ lock' = None /\ pc' = [pc EXCEPT ![r] = "done"]
      /\ UNCHANGED <<call, answer, rows, txn, faults, found, deleted, disturbed>>
  BY DEF Release, GoTo
<1>2. /\ pc \in [Requests -> Places] /\ call \in [Requests -> Calls]
      /\ found \in [Requests -> BOOLEAN] /\ answer \in [Requests -> Statuses]
  BY DEF ScanInv, ScanTypeOK, Places, Statuses
<1>3. pc[r] \in Critical \ Finishing /\ "done" \in Places /\ "done" \notin Critical
  BY <1>1, NewIsNotCritical DEF Places
<1>4. lock = r /\ ~TxnOpen
  BY <1>3, ClosedOutsideFinish DEF ScanInv, OneTransaction
<1>5. \A q \in Requests : pc'[q] \notin Critical
  BY <1>1, <1>2, <1>3, <1>4 DEF ScanInv, OneTransaction
<1>6. OneTransaction'
  BY <1>1, <1>4, <1>5 DEF OneTransaction, TxnOpen
<1>7. RequestInv(r)'
  <2>1. RequestInv(r) /\ pc'[r] = "done"
    BY <1>1, <1>2 DEF ScanInv
  <2> QED
    BY <1>1, <2>1
    DEF RequestInv, RowFollowsHandler, RowIsWhole, Concluded, Early, Started, Finishing
<1>8. /\ "done" \notin Finishing /\ pc[r] \notin Finishing
      /\ \A q \in Requests \ {r} : found'[q] = found[q] /\ answer'[q] = answer[q]
      /\ call' \in [Requests -> Calls] /\ lock' \in Requests \union {None}
      /\ found' \in [Requests -> BOOLEAN] /\ answer' \in [Requests -> Statuses]
  BY <1>1, <1>2, <1>3, NewIsNotCritical
<1> QED
  BY <1>1, <1>3, <1>6, <1>7, <1>8, QuietStep

(* The holder of the lock executes a statement, no transaction being open. *)
LEMMA OwnStep ==
    ASSUME ScanInv, NEW r \in Requests, NEW where \in {"layers", "begin", "fail", "release"},
           pc[r] \in Critical \ Finishing, pc' = [pc EXCEPT ![r] = where],
           rows' \in Tables, txn' = NoTxn, faults' \in 0..MaxFaults,
           disturbed \subseteq disturbed', disturbed' \subseteq Requests,
           \A q \in Requests \ {r} : rows'[q] = rows[q],
           rows[r].status = "absent" /\ rows'[r].status # "absent" => pc[r] = "start",
           answer' \in [Requests -> Statuses],
           \A q \in Requests \ {r} : answer'[q] = answer[q],
           UNCHANGED <<call, lock, found, deleted>>, RequestInv(r)'
    PROVE  ScanInv' /\ OnlyStartInserts
<1>1. /\ pc \in [Requests -> Places] /\ call \in [Requests -> Calls]
      /\ found \in [Requests -> BOOLEAN] /\ lock \in Requests \union {None}
      /\ deleted \in [Requests -> SUBSET Requests]
  BY DEF ScanInv, ScanTypeOK, Places
<1>2. txn = NoTxn
  BY ClosedOutsideFinish
<1>3. where \in Critical \ Finishing /\ where \in Places
  BY NewIsNotCritical DEF Places
<1>4. ScanTypeOK'
  <2>1. pc' \in [Requests -> Places] /\ txn' \in Txns
    BY <1>1, <1>3, NoTxnType
  <2> QED
    BY <1>1, <2>1 DEF ScanTypeOK, Places, Statuses, Txns
<1>5. OneTransaction'
  BY <1>2, <1>3, HolderGoesOn
<1>6. TxnInv'
  BY NoTxnType DEF TxnInv, TxnOpen, NoTxn
<1>7. \A q \in Requests : RequestInv(q)'
  <2> SUFFICES ASSUME NEW q \in Requests \ {r}
               PROVE  RequestInv(q)'
    OBVIOUS
  <2>1. RequestInv(q) /\ pc'[q] = pc[q] /\ found'[q] = found[q]
    BY <1>1 DEF ScanInv
  <2> QED
    BY <1>2, <2>1, BystanderInv
<1> QED
  BY <1>4, <1>5, <1>6, <1>7 DEF ScanInv, OnlyStartInserts

LEMMA StartStep ==
    ASSUME ScanAssumption, ScanInv, NEW r \in Requests, Start(r)
    PROVE  ScanInv' /\ OnlyStartInserts
<1>1. pc[r] = "start" /\ pc[r] \in Critical \ Finishing
      /\ UNCHANGED <<call, lock, found, deleted>>
  BY NewIsNotCritical DEF Start
<1>2. PICK raised \in BOOLEAN : \E seen :
         /\ Execute(Of(r, "insert"), raised, seen)
         /\ IF raised THEN Conclude(r, 500) ELSE GoTo(r, "layers") /\ UNCHANGED answer
  BY DEF Start
<1>3. /\ rows' \in Tables /\ txn' = NoTxn /\ txn = NoTxn /\ faults' \in 0..MaxFaults
      /\ disturbed \subseteq disturbed' /\ disturbed' \subseteq Requests
      /\ \A q \in Requests \ {r} : rows'[q] = rows[q]
      /\ rows'[r] = rows[r] \/ rows'[r] = [status |-> "running", findings |-> FALSE]
      /\ r \notin disturbed' => (raised => rows[r].status # "absent")
  BY <1>1, <1>2, OwnStatement
<1>4. rows[r].status = "absent" /\ ~rows[r].findings
  BY <1>1 DEF ScanInv, RequestInv, RowFollowsHandler, RowIsWhole, Early, Open
<1>5. rows'[r].status \in Open /\ ~rows'[r].findings
  BY <1>3, <1>4 DEF Open
<1>6. /\ pc \in [Requests -> Places] /\ answer \in [Requests -> Statuses]
  BY DEF ScanInv, ScanTypeOK, Places, Statuses
<1>7. CASE raised
  <2>1. pc' = [pc EXCEPT ![r] = "release"] /\ answer' = [answer EXCEPT ![r] = 500]
    BY <1>2, <1>7 DEF Conclude, GoTo
  <2>2. answer' \in [Requests -> Statuses] /\ \A q \in Requests \ {r} : answer'[q] = answer[q]
    BY <1>6, <2>1 DEF Statuses
  <2>3. RequestInv(r)'
    <3>1. pc'[r] = "release" /\ r \in disturbed'
      BY <1>3, <1>4, <1>6, <1>7, <2>1
    <3> QED
      BY <1>5, <3>1
      DEF RequestInv, RowFollowsHandler, RowIsWhole, Concluded, Early, Started,
          Finishing, Open
  <2> QED
    BY <1>1, <1>3, <2>1, <2>2, <2>3, OwnStep
<1>8. CASE ~raised
  <2>1. pc' = [pc EXCEPT ![r] = "layers"] /\ answer' = answer
    BY <1>2, <1>8 DEF GoTo
  <2>2. RequestInv(r)'
    <3>1. pc'[r] = "layers"
      BY <1>6, <2>1
    <3> QED
      BY <1>5, <3>1
      DEF RequestInv, RowFollowsHandler, RowIsWhole, Concluded, Early, Started,
          Finishing, Open
  <2> QED
    BY <1>1, <1>3, <1>6, <2>1, <2>2, OwnStep
<1> QED
  BY <1>7, <1>8

LEMMA SetSourceStep ==
    ASSUME ScanAssumption, ScanInv, NEW r \in Requests, SetSource(r)
    PROVE  ScanInv' /\ OnlyStartInserts
<1>1. /\ pc[r] = "setSource" /\ pc[r] \in Critical \ Finishing
      /\ UNCHANGED <<call, answer, lock, found, deleted>>
  BY NewIsNotCritical DEF SetSource
<1>2. PICK raised \in BOOLEAN : \E seen :
         /\ Execute(Of(r, "setSource"), raised, seen)
         /\ GoTo(r, IF raised THEN "fail" ELSE "begin")
  BY DEF SetSource
<1>3. /\ rows' \in Tables /\ txn' = NoTxn /\ txn = NoTxn /\ faults' \in 0..MaxFaults
      /\ disturbed \subseteq disturbed' /\ disturbed' \subseteq Requests
      /\ rows' = rows
  BY <1>1, <1>2, OwnStatement
<1>4. PICK where \in {"fail", "begin"} : pc' = [pc EXCEPT ![r] = where]
  BY <1>2 DEF GoTo
<1>5. /\ pc \in [Requests -> Places] /\ answer \in [Requests -> Statuses]
  BY DEF ScanInv, ScanTypeOK, Places, Statuses
<1>6. RequestInv(r)'
  <2>1. rows[r].status \in Open /\ ~rows[r].findings /\ pc'[r] = where
    BY <1>1, <1>4, <1>5 DEF ScanInv, RequestInv, RowFollowsHandler, RowIsWhole, Started
  <2> QED
    BY <1>3, <2>1
    DEF RequestInv, RowFollowsHandler, RowIsWhole, Concluded, Early, Started,
        Finishing, Open
<1> QED
  BY <1>1, <1>3, <1>4, <1>5, <1>6, OwnStep

LEMMA MarkFailedStep ==
    ASSUME ScanAssumption, ScanInv, NEW r \in Requests, MarkFailed(r)
    PROVE  ScanInv' /\ OnlyStartInserts
<1>1. /\ pc[r] = "fail" /\ pc[r] \in Critical \ Finishing
      /\ UNCHANGED <<call, lock, found, deleted>>
      /\ pc' = [pc EXCEPT ![r] = "release"] /\ answer' = [answer EXCEPT ![r] = 500]
  BY NewIsNotCritical DEF MarkFailed, Conclude, GoTo
<1>2. PICK raised \in BOOLEAN : \E seen : Execute(Of(r, "fail"), raised, seen)
  BY DEF MarkFailed
<1>3. /\ rows' \in Tables /\ txn' = NoTxn /\ txn = NoTxn /\ faults' \in 0..MaxFaults
      /\ disturbed \subseteq disturbed' /\ disturbed' \subseteq Requests
      /\ \A q \in Requests \ {r} : rows'[q] = rows[q]
      /\ \/ rows'[r] = rows[r]
         \/ rows'[r].status = "failed" /\ rows[r].status # "absent"
      /\ r \notin disturbed' => rows'[r].status \in {"absent", "failed"}
  BY <1>1, <1>2, OwnStatement
<1>4. /\ pc \in [Requests -> Places] /\ answer \in [Requests -> Statuses]
  BY DEF ScanInv, ScanTypeOK, Places, Statuses
<1>5. answer' \in [Requests -> Statuses] /\ \A q \in Requests \ {r} : answer'[q] = answer[q]
  BY <1>1, <1>4 DEF Statuses
<1>6. RequestInv(r)'
  <2>1. pc'[r] = "release" /\ answer'[r] = 500 /\ found'[r] = found[r]
    BY <1>1, <1>4
  <2>2. RowIsWhole(r)'
    BY <1>3, <2>1 DEF ScanInv, RequestInv, RowIsWhole, Open
  <2>3. Concluded(r)'
    BY <1>3, <2>1 DEF Concluded
  <2> QED
    BY <2>1, <2>2, <2>3
    DEF RequestInv, RowFollowsHandler, Early, Started, Finishing
<1> QED
  BY <1>1, <1>3, <1>5, <1>6, OwnStep
----------------------------------------------------------------------------
(* The transaction of ScanStore.finish.                                    *)

(* The handler inside finish is alone there, and in its own transaction    *)
(* unless it was lost.                                                     *)
LEMMA InFinish ==
    ASSUME ScanAssumption, ScanInv, NEW r \in Requests, pc[r] \in Critical
    PROVE  /\ lock = r
           /\ \A q \in Requests \ {r} : pc[q] \notin Critical
           /\ txn.owner \in {r, None}
           /\ txn.owner = None => txn = NoTxn
           /\ txn.owner = r => TxnOpen
BY DEF ScanInv, OneTransaction, TxnInv, TxnOpen, ScanAssumption

(* A step of r inside finish, into, in or out of its transaction.          *)
LEMMA FinishStep ==
    ASSUME ScanAssumption, ScanInv, NEW r \in Requests, pc[r] \in Critical,
           NEW where \in Finishing \union {"fail", "release"},
           pc' = [pc EXCEPT ![r] = where],
           txn' = NoTxn \/ (where \in Finishing /\ txn' \in Txns /\ txn'.owner = r),
           rows' \in Tables, \A q \in Requests \ {r} : rows'[q] \in {rows[q], Absent},
           rows[r].status = "absent" => rows'[r].status = "absent",
           answer' \in [Requests -> Statuses],
           \A q \in Requests \ {r} : answer'[q] = answer[q],
           faults' = faults \/ (faults < MaxFaults /\ faults' = faults + 1),
           UNCHANGED <<call, lock, found, deleted, disturbed>>,
           TxnInv', RequestInv(r)'
    PROVE  ScanInv' /\ OnlyStartInserts
<1>1. /\ pc \in [Requests -> Places] /\ call \in [Requests -> Calls]
      /\ found \in [Requests -> BOOLEAN] /\ lock \in Requests \union {None}
      /\ deleted \in [Requests -> SUBSET Requests] /\ faults \in 0..MaxFaults
      /\ disturbed \subseteq Requests
  BY DEF ScanInv, ScanTypeOK, Places
<1>2. where \in Critical /\ where \in Places
  BY NewIsNotCritical DEF Places, Critical, Pipeline
<1>3. ScanTypeOK'
  <2>1. pc' \in [Requests -> Places] /\ txn' \in Txns
    BY <1>1, <1>2, NoTxnType
  <2> QED
    BY <1>1, <2>1 DEF ScanTypeOK, Places, Statuses, Txns
<1>4. /\ lock = r /\ txn.owner \in {r, None}
      /\ \A q \in Requests \ {r} : pc[q] \notin Critical
  BY InFinish
<1>5. OneTransaction'
  <2>1. \A q \in Requests : pc'[q] \in Critical => lock' = q
    BY <1>1, <1>4
  <2>2. TxnOpen' => lock' = txn'.owner /\ pc'[txn'.owner] \in {"findings", "update", "commit"}
    BY <1>1, <1>4, NoTxnType DEF TxnOpen, Finishing
  <2> QED
    BY <2>1, <2>2 DEF OneTransaction
<1>6. \A q \in Requests : RequestInv(q)'
  <2> SUFFICES ASSUME NEW q \in Requests \ {r}
               PROVE  RequestInv(q)'
    OBVIOUS
  <2>1. /\ RequestInv(q) /\ pc'[q] = pc[q] /\ found'[q] = found[q]
        /\ txn.owner # q
    BY <1>1, <1>4 DEF ScanInv, ScanAssumption
  <2> QED
    BY <2>1, BystanderInv
<1>7. OnlyStartInserts
  BY DEF OnlyStartInserts, Absent
<1> QED
  BY <1>3, <1>5, <1>6, <1>7 DEF ScanInv

(* What the transaction of r has to be for TxnInv.                         *)
LEMMA OwnTxnInv ==
    ASSUME NEW r \in Requests, txn'.owner = r,
           ~txn'.aborted,
           None \notin Requests,
           \A q \in Requests \ {r} : txn'.table[q] \in {rows'[q], Absent},
           rows'[r].status \in Open,
           rows'[r].status = "absent" => txn'.table[r].status = "absent",
           OwnRow(r, txn.table[r])'
    PROVE  TxnInv'
<1>1. TxnOpen' /\ Absent' = Absent
  BY DEF TxnOpen, Absent
<1>2. OwnRow(txn.owner, txn.table[txn.owner])'
  BY DEF OwnRow
<1> QED
  BY <1>1, <1>2 DEF TxnInv

LEMMA ClosedTxnInv == ASSUME txn' = NoTxn PROVE TxnInv'
BY NoTxnType DEF TxnInv, TxnOpen, NoTxn

LEMMA BeginTxnStep ==
    ASSUME ScanAssumption, ScanInv, NEW r \in Requests, BeginTxn(r)
    PROVE  ScanInv' /\ OnlyStartInserts
<1>1. /\ pc[r] = "begin" /\ UNCHANGED <<call, answer, lock, rows, found, deleted, disturbed>>
  BY DEF BeginTxn
<1>2. pc[r] \in Critical \ Finishing /\ "findings" \in Finishing
  BY <1>1, NewIsNotCritical DEF Finishing
<1>3. /\ pc \in [Requests -> Places] /\ rows \in Tables /\ answer \in [Requests -> Statuses]
  BY DEF ScanInv, ScanTypeOK, Places, Statuses
<1>4. rows[r].status \in Open /\ ~rows[r].findings
  BY <1>1 DEF ScanInv, RequestInv, RowFollowsHandler, RowIsWhole, Started
<1>5. ASSUME NEW where \in {"findings", "fail"}, pc' = [pc EXCEPT ![r] = where]
      PROVE  RequestInv(r)'
  <2>1. pc'[r] = where
    BY <1>3, <1>5
  <2> QED
    BY <1>1, <1>4, <2>1 DEF RequestInv, RowFollowsHandler, RowIsWhole, Concluded, Early, Open
<1>6. CASE /\ txn' = [owner |-> r, table |-> rows, aborted |-> FALSE]
           /\ GoTo(r, "findings") /\ UNCHANGED faults
  <2>1. pc' = [pc EXCEPT ![r] = "findings"] /\ pc'[r] = "findings"
    BY <1>3, <1>6 DEF GoTo
  <2>2. /\ txn' \in Txns /\ txn'.owner = r /\ txn'.table = rows /\ ~txn'.aborted
    BY <1>3, <1>6 DEF Txns
  <2>3. OwnRow(r, txn.table[r])'
    BY <1>1, <1>4, <2>1, <2>2 DEF OwnRow
  <2>4. TxnInv'
    BY <1>1, <1>4, <2>2, <2>3, OwnTxnInv DEF ScanAssumption
  <2> QED
    BY <1>1, <1>2, <1>3, <1>5, <1>6, <2>1, <2>2, <2>4, FinishStep
<1>7. CASE /\ faults < MaxFaults /\ faults' = faults + 1
           /\ GoTo(r, "fail") /\ UNCHANGED txn
  <2>1. pc' = [pc EXCEPT ![r] = "fail"] /\ txn' = NoTxn
    BY <1>2, <1>7, ClosedOutsideFinish DEF GoTo
  <2> QED
    BY <1>1, <1>2, <1>3, <1>5, <1>7, <2>1, ClosedTxnInv, FinishStep
<1> QED
  BY <1>6, <1>7 DEF BeginTxn

(* The with block raises: whatever was open is rolled back.                *)
LEMMA RollBackStep ==
    ASSUME ScanAssumption, ScanInv, NEW r \in Requests, pc[r] \in Finishing, RollBack(r),
           UNCHANGED <<call, answer, lock, rows, faults, found, deleted, disturbed>>
    PROVE  ScanInv' /\ OnlyStartInserts
<1>1. pc[r] \in Critical
  BY NewIsNotCritical
<1>2. txn' = NoTxn /\ pc' = [pc EXCEPT ![r] = "fail"]
  BY <1>1, InFinish DEF RollBack, GoTo
<1>3. /\ pc \in [Requests -> Places] /\ rows \in Tables /\ answer \in [Requests -> Statuses]
  BY DEF ScanInv, ScanTypeOK, Places, Statuses
<1>4. RequestInv(r)'
  <2>1. RowIsWhole(r) /\ pc'[r] = "fail"
    BY <1>2, <1>3 DEF ScanInv, RequestInv
  <2> QED
    BY <2>1
    DEF RequestInv, RowFollowsHandler, RowIsWhole, Concluded, Early, Started, Finishing
<1> QED
  BY <1>1, <1>2, <1>3, <1>4, ClosedTxnInv, FinishStep

LEMMA InsertFindingsStep ==
    ASSUME ScanAssumption, ScanInv, NEW r \in Requests, InsertFindings(r)
    PROVE  ScanInv' /\ OnlyStartInserts
<1>1. /\ pc[r] = "findings" /\ pc[r] \in Finishing
      /\ UNCHANGED <<call, answer, lock, rows, faults, found, deleted, disturbed>>
  BY DEF InsertFindings, Finishing
<1>2. CASE ~(InTxn(r) /\ (found[r] => txn.table[r].status # "absent"))
  <2>1. RollBack(r)
    BY <1>2 DEF InsertFindings
  <2> QED
    BY <1>1, <2>1, RollBackStep
<1>3. CASE InTxn(r) /\ (found[r] => txn.table[r].status # "absent")
  <2>1. /\ txn' = [txn EXCEPT !.table[r].findings = found[r]]
        /\ pc' = [pc EXCEPT ![r] = "update"]
        /\ txn.owner = r /\ ~txn.aborted
    BY <1>3 DEF InsertFindings, InTxn, GoTo
  <2>2. /\ pc \in [Requests -> Places] /\ rows \in Tables /\ answer \in [Requests -> Statuses]
        /\ txn \in Txns /\ txn.table \in Tables /\ txn.table[r] \in Row
        /\ found[r] \in BOOLEAN
    BY DEF ScanInv, ScanTypeOK, Places, Statuses, Txns, Tables
  <2> DEFINE row == [status |-> txn.table[r].status, findings |-> found[r]]
  <2>3. row \in Row /\ [txn.table[r] EXCEPT !.findings = found[r]] = row
    BY <2>2 DEF Row
  <2>4. [txn.table EXCEPT ![r] = row] \in Tables
    BY <2>2, <2>3 DEF Tables
  <2>5. txn' = [txn EXCEPT !.table = [txn.table EXCEPT ![r] = row]]
    <3>1. txn' = [txn EXCEPT !.table =
                     [txn.table EXCEPT ![r] = [txn.table[r] EXCEPT !.findings = found[r]]]]
      BY <2>1
    <3> QED
      BY <2>3, <3>1
  <2> HIDE DEF row
  <2>6. /\ txn' \in Txns /\ txn'.owner = r /\ ~txn'.aborted
        /\ txn'.table[r] = row /\ \A q \in Requests \ {r} : txn'.table[q] = txn.table[q]
    BY <2>1, <2>2, <2>4, <2>5 DEF Txns, Tables
  <2>7. /\ \A q \in Requests \ {r} : txn.table[q] \in {rows[q], Absent}
        /\ rows[r].status \in Open
        /\ rows[r].status = "absent" => txn.table[r].status = "absent"
        /\ txn.table[r] \in {rows[r], Absent}
    BY <1>1, <2>1, InFinish, NewIsNotCritical DEF ScanInv, TxnInv, OwnRow
  <2>8. /\ txn.table[r].status \in Open
        /\ row.status = txn.table[r].status /\ row.findings = found[r]
        /\ row.status = "absent" => ~row.findings
    BY <1>3, <2>7 DEF Absent, Open, row
  <2>9. pc'[r] = "update"
    BY <2>1, <2>2
  <2>10. OwnRow(r, txn.table[r])'
    BY <1>1, <2>6, <2>8, <2>9 DEF OwnRow
  <2>11. TxnInv'
    BY <1>1, <2>6, <2>7, <2>8, <2>10, OwnTxnInv DEF ScanAssumption
  <2>12. RequestInv(r)'
    <3>1. RowIsWhole(r)
      BY DEF ScanInv, RequestInv
    <3> QED
      BY <1>1, <2>6, <2>7, <2>9, <3>1
      DEF RequestInv, RowFollowsHandler, RowIsWhole, Concluded, Early
  <2>13. pc[r] \in Critical /\ "update" \in Finishing
    BY <1>1, NewIsNotCritical DEF Finishing
  <2> QED
    BY <1>1, <2>1, <2>2, <2>6, <2>11, <2>12, <2>13, FinishStep
<1> QED
  BY <1>2, <1>3

LEMMA UpdateScanStep ==
    ASSUME ScanAssumption, ScanInv, NEW r \in Requests, UpdateScan(r)
    PROVE  ScanInv' /\ OnlyStartInserts
<1>1. /\ pc[r] = "update" /\ pc[r] \in Finishing
      /\ UNCHANGED <<call, answer, lock, rows, faults, found, deleted, disturbed>>
  BY DEF UpdateScan, Finishing
<1>2. CASE ~InTxn(r)
  <2>1. RollBack(r)
    BY <1>2 DEF UpdateScan
  <2> QED
    BY <1>1, <2>1, RollBackStep
<1>3. CASE InTxn(r)
  <2> DEFINE table == SetStatus(txn.table, r, "ok")
  <2>1. /\ txn' = [txn EXCEPT !.table = table]
        /\ pc' = [pc EXCEPT ![r] = "commit"]
        /\ txn.owner = r /\ ~txn.aborted
    BY <1>3 DEF UpdateScan, InTxn, GoTo
  <2>2. /\ pc \in [Requests -> Places] /\ rows \in Tables /\ answer \in [Requests -> Statuses]
        /\ txn \in Txns /\ txn.table \in Tables
    BY DEF ScanInv, ScanTypeOK, Places, Statuses, Txns
  <2>3. /\ table \in Tables
        /\ \A q \in Requests \ {r} : table[q] = txn.table[q]
        /\ table[r] = IF txn.table[r].status = "absent" THEN txn.table[r]
                      ELSE [status |-> "ok", findings |-> txn.table[r].findings]
    BY <2>2, SetStatusType
  <2> HIDE DEF table
  <2>4. /\ txn' \in Txns /\ txn'.owner = r /\ ~txn'.aborted /\ txn'.table = table
    BY <2>1, <2>2, <2>3 DEF Txns
  <2>5. /\ \A q \in Requests \ {r} : txn.table[q] \in {rows[q], Absent}
        /\ rows[r].status \in Open
        /\ rows[r].status = "absent" => txn.table[r].status = "absent"
        /\ txn.table[r].status = "absent" => ~txn.table[r].findings
        /\ txn.table[r].status \in Open
        /\ txn.table[r].status = "running" => txn.table[r].findings = found[r]
    BY <1>1, <2>1, InFinish, NewIsNotCritical DEF ScanInv, TxnInv, OwnRow
  <2>6. pc'[r] = "commit"
    BY <2>1, <2>2
  <2>7. /\ table[r].status = "absent" => ~table[r].findings
        /\ table[r].status \in {"ok", "absent"}
        /\ table[r].status = "ok" => table[r].findings = found[r]
        /\ rows[r].status = "absent" => table[r].status = "absent"
    BY <2>3, <2>5 DEF Open
  <2>8. OwnRow(r, txn.table[r])'
    BY <1>1, <2>4, <2>6, <2>7 DEF OwnRow
  <2>9. TxnInv'
    BY <1>1, <2>3, <2>4, <2>5, <2>7, <2>8, OwnTxnInv DEF ScanAssumption
  <2>10. RequestInv(r)'
    <3>1. RowIsWhole(r)
      BY DEF ScanInv, RequestInv
    <3> QED
      BY <1>1, <2>4, <2>5, <2>6, <3>1
      DEF RequestInv, RowFollowsHandler, RowIsWhole, Concluded, Early, Started
  <2>11. pc[r] \in Critical /\ "commit" \in Finishing
    BY <1>1, NewIsNotCritical DEF Finishing
  <2> QED
    BY <1>1, <2>1, <2>2, <2>4, <2>9, <2>10, <2>11, FinishStep
<1> QED
  BY <1>2, <1>3

(* What a COMMIT that reached the server leaves: rows of other scans only  *)
(* disappear, and the scan of the transaction is ok with what it found, or *)
(* was deleted.                                                            *)
LEMMA Published ==
    ASSUME ScanInv, TxnOpen, pc[txn.owner] = "commit"
    PROVE  /\ \A q \in Requests \ {txn.owner} : txn.table[q] \in {rows[q], Absent}
           /\ rows[txn.owner].status = "absent" => txn.table[txn.owner].status = "absent"
           /\ txn.table[txn.owner].status \in {"ok", "absent"}
           /\ txn.table[txn.owner].status = "ok" =>
                 txn.table[txn.owner].findings = found[txn.owner]
           /\ txn.table[txn.owner].status = "absent" => ~txn.table[txn.owner].findings
           /\ txn.table \in Tables
BY DEF ScanInv, TxnInv, OwnRow, ScanTypeOK

LEMMA CommitTxnStep ==
    ASSUME ScanAssumption, ScanInv, NEW r \in Requests, CommitTxn(r)
    PROVE  ScanInv' /\ OnlyStartInserts
<1>1. /\ pc[r] = "commit" /\ pc[r] \in Finishing /\ pc[r] \in Critical
      /\ UNCHANGED <<call, lock, faults, found, deleted, disturbed>>
  BY NewIsNotCritical DEF CommitTxn, Finishing
<1>2. CASE txn.owner # r
  <2>1. RollBack(r) /\ UNCHANGED <<rows, answer>>
    BY <1>2 DEF CommitTxn
  <2> QED
    BY <1>1, <2>1, RollBackStep
<1>3. CASE txn.owner = r
  <2>1. /\ rows' = IF txn.aborted THEN rows ELSE txn.table
        /\ txn' = NoTxn
        /\ pc' = [pc EXCEPT ![r] = "release"] /\ answer' = [answer EXCEPT ![r] = 201]
    BY <1>3 DEF CommitTxn, Conclude, GoTo
  <2>2. /\ pc \in [Requests -> Places] /\ rows \in Tables /\ answer \in [Requests -> Statuses]
    BY DEF ScanInv, ScanTypeOK, Places, Statuses
  <2>3. TxnOpen
    BY <1>1, <1>3, InFinish
  <2>4. /\ \A q \in Requests \ {r} : txn.table[q] \in {rows[q], Absent}
        /\ rows[r].status = "absent" => txn.table[r].status = "absent"
        /\ txn.table[r].status \in {"ok", "absent"}
        /\ txn.table[r].status = "ok" => txn.table[r].findings = found[r]
        /\ txn.table[r].status = "absent" => ~txn.table[r].findings
        /\ txn.table \in Tables
    BY <1>1, <1>3, <2>3, Published
  <2>5. txn.aborted => r \in disturbed
    BY <1>1, <1>3 DEF ScanInv, TxnInv
  <2>6. /\ answer' \in [Requests -> Statuses] /\ \A q \in Requests \ {r} : answer'[q] = answer[q]
        /\ pc'[r] = "release" /\ answer'[r] = 201
    BY <2>1, <2>2 DEF Statuses
  <2>7. RequestInv(r)'
    <3>1. RowIsWhole(r)'
      BY <1>1, <2>1, <2>4 DEF ScanInv, RequestInv, RowIsWhole, Open
    <3>2. Concluded(r)'
      BY <1>1, <2>1, <2>4, <2>5, <2>6 DEF Concluded
    <3> QED
      BY <2>6, <3>1, <3>2
      DEF RequestInv, RowFollowsHandler, Early, Started, Finishing
  <2>8. TxnInv'
    BY <2>1, ClosedTxnInv
  <2>9. /\ rows' \in Tables /\ \A q \in Requests \ {r} : rows'[q] \in {rows[q], Absent}
        /\ rows[r].status = "absent" => rows'[r].status = "absent"
    BY <2>1, <2>2, <2>4
  <2> QED
    BY <1>1, <2>1, <2>6, <2>7, <2>8, <2>9, FinishStep
<1> QED
  BY <1>2, <1>3

(* The connection is lost under the transaction. *)
LEMMA LoseTxnStep ==
    ASSUME ScanAssumption, ScanInv, LoseTxn
    PROVE  ScanInv' /\ OnlyStartInserts
<1>0. TxnOpen /\ txn.owner \in Requests
  BY DEF LoseTxn, ScanInv, ScanTypeOK, TxnOpen
<1> PICK o \in Requests : o = txn.owner
  BY <1>0
<1>1. /\ TxnOpen /\ faults < MaxFaults /\ faults' = faults + 1 /\ txn' = NoTxn
      /\ rows' = rows \/ (pc[o] = "commit" /\ rows' = txn.table)
      /\ UNCHANGED <<call, pc, answer, lock, found, deleted, disturbed>>
  BY DEF LoseTxn
<1>2. o \in Requests /\ pc[o] \in Finishing
  BY <1>1 DEF ScanInv, ScanTypeOK, OneTransaction, TxnOpen, Finishing
<1>3. /\ rows' \in Tables /\ \A q \in Requests \ {o} : rows'[q] \in {rows[q], Absent}
      /\ rows[o].status = "absent" => rows'[o].status = "absent"
  BY <1>1, Published DEF ScanInv, ScanTypeOK
<1>4. ScanTypeOK'
  <2>1. faults' \in 0..MaxFaults /\ disturbed' \subseteq Requests
    BY <1>1, <1>2 DEF ScanInv, ScanTypeOK, ScanAssumption
  <2>2. txn' \in Txns
    BY <1>1, NoTxnType
  <2> QED
    BY <1>1, <1>3, <2>1, <2>2 DEF ScanInv, ScanTypeOK, Txns
<1>5. OneTransaction'
  BY <1>1, NoTxnType DEF ScanInv, OneTransaction, TxnOpen
<1>6. TxnInv'
  BY <1>1, ClosedTxnInv
<1>7. \A q \in Requests : RequestInv(q)'
  <2>1. ASSUME NEW q \in Requests \ {o}
        PROVE  RequestInv(q)'
    <3>1. RequestInv(q) /\ txn.owner # q
      BY DEF ScanInv
    <3> QED
      BY <1>1, <1>3, <3>1, BystanderInv
  <2>2. RequestInv(o)'
    <3>1. RequestInv(o)
      BY DEF ScanInv
    <3>2. CASE rows' = rows
      BY <1>1, <1>2, <3>1, <3>2
      DEF RequestInv, RowFollowsHandler, RowIsWhole, Concluded
    <3>3. CASE pc[o] = "commit" /\ rows' = txn.table
      <4>1. /\ rows'[o].status \in {"ok", "absent"}
            /\ rows'[o].status = "ok" => rows'[o].findings = found[o]
            /\ rows'[o].status = "absent" => ~rows'[o].findings
        BY <1>1, <3>3, Published
      <4>2. RowIsWhole(o)'
        BY <1>1, <4>1 DEF RowIsWhole, Open
      <4> QED
        BY <1>1, <3>3, <4>2
        DEF RequestInv, RowFollowsHandler, Concluded, Early, Started
    <3> QED
      BY <1>1, <3>2, <3>3
  <2> QED
    BY <2>1, <2>2
<1>8. OnlyStartInserts
  BY <1>3 DEF OnlyStartInserts, Absent
<1> QED
  BY <1>4, <1>5, <1>6, <1>7, <1>8 DEF ScanInv

(* The API process dies: no handler is left, and no transaction.           *)
LEMMA CrashStep ==
    ASSUME ScanAssumption, ScanInv, Crash
    PROVE  ScanInv' /\ OnlyStartInserts
<1>1. /\ faults < MaxFaults /\ faults' = faults + 1
      /\ pc' = [q \in Requests |-> IF Active(q) THEN "gone" ELSE pc[q]]
      /\ lock' = None /\ txn' = NoTxn
      /\ rows' = rows \/ (TxnOpen /\ pc[txn.owner] = "commit" /\ rows' = txn.table)
      /\ UNCHANGED <<call, answer, found, deleted, disturbed>>
  BY DEF Crash
<1>2. TxnOpen => txn.owner \in Requests /\ Active(txn.owner)
  BY DEF ScanInv, ScanTypeOK, OneTransaction, TxnOpen, Active
<1>3. /\ rows' \in Tables
      /\ \A q \in Requests : ~Active(q) => rows'[q] \in {rows[q], Absent}
      /\ \A q \in Requests : rows[q].status = "absent" => rows'[q].status = "absent"
  <2>1. CASE rows' = rows
    BY <2>1 DEF ScanInv, ScanTypeOK
  <2>2. CASE TxnOpen /\ pc[txn.owner] = "commit" /\ rows' = txn.table
    BY <1>2, <2>2, Published DEF Absent
  <2> QED
    BY <1>1, <2>1, <2>2
<1>4. pc \in [Requests -> Places] /\ \A q \in Requests : pc'[q] \in {"new", "done", "gone"}
  BY <1>1 DEF ScanInv, ScanTypeOK, Places, Active
<1>5. ScanTypeOK'
  <2>1. faults' \in 0..MaxFaults /\ disturbed' \subseteq Requests
    BY <1>1 DEF ScanInv, ScanTypeOK, ScanAssumption
  <2>2. txn' \in Txns /\ pc' \in [Requests -> Places]
    BY <1>1, <1>4, NoTxnType DEF Places
  <2> QED
    BY <1>1, <1>3, <2>1, <2>2 DEF ScanInv, ScanTypeOK, Txns, Places
<1>6. OneTransaction'
  BY <1>1, <1>4, NoTxnType, NewIsNotCritical DEF OneTransaction, TxnOpen
<1>7. TxnInv'
  BY <1>1, ClosedTxnInv
<1>8. \A q \in Requests : RequestInv(q)'
  <2>1. ASSUME NEW q \in Requests, ~Active(q)
        PROVE  RequestInv(q)'
    <3>1. /\ RequestInv(q) /\ pc'[q] = pc[q] /\ pc[q] \notin Finishing
      BY <1>1, <2>1 DEF ScanInv, Active, Finishing
    <3> QED
      BY <1>1, <1>3, <2>1, <3>1, BystanderInv
  <2>2. ASSUME NEW q \in Requests, Active(q)
        PROVE  RequestInv(q)'
    <3>1. RowIsWhole(q) /\ pc'[q] = "gone"
      BY <1>1, <2>2 DEF ScanInv, RequestInv
    <3>2. RowIsWhole(q)'
      <4>1. CASE rows' = rows
        BY <1>1, <3>1, <4>1 DEF RowIsWhole
      <4>2. CASE TxnOpen /\ pc[txn.owner] = "commit" /\ rows' = txn.table
        <5>1. \/ rows'[q] \in {rows[q], Absent}
              \/ /\ rows'[q].status \in {"ok", "absent"}
                 /\ rows'[q].status = "ok" => rows'[q].findings = found[q]
                 /\ rows'[q].status = "absent" => ~rows'[q].findings
          BY <4>2, Published
        <5> QED
          BY <1>1, <3>1, <5>1 DEF RowIsWhole, Open, Absent
      <4> QED
        BY <1>1, <4>1, <4>2
    <3> QED
      BY <3>1, <3>2
      DEF RequestInv, RowFollowsHandler, Concluded, Early, Started, Finishing
  <2> QED
    BY <2>1, <2>2
<1>9. OnlyStartInserts
  BY <1>3 DEF OnlyStartInserts
<1> QED
  BY <1>5, <1>6, <1>7, <1>8, <1>9 DEF ScanInv
----------------------------------------------------------------------------
LEMMA ScanInvInit == ScanAssumption /\ Init => ScanInv
<1> SUFFICES ASSUME ScanAssumption, Init
             PROVE  ScanInv
  OBVIOUS
<1>1. ScanTypeOK
  BY NoTxnType DEF Init, ScanTypeOK, Tables, Calls, Txns, ScanAssumption
<1>2. OneTransaction
  BY NoTxnType, NewIsNotCritical DEF Init, OneTransaction, TxnOpen
<1>3. TxnInv
  BY NoTxnType DEF Init, TxnInv, TxnOpen
<1>4. \A r \in Requests : RequestInv(r)
  BY DEF Init, RequestInv, RowFollowsHandler, RowIsWhole, Concluded, Absent, Started,
         Finishing, Open
<1> QED
  BY <1>1, <1>2, <1>3, <1>4 DEF ScanInv

LEMMA ScanInvStep == ScanInv /\ [Next]_vars => ScanInv' /\ (OnlyStartInserts \/ UNCHANGED vars)
<1> SUFFICES ASSUME ScanInv, [Next]_vars
             PROVE  ScanInv' /\ (OnlyStartInserts \/ UNCHANGED vars)
  OBVIOUS
<1>1. ASSUME NEW r \in Requests, Arrive(r)
      PROVE  ScanInv' /\ OnlyStartInserts
  BY <1>1, ScanAssumption, StartScanStep, RescanProjectStep, DeleteProjectStep, ReadBadIdStep
  DEF Arrive
<1>2. ASSUME NEW r \in Requests, Handle(r)
      PROVE  ScanInv' /\ OnlyStartInserts
  BY <1>2, ScanAssumption, ResolveStep, AcquireLockStep, StartStep, RunLayersStep, SetSourceStep,
     BeginTxnStep, InsertFindingsStep, UpdateScanStep, CommitTxnStep, MarkFailedStep, ReleaseStep
  DEF Handle
<1>3. CASE LoseTxn
  BY <1>3, ScanAssumption, LoseTxnStep
<1>4. CASE Crash
  BY <1>4, ScanAssumption, CrashStep
<1>5. CASE UNCHANGED vars
  <2>1. ScanTypeOK'
    BY <1>5 DEF vars, ScanInv, ScanTypeOK
  <2>2. OneTransaction' /\ TxnInv'
    BY <1>5 DEF vars, ScanInv, OneTransaction, TxnInv, TxnOpen, OwnRow, NoTxn, Absent
  <2>3. \A r \in Requests : RequestInv(r)'
    BY <1>5 DEF vars, ScanInv, RequestInv, RowFollowsHandler, RowIsWhole, Concluded
  <2> QED
    BY <1>5, <2>1, <2>2, <2>3 DEF ScanInv
<1> QED
  BY <1>1, <1>2, <1>3, <1>4, <1>5 DEF Next

(* Whatever requests, timeouts, deletions and deaths of the API meet: each *)
(* row follows the request that wrote it, or its transaction is lost.      *)
THEOREM ScanInvariance == Spec => []ScanInv
BY ScanInvInit, ScanInvStep, ScanAssumption, PTL DEF Spec

(* Every variable keeps its type. *)
THEOREM ScanTypeCorrect == Spec => []ScanTypeOK
BY ScanInvariance, PTL DEF ScanInv

(***************************************************************************)
(* The transaction on the shared connection is that of the request which   *)
(* holds _scan_lock (run_scan's caller, ScanStore.finish).                 *)
(***************************************************************************)
THEOREM OneTransactionHolds == Spec => []OneTransaction
BY ScanInvariance, PTL DEF ScanInv

(***************************************************************************)
(* A scan that reads ok has all the findings it found, a running or        *)
(* deleted one none, whatever reaches the transaction of finish.  Nothing  *)
(* is said of a failed scan: it may keep findings.                         *)
(***************************************************************************)
THEOREM FindingsMatchStatusHolds == Spec => []FindingsMatchStatus
<1>1. ScanInv => FindingsMatchStatus
  BY DEF ScanInv, RequestInv, RowIsWhole, FindingsMatchStatus, Open
<1> QED
  BY <1>1, ScanInvariance, PTL

(***************************************************************************)
(* The row of an answered scan that was not deleted is ok after a 201 and  *)
(* failed otherwise, unless its insert or its mark as failed was tried     *)
(* twice and raised, or another request's failing statement came between   *)
(* its last update and its COMMIT.                                         *)
(***************************************************************************)
THEOREM UndisturbedScansConcludeHolds == Spec => []UndisturbedScansConclude
<1>1. ScanInv => UndisturbedScansConclude
  BY DEF ScanInv, RequestInv, Concluded, UndisturbedScansConclude
<1> QED
  BY <1>1, ScanInvariance, PTL

(***************************************************************************)
(* A deleted scan stays deleted: only the insert of store.start brings a   *)
(* row into the table, never finish or fail.                               *)
(***************************************************************************)
THEOREM DeletedNeverReturnsHolds == Spec => DeletedNeverReturns
<1>1. ScanInv /\ [Next]_vars =>
        [\A r \in Requests :
            rows[r].status = "absent" /\ rows'[r].status # "absent" => pc[r] = "start"]_vars
  BY ScanInvStep DEF OnlyStartInserts
<1> QED
  BY <1>1, ScanInvariance, PTL DEF Spec, DeletedNeverReturns
----------------------------------------------------------------------------
(* ScanService implements ScanLedger.  A step changes the committed row of *)
(* one scan, that of the lock's holder, in a way the ledger knows; of any  *)
(* other scan it removes the row or leaves it.                             *)

(* The lock is held by a handler that will release it. *)
LockInUse == lock # None => pc[lock] \in Critical

NoneReturns == \A q \in Requests : pc'[q] \in Early => pc[q] \in Early

OwnMove(r) ==
    \/ rows'[r] \in {rows[r], Absent}
    \/ /\ rows[r].status = "absent" /\ pc[r] = "start"
       /\ rows'[r].status = "running" /\ ~rows'[r].findings
    \/ /\ rows[r].status # "absent" /\ rows'[r].status = "failed"
       /\ rows'[r].findings = rows[r].findings
    \/ rows[r].status = "running" /\ rows'[r].status = "ok"

(* Of all scans only the one that holds the lock may be written. *)
OnlyHolderWrites ==
    \A q \in Requests : \/ rows'[q] \in {rows[q], Absent}
                        \/ lock = q /\ OwnMove(q)

LockMove ==
    \/ lock' = lock
    \/ /\ lock = None /\ rows' = rows
       /\ \E r \in Requests : /\ lock' = r /\ pc[r] = "lock"
                              /\ pc' = [pc EXCEPT ![r] = "start"]
    \/ lock' = None /\ (lock # None => pc'[lock] \notin Early)

Visible == NoneReturns /\ OnlyHolderWrites /\ LockMove /\ LockInUse'

(* The handler of r goes on and the lock stays where it is. *)
LEMMA HandlerMoves ==
    ASSUME ScanInv, LockInUse, NEW r \in Requests, NEW where,
           pc' = [pc EXCEPT ![r] = where], lock' = lock,
           pc[r] \notin Critical \/ where \in Critical,
           where \in Early => pc[r] \in Early
    PROVE  NoneReturns /\ LockMove /\ LockInUse'
<1>1. pc \in [Requests -> Places] /\ lock \in Requests \union {None}
  BY DEF ScanInv, ScanTypeOK, Places
<1>2. NoneReturns
  BY <1>1 DEF NoneReturns
<1>3. LockInUse'
  BY <1>1 DEF LockInUse
<1> QED
  BY <1>2, <1>3 DEF LockMove

LEMMA ArriveIsVisible ==
    ASSUME ScanAssumption, ScanInv, LockInUse, NEW r \in Requests, Arrive(r)
    PROVE  Visible
<1>1. PICK where \in {"lock", "resolve", "done"} : pc' = [pc EXCEPT ![r] = where]
  BY DEF Arrive, StartScan, RescanProject, DeleteProject, ReadBadId, GoTo, Answer
<1>2. pc[r] = "new" /\ lock' = lock
  BY DEF Arrive, StartScan, RescanProject, DeleteProject, ReadBadId, Ask
<1>3. NoneReturns /\ LockMove /\ LockInUse'
  BY <1>1, <1>2, NewIsNotCritical, HandlerMoves DEF Early
<1>4. \A q \in Requests : rows'[q] \in {rows[q], Absent}
  <2>1. CASE StartScan(r)
    BY <2>1 DEF StartScan
  <2>2. ASSUME Executes(r, "projects") \/ Executes(r, "delete") \/ Executes(r, "badId")
        PROVE  \A q \in Requests : rows'[q] \in {rows[q], Absent}
    <3>1. PICK op \in {"projects", "delete", "badId"}, user \in Users, raised \in BOOLEAN :
             \E seen : Execute(Statement(op, r, user), raised, seen)
      BY <2>2 DEF Executes
    <3>2. PICK seen : Execute(Statement(op, r, user), raised, seen)
      BY <3>1
    <3> DEFINE st == Statement(op, r, user)
    <3>3. st \in Statements /\ st.op \in {"projects", "delete", "badId"}
      BY DEF Statement, Statements, Ops
    <3> HIDE DEF st
    <3>4. Execute(st, raised, seen)
      BY <3>2 DEF st
    <3> QED
      BY <3>3, <3>4, ForeignStatement
  <2>3. RescanProject(r) => Executes(r, "projects")
    BY DEF RescanProject, Executes
  <2>4. DeleteProject(r) => Executes(r, "delete")
    BY DEF DeleteProject, Executes
  <2>5. ReadBadId(r) => Executes(r, "badId")
    BY DEF ReadBadId, Executes
  <2> QED
    BY <2>1, <2>2, <2>3, <2>4, <2>5 DEF Arrive
<1> QED
  BY <1>3, <1>4 DEF Visible, OnlyHolderWrites

(* The steps of the handler between two statements. *)
LEMMA QuietIsVisible ==
    ASSUME ScanInv, LockInUse, NEW r \in Requests,
           \/ Resolve(r) \/ RunLayers(r) \/ BeginTxn(r) \/ InsertFindings(r) \/ UpdateScan(r)
    PROVE  Visible
<1>1. PICK where \in {"lock", "done", "fail", "begin", "setSource", "findings", "update", "commit"} :
         pc' = [pc EXCEPT ![r] = where]
  BY DEF Resolve, RunLayers, BeginTxn, InsertFindings, UpdateScan, RollBack, GoTo, Answer
<1>2. /\ rows' = rows /\ lock' = lock
      /\ \/ pc[r] = "resolve" /\ where \in {"lock", "done"}
         \/ pc[r] # "resolve" /\ where \notin {"lock", "done"}
  <2>1. pc \in [Requests -> Places]
    BY DEF ScanInv, ScanTypeOK, Places
  <2>2. pc'[r] = where
    BY <1>1, <2>1
  <2> QED
    BY <1>1, <2>1, <2>2
    DEF Resolve, RunLayers, BeginTxn, InsertFindings, UpdateScan, RollBack, GoTo, Answer
<1>3. NoneReturns /\ LockMove /\ LockInUse'
  BY <1>1, <1>2, NewIsNotCritical, HandlerMoves DEF Early, Finishing
<1> QED
  BY <1>2, <1>3 DEF Visible, OnlyHolderWrites

(* The scan that holds the lock executes a statement of its own. *)
LEMMA StatementIsVisible ==
    ASSUME ScanAssumption, ScanInv, LockInUse, NEW r \in Requests,
           Start(r) \/ SetSource(r) \/ MarkFailed(r)
    PROVE  Visible
<1>1. PICK op \in {"insert", "setSource", "fail"}, raised \in BOOLEAN :
         /\ \E seen : Execute(Of(r, op), raised, seen)
         /\ op = "insert" => pc[r] = "start"
  BY DEF Start, SetSource, MarkFailed
<1>2. PICK seen : Execute(Of(r, op), raised, seen)
  BY <1>1
<1>3. PICK where \in {"release", "layers", "fail", "begin"} : pc' = [pc EXCEPT ![r] = where]
  BY DEF Start, SetSource, MarkFailed, Conclude, GoTo
<1>4. lock' = lock /\ pc[r] \in {"start", "setSource", "fail"}
  BY DEF Start, SetSource, MarkFailed
<1>5. pc[r] \in Critical \ Finishing /\ where \in Critical /\ where \notin Early
  BY <1>4, NewIsNotCritical DEF Finishing, Early
<1>6. lock = r
  BY <1>5 DEF ScanInv, OneTransaction
<1>7. /\ \A q \in Requests \ {r} : rows'[q] = rows[q]
      /\ op = "insert" =>
            rows'[r] = rows[r] \/ rows'[r] = [status |-> "running", findings |-> FALSE]
      /\ op = "setSource" => rows' = rows
      /\ op = "fail" =>
            \/ rows'[r] = rows[r]
            \/ /\ rows'[r].status = "failed" /\ rows[r].status # "absent"
               /\ rows'[r].findings = rows[r].findings
  BY <1>2, <1>5, OwnStatement
<1>8. pc[r] = "start" => rows[r].status = "absent"
  BY DEF ScanInv, RequestInv, RowFollowsHandler, Early
<1>9. OwnMove(r)
  BY <1>1, <1>7, <1>8 DEF OwnMove
<1>10. NoneReturns /\ LockMove /\ LockInUse'
  BY <1>3, <1>4, <1>5, HandlerMoves
<1> QED
  BY <1>6, <1>7, <1>9, <1>10 DEF Visible, OnlyHolderWrites

(* What becomes visible of the open transaction, by whoever ends it. *)
LEMMA PublishedMove ==
    ASSUME ScanInv,
           \/ rows' = rows
           \/ TxnOpen /\ pc[txn.owner] = "commit" /\ rows' = txn.table
    PROVE  OnlyHolderWrites
<1>1. CASE rows' = rows
  BY <1>1 DEF OnlyHolderWrites
<1>2. CASE TxnOpen /\ pc[txn.owner] = "commit" /\ rows' = txn.table
  <2>0. TxnOpen /\ txn.owner \in Requests
    BY <1>2 DEF ScanInv, ScanTypeOK, TxnOpen
  <2> PICK o \in Requests : o = txn.owner
    BY <2>0
  <2>1. /\ \A q \in Requests \ {o} : rows'[q] \in {rows[q], Absent}
        /\ rows[o].status = "absent" => rows'[o].status = "absent"
        /\ rows'[o].status \in {"ok", "absent"}
        /\ rows'[o].status = "absent" => ~rows'[o].findings
        /\ rows' \in Tables /\ rows \in Tables
    BY <1>2, Published DEF ScanInv, ScanTypeOK
  <2>2. lock = o /\ rows[o].status \in Open
    BY <2>0 DEF ScanInv, OneTransaction, TxnInv
  <2>3. rows'[o].status = "absent" => rows'[o] = Absent
    BY <2>1 DEF Tables, Row, Absent
  <2>4. OwnMove(o)
    BY <2>1, <2>2, <2>3 DEF OwnMove, Open
  <2> QED
    BY <2>1, <2>2, <2>4 DEF OnlyHolderWrites
<1> QED
  BY <1>1, <1>2

LEMMA EndOfTxnIsVisible ==
    ASSUME ScanInv, LockInUse, LoseTxn \/ \E r \in Requests : CommitTxn(r)
    PROVE  Visible
<1>1. CASE LoseTxn
  <2>1. /\ rows' = rows \/ (TxnOpen /\ pc[txn.owner] = "commit" /\ rows' = txn.table)
        /\ UNCHANGED <<pc, lock>>
    BY <1>1 DEF LoseTxn
  <2>2. OnlyHolderWrites
    BY <2>1, PublishedMove
  <2> QED
    BY <2>1, <2>2 DEF Visible, NoneReturns, LockMove, LockInUse
<1>2. ASSUME NEW r \in Requests, CommitTxn(r)
      PROVE  Visible
  <2>1. PICK where \in {"release", "fail"} : pc' = [pc EXCEPT ![r] = where]
    BY <1>2 DEF CommitTxn, RollBack, Conclude, GoTo
  <2>2. pc[r] = "commit" /\ pc[r] \in Finishing /\ lock' = lock
    BY <1>2 DEF CommitTxn, Finishing
  <2>3. rows' = rows \/ (txn.owner = r /\ rows' = txn.table)
    BY <1>2 DEF CommitTxn
  <2>4. txn.owner = r => TxnOpen
    BY ScanAssumption DEF ScanAssumption, TxnOpen
  <2>5. OnlyHolderWrites
    BY <2>2, <2>3, <2>4, PublishedMove
  <2>6. NoneReturns /\ LockMove /\ LockInUse'
    BY <2>1, <2>2, NewIsNotCritical, HandlerMoves DEF Early
  <2> QED
    BY <2>5, <2>6 DEF Visible
<1> QED
  BY <1>1, <1>2

LEMMA LockStepIsVisible ==
    ASSUME ScanAssumption, ScanInv, LockInUse,
           Crash \/ \E r \in Requests : AcquireLock(r) \/ Release(r)
    PROVE  Visible
<1>1. pc \in [Requests -> Places] /\ lock \in Requests \union {None} /\ None \notin Requests
  BY DEF ScanInv, ScanTypeOK, Places, ScanAssumption
<1>2. CASE Crash
  <2>1. /\ pc' = [q \in Requests |-> IF Active(q) THEN "gone" ELSE pc[q]]
        /\ lock' = None
        /\ rows' = rows \/ (TxnOpen /\ pc[txn.owner] = "commit" /\ rows' = txn.table)
    BY <1>2 DEF Crash
  <2>2. OnlyHolderWrites
    BY <2>1, PublishedMove
  <2>3. lock # None => lock \in Requests /\ Active(lock)
    BY <1>1, NewIsNotCritical DEF LockInUse, Active
  <2>4. lock # None => pc'[lock] = "gone"
    BY <2>1, <2>3
  <2> QED
    BY <2>1, <2>2, <2>4 DEF Visible, NoneReturns, LockMove, LockInUse, Early
<1>3. ASSUME NEW r \in Requests, AcquireLock(r)
      PROVE  Visible
  <2>1. pc[r] = "lock" /\ rows' = rows
    BY <1>3 DEF AcquireLock
  <2>2. OnlyHolderWrites
    BY <2>1 DEF OnlyHolderWrites
  <2>3. CASE lock = None
    <3>1. lock' = r /\ pc' = [pc EXCEPT ![r] = "start"]
      BY <1>3, <2>3 DEF AcquireLock, GoTo
    <3>2. NoneReturns /\ LockInUse'
      BY <1>1, <2>1, <3>1, NewIsNotCritical DEF NoneReturns, LockInUse, Early
    <3> QED
      BY <2>1, <2>2, <2>3, <3>1, <3>2 DEF Visible, LockMove
  <2>4. CASE lock # None
    <3>1. lock' = lock /\ pc' = [pc EXCEPT ![r] = "done"]
      BY <1>3, <2>4 DEF AcquireLock, Answer
    <3> QED
      BY <2>1, <2>2, <3>1, NewIsNotCritical, HandlerMoves DEF Visible, Early
  <2> QED
    BY <2>3, <2>4
<1>4. ASSUME NEW r \in Requests, Release(r)
      PROVE  Visible
  <2>1. /\ pc[r] = "release" /\ lock' = None /\ rows' = rows
        /\ pc' = [pc EXCEPT ![r] = "done"]
    BY <1>4 DEF Release, GoTo
  <2>2. lock = r
    BY <2>1, NewIsNotCritical DEF ScanInv, OneTransaction
  <2> QED
    BY <1>1, <2>1, <2>2
    DEF Visible, NoneReturns, OnlyHolderWrites, LockMove, LockInUse, Early
<1> QED
  BY <1>2, <1>3, <1>4

LEMMA StepIsVisible == ScanInv /\ LockInUse /\ Next => Visible
<1> SUFFICES ASSUME ScanInv, LockInUse, Next
             PROVE  Visible
  OBVIOUS
<1>1. ASSUME NEW r \in Requests, Arrive(r) \/ Handle(r)
      PROVE  Visible
  BY <1>1, ScanAssumption, ArriveIsVisible, QuietIsVisible, StatementIsVisible, EndOfTxnIsVisible,
     LockStepIsVisible DEF Handle
<1> QED
  BY <1>1, ScanAssumption, EndOfTxnIsVisible, LockStepIsVisible DEF Next

(* What a step makes of a scan: with its row left or removed, while no     *)
(* handler returns, it is as it was, or gone.                              *)
LifeAfter(q) == LifeOf(rows'[q], pc'[q])

Kept(q) == LifeAfter(q) = Life(q) /\ rows'[q].findings = rows[q].findings
Lost(q) == LifeAfter(q) = "gone" /\ ~rows'[q].findings

(* The scan under way goes on. *)
GoesOn(q) ==
    /\ <<Life(q), LifeAfter(q)>> \in Ledger!Progress
    /\ LifeAfter(q) # "ok" => rows'[q].findings = rows[q].findings
    /\ LifeAfter(q) = "ok" => ~rows[q].findings

LEMMA LifeOfOthers ==
    ASSUME ScanInv, ScanInv', NoneReturns, NEW q \in Requests, rows'[q] \in {rows[q], Absent}
    PROVE  Kept(q) \/ Lost(q)
<1>1. /\ pc'[q] \in Early => pc[q] \in Early
      /\ pc[q] \in Early => rows[q].status = "absent"
      /\ rows[q].status = "absent" => ~rows[q].findings
      /\ rows'[q].status = "absent" => ~rows'[q].findings
  BY DEF NoneReturns, ScanInv, RequestInv, RowFollowsHandler, RowIsWhole, Open
<1>2. /\ rows[q].findings \in BOOLEAN /\ rows'[q].findings \in BOOLEAN
  BY DEF ScanInv, ScanTypeOK, Tables, Row
<1> QED
  BY <1>1, <1>2 DEF Kept, Lost, LifeAfter, Life, LifeOf, Absent

LEMMA LifeOfHolder ==
    ASSUME ScanInv, ScanInv', NoneReturns, NEW q \in Requests, OwnMove(q)
    PROVE  Kept(q) \/ Lost(q) \/ GoesOn(q)
<1>1. rows[q] \in Row /\ rows'[q] \in Row
  BY DEF ScanInv, ScanTypeOK, Tables
<1>2. /\ rows[q].status = "running" => ~rows[q].findings
      /\ rows[q].status = "absent" => ~rows[q].findings
  BY DEF ScanInv, RequestInv, RowIsWhole, Open
<1>3. CASE rows'[q] \in {rows[q], Absent}
  BY <1>3, LifeOfOthers
<1>4. CASE /\ rows[q].status = "absent" /\ pc[q] = "start"
           /\ rows'[q].status = "running" /\ ~rows'[q].findings
  BY <1>1, <1>2, <1>4 DEF GoesOn, LifeAfter, Life, LifeOf, Early, Row, Ledger!Progress
<1>5. CASE /\ rows[q].status # "absent" /\ rows'[q].status = "failed"
           /\ rows'[q].findings = rows[q].findings
  BY <1>1, <1>2, <1>5 DEF Kept, GoesOn, LifeAfter, Life, LifeOf, Row, Ledger!Progress
<1>6. CASE rows[q].status = "running" /\ rows'[q].status = "ok"
  BY <1>2, <1>6 DEF GoesOn, LifeAfter, Life, LifeOf, Ledger!Progress
<1> QED
  BY <1>3, <1>4, <1>5, <1>6 DEF OwnMove

(* In the ledger, what is lost is removed. *)
Removed == {q \in Requests : Lost(q)}

LEMMA RemoveIsLedgerRemove ==
    ASSUME NEW removed, removed = Removed, \A q \in Requests : Kept(q) \/ Lost(q)
    PROVE  Ledger!Remove(removed)
<1>1. ASSUME NEW q \in Requests
      PROVE  LifeAfter(q) = IF q \in removed THEN "gone" ELSE Life(q)
  BY DEF Kept, Lost, Removed
<1>2. ASSUME NEW q \in Requests
      PROVE  rows'[q].findings <=> rows[q].findings /\ q \notin removed
  BY DEF Kept, Lost, Removed
<1>3. [r \in Requests |-> Life(r)]'
        = [q \in Requests |-> IF q \in removed THEN "gone" ELSE [r \in Requests |-> Life(r)][q]]
  BY <1>1 DEF LifeAfter, Life
<1>4. {r \in Requests : rows[r].findings}' = {r \in Requests : rows[r].findings} \ removed
  BY <1>2
<1> QED
  BY <1>3, <1>4 DEF Ledger!Remove, Ledger!Without, Life

LEMMA GoesOnIsLedgerGoOn ==
    ASSUME NEW removed, removed = Removed, ScanAssumption, lock \in Requests, GoesOn(lock),
           rows[lock].findings \in BOOLEAN, rows'[lock].findings \in BOOLEAN,
           \A q \in Requests \ {lock} : Kept(q) \/ Lost(q)
    PROVE  Ledger!GoOn(removed)
<1> DEFINE lives == [r \in Requests |-> Life(r)]
           results == {r \in Requests : rows[r].findings}
<1>1. /\ lock # None /\ lock \notin removed
      /\ LifeAfter(lock) \in {"running", "ok", "failed"}
      /\ <<Life(lock), LifeAfter(lock)>> \in Ledger!Progress
  BY DEF ScanAssumption, GoesOn, Lost, Removed, Ledger!Progress
<1>2. ASSUME NEW q \in Requests
      PROVE  LifeAfter(q) = IF q \in removed THEN "gone"
                            ELSE IF q = lock THEN LifeAfter(lock) ELSE Life(q)
  BY <1>1 DEF Kept, Lost, Removed
<1>3. ASSUME NEW q \in Requests \ {lock}
      PROVE  rows'[q].findings <=> rows[q].findings /\ q \notin removed
  BY DEF Kept, Lost, Removed
<1>4. [r \in Requests |-> Life(r)]'
        = [q \in Requests |-> IF q \in removed THEN "gone"
              ELSE [lives EXCEPT ![lock] = LifeAfter(lock)][q]]
  BY <1>2 DEF LifeAfter, Life
<1>5. \/ {r \in Requests : rows[r].findings}' = results \ removed
      \/ /\ LifeAfter(lock) = "ok"
         /\ {r \in Requests : rows[r].findings}' = (results \ removed) \union {lock}
  <2>1. CASE rows'[lock].findings /\ ~rows[lock].findings
    BY <1>1, <1>3, <2>1 DEF GoesOn
  <2>2. CASE rows'[lock].findings <=> rows[lock].findings
    BY <1>1, <1>3, <2>2
  <2>3. ~(rows[lock].findings /\ ~rows'[lock].findings)
    BY DEF GoesOn
  <2> QED
    BY <2>1, <2>2, <2>3
<1>6. lives[lock] = Life(lock)
  OBVIOUS
<1> QED
  BY <1>1, <1>4, <1>5, <1>6 DEF Ledger!GoOn, Ledger!Without, Life

LEMMA VisibleIsLedgerStep ==
    ASSUME ScanAssumption, ScanInv, ScanInv', LockInUse, Visible
    PROVE  Ledger!ScanLedgerNext \/ UNCHANGED Ledger!scanLedgerVars
<1>1. /\ lock \in Requests \union {None} /\ None \notin Requests
      /\ \A q \in Requests : rows[q].findings \in BOOLEAN /\ rows'[q].findings \in BOOLEAN
  BY DEF ScanInv, ScanTypeOK, Tables, Row, ScanAssumption
<1>2. ASSUME NEW q \in Requests
      PROVE  \/ Kept(q) \/ Lost(q)
             \/ q = lock /\ GoesOn(q)
  BY LifeOfOthers, LifeOfHolder DEF Visible, OnlyHolderWrites
<1> PICK removed : removed = Removed
  OBVIOUS
<1>3. removed \in SUBSET Requests
  BY DEF Removed
<1>4. Ledger!Remove(removed) \/ Ledger!GoOn(removed)
  BY <1>1, <1>2, RemoveIsLedgerRemove, GoesOnIsLedgerGoOn
<1>5. CASE lock' = lock
  BY <1>3, <1>4, <1>5 DEF Ledger!ScanLedgerNext
<1>6. ASSUME lock = None, rows' = rows,
             NEW r \in Requests, lock' = r, pc[r] = "lock", pc' = [pc EXCEPT ![r] = "start"]
      PROVE  Ledger!ScanLedgerNext
  <2>1. pc \in [Requests -> Places]
    BY DEF ScanInv, ScanTypeOK, Places
  <2>2. Life(r) = "new"
    BY <1>6 DEF ScanInv, RequestInv, RowFollowsHandler, Life, LifeOf, Early
  <2>3. ASSUME NEW q \in Requests
        PROVE  LifeOf(rows'[q], pc'[q]) = LifeOf(rows[q], pc[q])
    BY <1>6, <2>1 DEF LifeOf, Early
  <2>4. [q \in Requests |-> LifeOf(rows[q], pc[q])]' = [q \in Requests |-> LifeOf(rows[q], pc[q])]
    BY <2>3
  <2>5. {q \in Requests : rows[q].findings}' = {q \in Requests : rows[q].findings}
    BY <1>6
  <2>6. Ledger!Begin(r)
    BY <1>6, <2>2, <2>4, <2>5 DEF Ledger!Begin, Life
  <2> QED
    BY <2>6 DEF Ledger!ScanLedgerNext
<1>7. CASE lock' = None /\ (lock # None => pc'[lock] \notin Early)
  <2>1. lock # None => LifeAfter(lock) # "new"
    <3>1. lock # None => rows'[lock].status \in {"absent", "running", "ok", "failed"}
      BY <1>1 DEF ScanInv, ScanTypeOK, Tables, Row
    <3> QED
      BY <1>7, <3>1 DEF LifeAfter, LifeOf
  <2>2. Ledger!End
    BY <1>1, <1>7, <2>1 DEF Ledger!End, Life, LifeAfter
  <2> QED
    BY <1>3, <1>4, <2>2 DEF Ledger!ScanLedgerNext
<1> QED
  BY <1>5, <1>6, <1>7 DEF Visible, LockMove

LEMMA InitIsLedgerInit == ScanAssumption /\ Init => Ledger!ScanLedgerInit
BY DEF Init, Ledger!ScanLedgerInit, Life, LifeOf, Early, Absent

LEMMA StepIsLedgerStep ==
    ScanInv /\ ScanInv' /\ LockInUse /\ [Next]_vars
        => LockInUse' /\ [Ledger!ScanLedgerNext]_(Ledger!scanLedgerVars)
<1> SUFFICES ASSUME ScanInv, ScanInv', LockInUse, [Next]_vars
             PROVE  LockInUse' /\ (Ledger!ScanLedgerNext \/ UNCHANGED Ledger!scanLedgerVars)
  OBVIOUS
<1>1. CASE Next
  <2>1. Visible
    BY <1>1, StepIsVisible
  <2> QED
    BY <2>1, ScanAssumption, VisibleIsLedgerStep DEF Visible
<1>2. CASE UNCHANGED vars
  BY <1>2 DEF vars, LockInUse, Ledger!scanLedgerVars, Life
<1> QED
  BY <1>1, <1>2

(***************************************************************************)
(* Every behaviour of the scan routes is a behaviour of ScanLedger: a      *)
(* reader of the tables sees one scan at a time go from running to ok or   *)
(* failed, its findings with the commit that makes it ok, and nothing that *)
(* was removed again, whatever statements, crashes and lost connections    *)
(* meet.                                                                   *)
(***************************************************************************)
THEOREM ScanImplementsLedger == Spec => ImplementsScanLedger
<1>1. ScanAssumption /\ Init => LockInUse
  BY DEF Init, LockInUse
<1>2. Spec => Ledger!ScanLedgerInit /\ [][Ledger!ScanLedgerNext]_(Ledger!scanLedgerVars)
  BY <1>1, ScanAssumption, ScanInvariance, InitIsLedgerInit, StepIsLedgerStep, PTL DEF Spec
<1> QED
  BY <1>2 DEF ImplementsScanLedger, Ledger!ScanLedgerSpec
=============================================================================
