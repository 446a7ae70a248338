--------------------------- MODULE PipelineProofs ---------------------------
(***************************************************************************)
(* Theorems about module RuntimePipeline, for every finite set of          *)
(* operations and every maxBatch >= 1 and maxBuffer >= 0.                  *)
(*                                                                         *)
(* What is stored is never compared with what the application holds: the   *)
(* argument is that an operation which was taken out of the buffer is in   *)
(* one batch for good, and that its request body is frozen.  So whichever  *)
(* copy of a batch reaches the service, how often and how late, it brings  *)
(* the same rows.                                                          *)
(***************************************************************************)
EXTENDS RuntimePipeline, CollectorProofs

(* Every batch that was ever sent and may still count: its flush awaits    *)
(* it, it is on the wire, a handler inserts it, or it was acknowledged.    *)
Known == inflight \union requests \union accepted \union {txn.batch}

(* An operation that ended and was taken out of the buffer: its request    *)
(* has at least the SQL it had executed when it ended.                     *)
Taken(op) == fate[op] # "none" /\ op \notin Range(buffer) /\ ended[op] <= shipped[op]

(* Statements are recorded, never taken back.                              *)
EndedBefore == \A op \in Ops : ended[op] <= statements[op]

(* No operation is in two different batches, not even in one that is       *)
(* stored and one that is still to come.                                   *)
PostedOnce ==
    \A batch \in Known : \A op \in Range(batch) :
       /\ Taken(op)
       /\ \A other \in Known : op \in Range(other) => batch = other

Whole(batch) == Range(batch) \subseteq operation \/ Range(batch) \intersect operation = {}

(* Table statement when table operation has the given ids.                 *)
Rows(ops) == [op \in Ops |-> IF op \in ops THEN shipped[op] ELSE 0]

TablesAgree ==
    /\ \A op \in operation : Taken(op)
    /\ statement = Rows(operation)
    /\ \A batch \in Known : Whole(batch)
    /\ \A batch \in accepted : Range(batch) \subseteq operation
    /\ \A op \in Ops : fate[op] = "sent" => op \in operation

(* The tables do not change under the handler that holds _lock.            *)
TxnSeesTables ==
    /\ txn.stage = "none" => txn = NoTxn
    /\ txn.stage = "begun" => txn.operation = operation
    /\ txn.stage \in {"operations", "statements"} =>
          txn.operation = operation \union Range(txn.batch)
    /\ txn.stage \in {"begun", "operations"} => txn.statement = statement
    /\ txn.stage = "statements" => txn.statement = Rows(txn.operation)

PipelineInv ==
    /\ CollectorInv
    /\ PipelineTypeOK
    /\ EndedBefore
    /\ PostedOnce
    /\ TablesAgree
    /\ TxnSeesTables
----------------------------------------------------------------------------
(* What a step of the application does to the operations it has taken. *)

(* Nothing but the application moves the collector. *)
LEMMA PipelineMovesCollector == [PipelineNext]_pipelineVars => [Next]_vars
<1>1. Application => Next
  BY DEF Application, Next, Delivery
<1>2. LoseRequest \/ Redeliver \/ Service \/ ServerCrash \/ ServerStart => UNCHANGED vars
  BY DEF LoseRequest, Redeliver, Service, ServerCrash, ServerStart
<1>3. UNCHANGED pipelineVars => UNCHANGED vars
  BY DEF pipelineVars
<1> QED
  BY <1>1, <1>2, <1>3 DEF PipelineNext

(* A loop turn of flush() freezes the bodies of what it takes, and of      *)
(* nothing else.                                                           *)
LEMMA LoopTurnFreezes ==
    ASSUME CollectorInv, NEW done \in SUBSET inflight, LoopTurn(done)
    PROVE  /\ Range(buffer') \subseteq Range(buffer)
           /\ \A batch \in inflight' \ inflight :
                 /\ batch = NextBatch
                 /\ \A op \in Range(batch) :
                       /\ op \in Range(buffer) \ Range(buffer')
                       /\ shipped'[op] = statements[op]
           /\ \A op \in Ops \ Range(buffer) : shipped'[op] = shipped[op]
<1> USE DEF CollectorInv
<1>1. Range(buffer') \subseteq Range(buffer)
  BY LoopTurnKeepsQueues, CollectorAssumption
<1>2. CASE buffer = <<>>
  BY <1>1, <1>2 DEF LoopTurn
<1>3. CASE buffer # <<>>
  <2> DEFINE n == IF Len(buffer) < MaxBatch THEN Len(buffer) ELSE MaxBatch
  <2>1. n \in 1..Len(buffer)
    BY <1>3, EmptySeq, CollectorAssumption DEF TypeOK, CollectorAssumption
  <2>2. NextBatch = SubSeq(buffer, 1, n)
    BY DEF NextBatch
  <2> HIDE DEF n
  <2>3. /\ Range(NextBatch) \subseteq Range(buffer)
        /\ Range(NextBatch) \intersect Range(Remaining) = {}
    <3>1. LET head == SubSeq(buffer, 1, n)
              tail == SubSeq(buffer, n + 1, Len(buffer))
          IN  /\ Len(head) = n
              /\ Range(head) \union Range(tail) = Range(buffer)
              /\ Range(head) \intersect Range(tail) = {}
      BY <2>1, Splice DEF TypeOK, OneHolder
    <3>2. Remaining = SubSeq(buffer, n + 1, Len(buffer))
      BY <2>2, <3>1 DEF Remaining
    <3> QED
      BY <2>2, <3>1, <3>2
  <2>4. /\ inflight' = (inflight \ done) \union {NextBatch}
        /\ buffer' = Remaining
        /\ shipped' = [op \in Ops |->
                         IF op \in Range(NextBatch) THEN statements[op] ELSE shipped[op]]
    BY <1>3 DEF LoopTurn
  <2>5. Range(NextBatch) \subseteq Ops
    BY NextBatchType, RangeOfSeq, CollectorAssumption
  <2> QED
    BY <1>1, <2>3, <2>4, <2>5
<1> QED
  BY <1>2, <1>3

(* The same for a whole step of the collector, with what becomes of an     *)
(* operation that has ended.                                               *)
Freezes ==
    /\ \A batch \in inflight' \ inflight :
          /\ batch = NextBatch
          /\ \A op \in Range(batch) :
                op \in Range(buffer) \ Range(buffer') /\ shipped'[op] = statements[op]
    /\ \A op \in Ops \ Range(buffer) : shipped'[op] = shipped[op]
    /\ \A op \in Ops : fate[op] # "none" =>
          /\ fate'[op] # "none" /\ ended'[op] = ended[op]
          /\ op \in Range(buffer') => op \in Range(buffer)

LEMMA TurnFreezes ==
    ASSUME CollectorInv, NEW done \in SUBSET inflight, LoopTurn(done), ended' = ended,
           \A op \in Ops : fate[op] # "none" => fate'[op] # "none"
    PROVE  Freezes
BY LoopTurnFreezes DEF Freezes

LEMMA StepFreezes == ASSUME CollectorInv, [Next]_vars PROVE Freezes
<1>1. ASSUME NEW op \in Ops, StartOp(op) \/ RecordStatement(op)
      PROVE  Freezes
  BY <1>1 DEF StartOp, RecordStatement, queueVars, Freezes
<1>2. ASSUME NEW op \in Ops, FinishOp(op)
      PROVE  Freezes
  <2>1. /\ inflight' = inflight /\ shipped' = shipped
        /\ buffer' = buffer \/ buffer' = Append(buffer, op)
        /\ ended' = [ended EXCEPT ![op] = statements[op]]
    BY <1>2 DEF FinishOp, Overflow, Enqueue, queueVars
  <2>2. /\ fate[op] = "none"
        /\ \A o \in Ops \ {op} : fate'[o] = fate[o] /\ ended'[o] = ended[o]
    <3>1. fate[op] = "none"
      BY <1>2 DEF FinishOp, CollectorInv, FateFollowsPhase
    <3>2. \A o \in Ops \ {op} : fate'[o] = fate[o] /\ ended'[o] = ended[o]
      BY <1>2, <2>1 DEF FinishOp, Overflow, Enqueue, CollectorInv, TypeOK
    <3> QED
      BY <3>1, <3>2
  <2>3. \A o \in Ops \ {op} : o \in Range(buffer') => o \in Range(buffer)
    <3>1. op \notin Range(buffer)
      BY <2>2 DEF CollectorInv, OneHolder
    <3>2. Range(Append(buffer, op)) = Range(buffer) \union {op}
      BY <3>1, AppendFresh DEF CollectorInv, TypeOK, OneHolder
    <3> QED
      BY <2>1, <3>2
  <2> QED
    BY <2>1, <2>2, <2>3 DEF Freezes
<1>3. CASE TimerFire \/ ImmediateFire \/ FlushCall
  <2>1. LoopTurn({}) /\ ended' = ended /\ fate' = fate
    BY <1>3 DEF TimerFire, ImmediateFire, FlushCall, BeginFlush
  <2> QED
    BY <2>1, TurnFreezes
<1>4. ASSUME NEW batch \in inflight, NEW ok \in BOOLEAN, SettleBatch(batch, ok)
      PROVE  Freezes
  <2>1. LoopTurn({batch}) /\ ended' = ended
    BY <1>4 DEF SettleBatch
  <2>2. \A op \in Ops : fate[op] # "none" => fate'[op] # "none"
    BY <1>4 DEF SettleBatch, Settled
  <2> QED
    BY <2>1, <2>2, TurnFreezes
<1>5. CASE Exit \/ UNCHANGED vars
  BY <1>5 DEF Exit, vars, queueVars, Freezes
<1> QED
  BY <1>1, <1>2, <1>3, <1>4, <1>5 DEF Next, RequestPath, Delivery

(* An operation that was taken stays taken, with the body it was sent in. *)
LEMMA TakenStays ==
    ASSUME CollectorInv, Freezes, NEW op \in Ops, Taken(op)
    PROVE  Taken(op)' /\ shipped'[op] = shipped[op]
BY DEF Freezes, Taken

LEMMA EndedBeforeStays ==
    ASSUME CollectorInv, EndedBefore, [Next]_vars
    PROVE  EndedBefore'
<1> USE DEF CollectorInv, TypeOK, EndedBefore
<1>1. ASSUME NEW op \in Ops, RecordStatement(op)
      PROVE  EndedBefore'
  BY <1>1, CollectorAssumption DEF RecordStatement, CollectorAssumption
<1>2. ASSUME NEW op \in Ops, FinishOp(op)
      PROVE  EndedBefore'
  BY <1>2, CollectorAssumption DEF FinishOp, CollectorAssumption
<1>3. CASE UNCHANGED <<statements, ended>>
  BY <1>3
<1> QED
  BY <1>1, <1>2, <1>3
  DEF Next, RequestPath, Delivery, StartOp, TimerFire, ImmediateFire, FlushCall, SettleBatch,
      Exit, vars

(* What a new batch brings: operations that were nowhere but in the        *)
(* buffer, and are taken now.                                              *)
LEMMA NewBatch ==
    ASSUME CollectorInv, EndedBefore, Freezes, NEW batch \in inflight' \ inflight,
           NEW op \in Range(batch), CollectorInv'
    PROVE  /\ batch = NextBatch /\ op \in Ops
           /\ ~Taken(op)
           /\ Taken(op)'
<1>1. /\ batch = NextBatch
      /\ op \in Range(buffer) /\ op \notin Range(buffer')
      /\ shipped'[op] = statements[op]
  BY DEF Freezes
<1>2. op \in Ops
  BY <1>1, RangeOfSeq DEF CollectorInv, TypeOK
<1>3. fate[op] # "none"
  BY <1>1, <1>2 DEF CollectorInv, OneHolder
<1>4. fate'[op] # "none" /\ ended'[op] <= shipped'[op]
  BY <1>1, <1>2, <1>3 DEF Freezes, EndedBefore
<1> QED
  BY <1>1, <1>2, <1>4 DEF Taken
----------------------------------------------------------------------------
(* A step of the application keeps the invariant. *)

LEMMA ApplicationPosts ==
    ASSUME PipelineInv, Freezes, CollectorInv', Application
    PROVE  PostedOnce'
<1> USE DEF PipelineInv
<1>1. \A batch \in Known' : batch \in Known \/ batch \in inflight' \ inflight
  BY DEF Application, Post, Known
<1>2. ASSUME NEW batch \in Known, NEW op \in Range(batch)
      PROVE  op \in Ops /\ Taken(op) /\ Taken(op)'
  <2>1. batch \in Seq(Ops)
    BY DEF PipelineTypeOK, TypeOK, Known, Txns
  <2>2. op \in Ops
    BY <2>1, RangeOfSeq
  <2>3. Taken(op)
    BY DEF PostedOnce
  <2> QED
    BY <2>2, <2>3, TakenStays
<1>3. ASSUME NEW batch \in inflight' \ inflight, NEW op \in Range(batch)
      PROVE  batch = NextBatch /\ ~Taken(op) /\ Taken(op)'
  BY <1>3, NewBatch
<1>4. ASSUME NEW batch \in Known', NEW op \in Range(batch),
             NEW other \in Known', op \in Range(other)
      PROVE  batch = other
  <2>1. CASE batch \in Known /\ other \in Known
    BY <1>4, <2>1 DEF PostedOnce
  <2>2. CASE batch \in inflight' \ inflight /\ other \in inflight' \ inflight
    BY <1>3, <1>4, <2>2
  <2>3. CASE batch \in Known /\ other \in inflight' \ inflight
    BY <1>2, <1>3, <1>4, <2>3
  <2>4. CASE batch \in inflight' \ inflight /\ other \in Known
    BY <1>2, <1>3, <1>4, <2>4
  <2> QED
    BY <1>1, <2>1, <2>2, <2>3, <2>4
<1> QED
  BY <1>1, <1>2, <1>3, <1>4 DEF PostedOnce

(* What becomes sent is in a batch the service has acknowledged. *)
LEMMA SentWasAccepted ==
    ASSUME CollectorInv, Application, NEW op \in Ops, fate'[op] = "sent", fate[op] # "sent"
    PROVE  \E batch \in accepted : op \in Range(batch)
<1> USE DEF CollectorInv, TypeOK
<1>1. CASE RequestPath
  <2> PICK o \in Ops : StartOp(o) \/ RecordStatement(o) \/ FinishOp(o)
    BY <1>1 DEF RequestPath
  <2>1. fate' = fate \/ fate' = [fate EXCEPT ![o] = "dropped"]
                     \/ fate' = [fate EXCEPT ![o] = "held"]
    BY DEF StartOp, RecordStatement, FinishOp, Overflow, Enqueue
  <2> QED
    BY <2>1
<1>2. ASSUME NEW batch \in inflight, NEW ok \in BOOLEAN, Answered(batch, ok),
             SettleBatch(batch, ok)
      PROVE  \E b \in accepted : op \in Range(b)
  <2>1. fate'[op] = IF op \in Range(batch) THEN IF ok THEN "sent" ELSE "dropped" ELSE fate[op]
    BY <1>2 DEF SettleBatch, Settled
  <2> QED
    BY <1>2, <2>1 DEF Answered
<1>3. CASE TimerFire \/ ImmediateFire \/ FlushCall \/ Exit
  BY <1>3 DEF TimerFire, ImmediateFire, FlushCall, Exit
<1> QED
  BY <1>1, <1>2, <1>3 DEF Application

LEMMA ApplicationStep ==
    ASSUME PipelineInv, Application
    PROVE  PipelineInv'
<1> USE DEF PipelineInv
<1>1. [Next]_vars
  BY PipelineMovesCollector DEF PipelineNext
<1>2. CollectorInv' /\ EndedBefore' /\ Freezes
  BY <1>1, CollectorInvStep, EndedBeforeStays, StepFreezes
<1>3. UNCHANGED <<serverUp, connected, txn, operation, statement, accepted>>
  BY DEF Application, Post, tables
<1>4. PipelineTypeOK'
  <2>1. requests' \subseteq Seq(Ops)
    BY <1>2 DEF Application, Post, PipelineTypeOK, CollectorInv, TypeOK
  <2> QED
    BY <1>2, <1>3, <2>1 DEF PipelineTypeOK, CollectorInv
<1>5. \A op \in Ops : Taken(op) => Taken(op)' /\ shipped'[op] = shipped[op]
  BY <1>2, TakenStays
<1>6. operation \subseteq Ops /\ \A op \in operation : Taken(op)
  BY DEF PipelineTypeOK, TablesAgree
<1>7. TablesAgree'
  <2>1. statement' = Rows(operation)'
    BY <1>3, <1>5, <1>6 DEF TablesAgree, Rows
  <2>2. \A batch \in Known' : Whole(batch)'
    <3> SUFFICES ASSUME NEW batch \in Known'
                 PROVE  Whole(batch)
      BY <1>3 DEF Whole
    <3>1. CASE batch \in Known
      BY <3>1 DEF TablesAgree
    <3>2. CASE batch \in inflight' \ inflight
      <4>1. \A op \in Range(batch) : ~Taken(op)
        BY <1>2, <3>2, NewBatch
      <4> QED
        BY <1>6, <4>1 DEF Whole
    <3> QED
      BY <3>1, <3>2 DEF Application, Post, Known
  <2>3. \A op \in Ops : fate'[op] = "sent" => op \in operation'
    BY <1>3, SentWasAccepted DEF TablesAgree
  <2> QED
    BY <1>3, <1>5, <1>6, <2>1, <2>2, <2>3 DEF TablesAgree
<1>8. TxnSeesTables'
  <2>1. ASSUME txn.stage = "statements"
        PROVE  Rows(txn.operation)' = Rows(txn.operation)
    <3>1. txn.operation = operation \union Range(txn.batch)
      BY <2>1 DEF TxnSeesTables
    <3>2. \A op \in Range(txn.batch) : Taken(op)
      BY DEF PostedOnce, Known
    <3> QED
      BY <1>3, <1>5, <1>6, <3>1, <3>2 DEF Rows
  <2> QED
    BY <1>3, <2>1 DEF TxnSeesTables
<1> QED
  BY <1>2, <1>4, <1>7, <1>8, ApplicationPosts
----------------------------------------------------------------------------
(* A step of the network or of the service keeps the invariant. *)

LEMMA NoTxnType == NoTxn \in Txns /\ Range(NoTxn.batch) = {}
<1>1. <<>> \in Seq(Ops)
  BY EmptySeq
<1>2. [op \in Ops |-> 0] \in [Ops -> 0..MaxStatements]
  BY CollectorAssumption DEF CollectorAssumption
<1> QED
  BY <1>1, <1>2, RangeEmpty DEF NoTxn, Txns

(* The collector is where it was, and no batch is new. *)
LEMMA ServiceKeeps ==
    ASSUME PipelineInv, UNCHANGED vars,
           \A batch \in Known' : batch \in Known \/ Range(batch) = {}
    PROVE  CollectorInv' /\ EndedBefore' /\ PostedOnce'
<1> USE DEF PipelineInv
<1>1. CollectorInv' /\ EndedBefore'
  BY CollectorInvStep, EndedBeforeStays
<1>2. fate' = fate /\ buffer' = buffer /\ ended' = ended /\ shipped' = shipped
  BY DEF vars, queueVars
<1>3. \A op : Taken(op)' <=> Taken(op)
  BY <1>2 DEF Taken
<1>4. PostedOnce'
  BY <1>3 DEF PostedOnce
<1> QED
  BY <1>1, <1>4

(* The tables stay: a request comes or goes, or a handler moves on in its  *)
(* transaction.                                                            *)
LEMMA TablesStay ==
    ASSUME PipelineInv, UNCHANGED <<vars, tables, accepted>>,
           serverUp' \in BOOLEAN, connected' \in BOOLEAN, requests' \subseteq Seq(Ops),
           txn' \in Txns, TxnSeesTables',
           \A batch \in Known' : batch \in Known \/ Range(batch) = {}
    PROVE  PipelineInv'
<1>1. CollectorInv' /\ EndedBefore' /\ PostedOnce'
  BY ServiceKeeps
<1>2. /\ fate' = fate /\ buffer' = buffer /\ ended' = ended /\ shipped' = shipped
      /\ operation' = operation /\ statement' = statement /\ accepted' = accepted
  BY DEF vars, queueVars, tables
<1>3. PipelineTypeOK'
  BY <1>1, <1>2 DEF PipelineInv, PipelineTypeOK, CollectorInv
<1>4. TablesAgree'
  BY <1>2 DEF PipelineInv, TablesAgree, Taken, Rows, Whole
<1> QED
  BY <1>1, <1>3, <1>4 DEF PipelineInv

(* A transaction ends, committed or not, acknowledged or not. *)
LEMMA TxnEnds ==
    ASSUME PipelineInv, UNCHANGED vars, txn' = NoTxn, requests' \subseteq requests,
           serverUp' \in BOOLEAN, connected' \in BOOLEAN,
           \/ UNCHANGED tables /\ accepted' = accepted
           \/ /\ txn.stage = "statements" /\ Publish
              /\ accepted' = accepted \/ accepted' = accepted \union {txn.batch}
    PROVE  PipelineInv'
<1> USE DEF PipelineInv
<1>1. txn' \in Txns /\ Range(txn'.batch) = {} /\ TxnSeesTables'
  <2>1. txn' \in Txns /\ Range(txn'.batch) = {}
    BY NoTxnType
  <2>2. NoTxn' = NoTxn /\ NoTxn.stage = "none"
    BY DEF NoTxn
  <2> QED
    BY <2>1, <2>2 DEF TxnSeesTables
<1>2. /\ fate' = fate /\ buffer' = buffer /\ ended' = ended /\ shipped' = shipped
      /\ inflight' = inflight
  BY DEF vars, queueVars
<1>3. requests' \subseteq Seq(Ops)
  BY DEF PipelineTypeOK
<1>4. CASE UNCHANGED tables /\ accepted' = accepted
  <2>1. \A batch \in Known' : batch \in Known \/ Range(batch) = {}
    BY <1>1, <1>2, <1>4 DEF Known
  <2> QED
    BY <1>1, <1>3, <1>4, <2>1, TablesStay
<1>5. CASE /\ txn.stage = "statements" /\ Publish
           /\ accepted' = accepted \/ accepted' = accepted \union {txn.batch}
  <2>1. \A batch \in Known' : batch \in Known \/ Range(batch) = {}
    BY <1>1, <1>2, <1>5 DEF Known
  <2>2. CollectorInv' /\ EndedBefore' /\ PostedOnce'
    BY <2>1, ServiceKeeps
  <2>3. /\ txn.batch \in Known /\ txn.batch \in Seq(Ops)
        /\ Range(txn.batch) \subseteq Ops
    BY RangeOfSeq DEF Known, PipelineTypeOK, Txns
  <2>4. /\ operation' = operation \union Range(txn.batch)
        /\ statement' = Rows(operation')
    BY <1>5 DEF Publish, TxnSeesTables
  <2>5. PipelineTypeOK'
    <3>1. statement' \in [Ops -> 0..MaxStatements]
      BY <1>5 DEF Publish, PipelineTypeOK, Txns
    <3>2. operation' \subseteq Ops /\ accepted' \subseteq Seq(Ops)
      BY <1>5, <2>3, <2>4 DEF PipelineTypeOK
    <3> QED
      BY <1>1, <1>3, <2>2, <3>1, <3>2 DEF PipelineTypeOK, CollectorInv
  <2>6. \A op \in operation' : Taken(op)'
    <3>1. \A op \in Range(txn.batch) : Taken(op)
      BY <2>3 DEF PostedOnce
    <3> QED
      BY <1>2, <2>4, <3>1 DEF TablesAgree, Taken
  <2>7. \A batch \in Known' : Whole(batch)'
    <3> SUFFICES ASSUME NEW batch \in Known, NEW op \in Range(batch), op \in operation'
                 PROVE  Range(batch) \subseteq operation'
      BY <2>1 DEF Whole
    <3>1. CASE op \in operation
      BY <2>4, <3>1 DEF TablesAgree, Whole
    <3>2. CASE op \in Range(txn.batch)
      BY <2>3, <2>4, <3>2 DEF PostedOnce
    <3> QED
      BY <2>4, <3>1, <3>2
  <2>8. TablesAgree'
    <3>1. Rows(operation)' = Rows(operation')
      BY <1>2 DEF Rows
    <3>2. \A batch \in accepted' : Range(batch) \subseteq operation'
      BY <1>5, <2>4 DEF TablesAgree
    <3>3. \A op \in Ops : fate'[op] = "sent" => op \in operation'
      BY <1>2, <2>4 DEF TablesAgree
    <3> QED
      BY <2>4, <2>6, <2>7, <3>1, <3>2, <3>3 DEF TablesAgree
  <2> QED
    BY <1>1, <2>2, <2>5, <2>8
<1> QED
  BY <1>4, <1>5

(* A row for each position that has none: the rows of the whole request,   *)
(* whether the operation is new or was stored before.                      *)
LEMMA WithRowsIsShipped ==
    ASSUME PipelineInv, NEW op \in Ops
    PROVE  WithRows(statement, op) = shipped[op]
<1>1. shipped[op] \in Nat
  BY CollectorAssumption DEF PipelineInv, CollectorInv, TypeOK, CollectorAssumption
<1>2. statement[op] = IF op \in operation THEN shipped[op] ELSE 0
  BY DEF PipelineInv, TablesAgree, Rows
<1> QED
  BY <1>1, <1>2 DEF WithRows

LEMMA InsertStatementsSees ==
    ASSUME PipelineInv, UNCHANGED vars, InsertStatements
    PROVE  txn' \in Txns /\ txn'.batch = txn.batch /\ TxnSeesTables'
<1> DEFINE rows == [op \in Ops |-> IF op \in Range(txn.batch)
                                   THEN WithRows(txn.statement, op) ELSE txn.statement[op]]
<1>1. txn.stage = "operations" /\ txn.statement = statement
  BY DEF InsertStatements, PipelineInv, TxnSeesTables
<1>2. txn.operation = operation \union Range(txn.batch)
  BY <1>1 DEF PipelineInv, TxnSeesTables
<1>3. rows = Rows(txn.operation)
  <2>1. \A op \in Ops : WithRows(statement, op) = shipped[op]
    BY WithRowsIsShipped
  <2>2. \A op \in Ops : statement[op] = IF op \in operation THEN shipped[op] ELSE 0
    BY DEF PipelineInv, TablesAgree, Rows
  <2> QED
    BY <1>1, <1>2, <2>1, <2>2 DEF Rows
<1>4. txn' = [txn EXCEPT !.stage = "statements", !.statement = rows]
  BY DEF InsertStatements
<1> HIDE DEF rows
<1>5. rows \in [Ops -> 0..MaxStatements]
  BY <1>3, CollectorAssumption
  DEF Rows, PipelineInv, CollectorInv, TypeOK, CollectorAssumption
<1>6. txn \in Txns
  BY DEF PipelineInv, PipelineTypeOK
<1>7. /\ txn' \in Txns
      /\ txn'.stage = "statements" /\ txn'.batch = txn.batch
      /\ txn'.operation = txn.operation /\ txn'.statement = rows
  BY <1>4, <1>5, <1>6 DEF Txns
<1>8. operation' = operation /\ shipped' = shipped
  BY DEF InsertStatements, tables, vars
<1> QED
  BY <1>2, <1>3, <1>7, <1>8 DEF TxnSeesTables, Rows

LEMMA InsertOperationsSees ==
    ASSUME PipelineInv, InsertOperations
    PROVE  txn' \in Txns /\ txn'.batch = txn.batch /\ TxnSeesTables'
<1> DEFINE ids == txn.operation \union Range(txn.batch)
<1>1. txn.stage = "begun" /\ txn' = [txn EXCEPT !.stage = "operations", !.operation = ids]
  BY DEF InsertOperations
<1>2. txn.operation = operation /\ txn.statement = statement
  BY <1>1 DEF PipelineInv, TxnSeesTables
<1>3. txn \in Txns
  BY DEF PipelineInv, PipelineTypeOK
<1>4. Range(txn.batch) \subseteq Ops
  BY <1>3, RangeOfSeq DEF Txns
<1> HIDE DEF ids
<1>5. /\ txn' \in Txns
      /\ txn'.stage = "operations" /\ txn'.batch = txn.batch
      /\ txn'.operation = ids /\ txn'.statement = txn.statement
  BY <1>1, <1>3, <1>4 DEF Txns, ids
<1>6. operation' = operation /\ statement' = statement
  BY DEF InsertOperations, tables
<1> QED
  BY <1>2, <1>5, <1>6 DEF TxnSeesTables, ids

LEMMA BeginIngestSees ==
    ASSUME PipelineInv, NEW batch \in requests, BeginIngest(batch)
    PROVE  txn' \in Txns /\ txn'.batch = batch /\ TxnSeesTables'
<1>1. batch \in Seq(Ops) /\ operation \subseteq Ops /\ statement \in [Ops -> 0..MaxStatements]
  BY DEF PipelineInv, PipelineTypeOK
<1>2. txn' = [stage |-> "begun", batch |-> batch, operation |-> operation, statement |-> statement]
  BY DEF BeginIngest
<1>3. operation' = operation /\ statement' = statement
  BY DEF BeginIngest, tables
<1> QED
  BY <1>1, <1>2, <1>3 DEF Txns, TxnSeesTables

LEMMA ServiceStep ==
    ASSUME PipelineInv, Service
    PROVE  PipelineInv'
<1> USE DEF Service
<1>1. /\ txn \in Txns /\ requests \subseteq Seq(Ops) /\ connected \in BOOLEAN
      /\ serverUp' \in BOOLEAN /\ TxnSeesTables
      /\ UNCHANGED vars /\ inflight' = inflight
  BY DEF PipelineInv, PipelineTypeOK, vars, queueVars
<1>2. ASSUME NEW batch \in requests, BeginIngest(batch)
      PROVE  PipelineInv'
  <2>1. /\ UNCHANGED <<connected, tables, accepted>>
        /\ requests' = requests \ {batch}
    BY <1>2 DEF BeginIngest
  <2>2. txn' \in Txns /\ txn'.batch = batch /\ TxnSeesTables'
    BY <1>2, BeginIngestSees
  <2>3. \A b \in Known' : b \in Known
    BY <1>1, <2>1, <2>2 DEF Known
  <2>4. UNCHANGED <<vars, tables, accepted>>
    BY <1>1, <2>1
  <2> QED
    BY <1>1, <2>1, <2>2, <2>3, <2>4, TablesStay
<1>3. ASSUME NEW batch \in requests, RefuseIngest(batch)
      PROVE  PipelineInv'
  <2>1. /\ UNCHANGED <<vars, tables, accepted, connected, txn>>
        /\ requests' = requests \ {batch}
    BY <1>1, <1>3 DEF RefuseIngest
  <2>2. TxnSeesTables'
    BY <1>1, <2>1 DEF TxnSeesTables, tables, vars, Rows
  <2>3. \A b \in Known' : b \in Known
    BY <1>1, <2>1 DEF Known
  <2> QED
    BY <1>1, <2>1, <2>2, <2>3, TablesStay
<1>4. CASE InsertOperations \/ InsertStatements
  <2>1. UNCHANGED <<connected, requests, tables, accepted>>
    BY <1>4 DEF InsertOperations, InsertStatements
  <2>2. txn' \in Txns /\ txn'.batch = txn.batch /\ TxnSeesTables'
    BY <1>1, <1>4, InsertOperationsSees, InsertStatementsSees
  <2>3. \A b \in Known' : b \in Known
    BY <1>1, <2>1, <2>2 DEF Known
  <2>4. UNCHANGED <<vars, tables, accepted>>
    BY <1>1, <2>1
  <2> QED
    BY <1>1, <2>1, <2>2, <2>3, <2>4, TablesStay
<1>5. CASE Commit
  BY <1>1, <1>5, TxnEnds DEF Commit
<1>6. CASE Rollback
  BY <1>1, <1>6, TxnEnds DEF Rollback
<1>7. CASE ConnectionLost
  BY <1>1, <1>7, TxnEnds DEF ConnectionLost
<1> QED
  BY <1>2, <1>3, <1>4, <1>5, <1>6, <1>7

(* Requests that are lost or delivered again, a restart, or nothing.       *)
LEMMA NetworkStep ==
    ASSUME PipelineInv, LoseRequest \/ Redeliver \/ ServerStart \/ UNCHANGED pipelineVars
    PROVE  PipelineInv'
<1>1. /\ requests \subseteq Seq(Ops) /\ inflight \subseteq Seq(Ops) /\ accepted \subseteq Seq(Ops)
      /\ serverUp \in BOOLEAN /\ connected \in BOOLEAN /\ txn \in Txns /\ TxnSeesTables
  BY DEF PipelineInv, PipelineTypeOK, TypeOK
<1>2. /\ UNCHANGED <<vars, tables, accepted>> /\ txn' = txn
      /\ serverUp' \in BOOLEAN /\ connected' \in BOOLEAN
      /\ requests' \subseteq requests \union inflight \union accepted
  BY <1>1 DEF LoseRequest, Redeliver, ServerStart, pipelineVars, serverVars
<1>3. \A b \in Known' : b \in Known
  BY <1>2 DEF Known, vars, queueVars
<1>4. TxnSeesTables'
  BY <1>1, <1>2 DEF TxnSeesTables, tables, vars, Rows
<1> QED
  BY <1>1, <1>2, <1>3, <1>4, TablesStay
----------------------------------------------------------------------------
LEMMA PipelineInvInit == PipelineInit => PipelineInv
<1> SUFFICES ASSUME PipelineInit
             PROVE  PipelineInv
  OBVIOUS
<1> USE DEF PipelineInit
<1>1. CollectorInv
  BY CollectorInvInit
<1>2. PipelineTypeOK
  BY <1>1, NoTxnType, CollectorAssumption
  DEF PipelineTypeOK, CollectorInv, CollectorAssumption
<1>3. \A batch \in Known : Range(batch) = {}
  BY NoTxnType DEF Known, Init
<1>4. EndedBefore /\ PostedOnce /\ TablesAgree
  BY <1>3 DEF EndedBefore, PostedOnce, TablesAgree, Whole, Rows, Init
<1>5. TxnSeesTables
  BY DEF TxnSeesTables, NoTxn
<1> QED
  BY <1>1, <1>2, <1>4, <1>5 DEF PipelineInv

LEMMA PipelineInvStep == PipelineInv /\ [PipelineNext]_pipelineVars => PipelineInv'
<1> SUFFICES ASSUME PipelineInv, [PipelineNext]_pipelineVars
             PROVE  PipelineInv'
  OBVIOUS
<1>1. CASE Application
  BY <1>1, ApplicationStep
<1>2. CASE Service
  BY <1>2, ServiceStep
<1>3. CASE ServerCrash
  <2>1. /\ UNCHANGED vars /\ txn' = NoTxn /\ requests' \subseteq requests
        /\ serverUp' \in BOOLEAN /\ connected' \in BOOLEAN
    BY <1>3 DEF ServerCrash, PipelineInv, PipelineTypeOK
  <2> QED
    BY <1>3, <2>1, TxnEnds DEF ServerCrash
<1>4. CASE LoseRequest \/ Redeliver \/ ServerStart \/ UNCHANGED pipelineVars
  BY <1>4, NetworkStep
<1> QED
  BY <1>1, <1>2, <1>3, <1>4 DEF PipelineNext

(* Whatever is lost, repeated or crashes between collector and store: the  *)
(* tables hold what was posted, whole, or nothing of it.                   *)
THEOREM PipelineInvariance == PipelineSpec => []PipelineInv
BY PipelineInvInit, PipelineInvStep, PTL DEF PipelineSpec

(* Every variable of the application, the network and the service keeps    *)
(* its type.                                                               *)
THEOREM PipelineTypeCorrect == PipelineSpec => []PipelineTypeOK
BY PipelineInvariance, PTL DEF PipelineInv

(***************************************************************************)
(* The composition is still the collector of module Collector: whatever    *)
(* the network and the service do, its theorems hold of the application.   *)
(***************************************************************************)
THEOREM PipelineImplementsCollector == PipelineSpec => Spec
BY PipelineMovesCollector, PTL DEF PipelineSpec, PipelineInit, Spec

(***************************************************************************)
(* An event the collector counts as sent is in the results database with   *)
(* the SQL of its request, and that is all its operation had executed      *)
(* when it ended (send, ingest, insert_events).                            *)
(***************************************************************************)
THEOREM SentIsStoredHolds == PipelineSpec => []SentIsStored
<1>1. PipelineInv => SentIsStored
  <2> SUFFICES ASSUME PipelineInv, NEW op \in Ops, fate[op] = "sent"
               PROVE  /\ op \in operation
                      /\ statement[op] = shipped[op]
                      /\ statement[op] >= ended[op]
    BY DEF SentIsStored
  <2>1. op \in operation
    BY DEF PipelineInv, TablesAgree
  <2>2. Taken(op) /\ statement[op] = shipped[op]
    BY <2>1 DEF PipelineInv, TablesAgree, Rows
  <2>3. ended[op] \in Nat /\ shipped[op] \in Nat
    BY CollectorAssumption DEF PipelineInv, CollectorInv, TypeOK, CollectorAssumption
  <2> QED
    BY <2>1, <2>2, <2>3 DEF Taken
<1> QED
  BY <1>1, PipelineInvariance, PTL

(***************************************************************************)
(* No reader of the results database sees an operation without its SQL or  *)
(* a part of a request (insert_events inserts both tables in one           *)
(* transaction).                                                           *)
(***************************************************************************)
THEOREM StoredWholeHolds == PipelineSpec => []StoredWhole
<1>1. PipelineInv => StoredWhole
  BY DEF PipelineInv, TablesAgree, StoredWhole, Rows, Whole, Known
<1> QED
  BY <1>1, PipelineInvariance, PTL

(***************************************************************************)
(* Rows that are stored never change: a repeated delivery finds them all   *)
(* (ON CONFLICT DO NOTHING) and brings none that was missing.              *)
(***************************************************************************)
THEOREM StoredIsFinalHolds == PipelineSpec => StoredIsFinal
<1> DEFINE Final == /\ operation \subseteq operation'
                    /\ \A op \in operation : statement'[op] = statement[op]
<1>1. PipelineInv /\ PipelineInv' /\ [PipelineNext]_pipelineVars => [Final]_pipelineVars
  <2> SUFFICES ASSUME PipelineInv, PipelineInv', [PipelineNext]_pipelineVars
               PROVE  Final
    OBVIOUS
  <2>1. \/ operation' = operation /\ statement' = statement
        \/ /\ txn.stage = "statements" /\ Publish
           /\ UNCHANGED vars
    BY DEF PipelineNext, Application, Post, LoseRequest, Redeliver, Service, BeginIngest,
           RefuseIngest, InsertOperations, InsertStatements, Commit, Rollback, ConnectionLost,
           ServerCrash, ServerStart, pipelineVars, serverVars, tables
  <2>2. CASE txn.stage = "statements" /\ Publish /\ UNCHANGED vars
    <3>1. operation' = operation \union Range(txn.batch) /\ statement' = Rows(operation')
      BY <2>2 DEF Publish, PipelineInv, TxnSeesTables
    <3>2. operation \subseteq Ops /\ statement = Rows(operation)
      BY DEF PipelineInv, PipelineTypeOK, TablesAgree
    <3> QED
      BY <3>1, <3>2 DEF Rows
  <2> QED
    BY <2>1, <2>2
<1> QED
  BY <1>1, PipelineInvariance, PTL DEF PipelineSpec, StoredIsFinal
----------------------------------------------------------------------------
(* Collector, network and service implement DeliveryLedger.                *)

(* Whatever is posted, stored or posted again is within the batch limit.   *)
RequestsWithinLimit == \A batch \in Known : Cardinality(Range(batch)) <= MaxBatch

(* A batch becomes known when a flush takes it. *)
LEMMA KnownGrows ==
    ASSUME PipelineInv, [PipelineNext]_pipelineVars, NEW batch \in Known'
    PROVE  batch \in Known \/ batch \in inflight' \/ batch = <<>>
<1>1. NoTxn.batch = <<>>
  BY DEF NoTxn
<1>2. txn \in Txns
  BY DEF PipelineInv, PipelineTypeOK
<1>3. CASE Application
  BY <1>3 DEF Application, Post, Known
<1>4. CASE LoseRequest \/ Redeliver \/ ServerStart \/ UNCHANGED pipelineVars
  BY <1>4 DEF LoseRequest, Redeliver, ServerStart, pipelineVars, serverVars, vars, queueVars, Known
<1>5. CASE ServerCrash
  BY <1>1, <1>5 DEF ServerCrash, vars, queueVars, Known
<1>6. CASE Service
  <2>1. inflight' = inflight
    BY <1>6 DEF Service, vars, queueVars
  <2>2. ASSUME NEW b \in requests, BeginIngest(b)
        PROVE  batch \in Known
    BY <2>1, <2>2 DEF BeginIngest, Known
  <2>3. ASSUME NEW b \in requests, RefuseIngest(b)
        PROVE  batch \in Known
    BY <2>1, <2>3 DEF RefuseIngest, Known
  <2>4. CASE InsertOperations \/ InsertStatements
    <3>1. txn'.batch = txn.batch
      BY <1>2, <2>4 DEF InsertOperations, InsertStatements, Txns
    <3> QED
      BY <2>1, <2>4, <3>1 DEF InsertOperations, InsertStatements, Known
  <2>5. CASE Commit \/ Rollback \/ ConnectionLost
    BY <1>1, <2>1, <2>5 DEF Commit, Rollback, ConnectionLost, Known
  <2> QED
    BY <1>6, <2>2, <2>3, <2>4, <2>5 DEF Service
<1> QED
  BY <1>3, <1>4, <1>5, <1>6 DEF PipelineNext

LEMMA WithinLimitStep ==
    PipelineInv /\ PipelineInv' /\ RequestsWithinLimit /\ [PipelineNext]_pipelineVars
        => RequestsWithinLimit'
<1> SUFFICES ASSUME PipelineInv, PipelineInv', RequestsWithinLimit, [PipelineNext]_pipelineVars,
                    NEW batch \in Known'
             PROVE  Cardinality(Range(batch)) <= MaxBatch
  BY DEF RequestsWithinLimit
<1>1. CASE batch \in Known
  BY <1>1 DEF RequestsWithinLimit
<1>2. CASE batch \in inflight'
  <2>1. batch \in Seq(Ops) /\ IsInjective(batch) /\ Len(batch) \in 1..MaxBatch
    BY <1>2 DEF PipelineInv, CollectorInv, TypeOK, OneHolder, WithinLimits
  <2>2. Cardinality(Range(batch)) = Len(batch)
    BY <2>1, InjectiveSize
  <2> QED
    BY <2>1, <2>2, CollectorAssumption DEF CollectorAssumption
<1>3. CASE batch = <<>>
  BY <1>3, RangeEmpty, FS_EmptySet, CollectorAssumption DEF CollectorAssumption
<1> QED
  BY <1>1, <1>2, <1>3, KnownGrows

(* What the two ledgers say of the events is the same. *)
LEMMA SameLedger ==
    /\ \A op \in Ops : /\ Ledger!Capture(op) => Delivered!Capture(op)
                       /\ Ledger!Refuse(op) => Delivered!Refuse(op)
    /\ \A S : /\ Ledger!Settle(S) => Delivered!Settle(S)
              /\ Ledger!Lose(S) => Delivered!Lose(S)
    /\ \A f : Ledger!Having(f) = Delivered!Having(f)
    /\ \A S : Delivered!Cardinality(S) = Cardinality(S)
<1>1. \A S : /\ Delivered!Cardinality(S) = Cardinality(S)
             /\ Ledger!Cardinality(S) = Cardinality(S)
  BY SameCardinality DEF Delivered!Cardinality, Cardinality
<1>2. \A f : Ledger!Having(f) = Delivered!Having(f)
  BY DEF Ledger!Having, Delivered!Having
<1>3. \A c, name, n : Ledger!Add(c, name, n) = Delivered!Add(c, name, n)
  BY DEF Ledger!Add, Delivered!Add
<1>4. \A S, f : Ledger!Outcome(S, f) = Delivered!Outcome(S, f)
  BY DEF Ledger!Outcome, Delivered!Outcome
<1>5. \A S : Ledger!Lose(S) => Delivered!Lose(S)
  BY <1>1, <1>3, <1>4 DEF Ledger!Lose, Delivered!Lose
<1>6. \A S : Ledger!Deliver(S) => Delivered!Deliver(S)
  BY <1>1, <1>3, <1>4 DEF Ledger!Deliver, Delivered!Deliver
<1>7. \A S : Ledger!Settle(S) => Delivered!Settle(S)
  BY <1>1, <1>5, <1>6 DEF Ledger!Settle, Delivered!Settle
<1>8. ASSUME NEW op \in Ops
      PROVE  /\ Ledger!Capture(op) => Delivered!Capture(op)
             /\ Ledger!Refuse(op) => Delivered!Refuse(op)
  BY <1>1, <1>2, <1>3
  DEF Ledger!Capture, Delivered!Capture, Ledger!Refuse, Delivered!Refuse
<1> QED
  BY <1>1, <1>2, <1>5, <1>7, <1>8

LEMMA FinishEndsOperation ==
    ASSUME CollectorInv, NEW op \in Ops, FinishOp(op), UNCHANGED tables
    PROVE  Delivered!EndOperation(op)
<1>1. Delivered!Capture(op) \/ Delivered!Refuse(op)
  <2>1. CASE Overflow(op)
    BY <2>1, OverflowRefuses, SameLedger
  <2>2. CASE Enqueue(op)
    BY <2>2, EnqueueCaptures, SameLedger
  <2> QED
    BY <2>1, <2>2 DEF FinishOp
<1>2. ended' = [ended EXCEPT ![op] = statements[op]] /\ statements[op] \in Nat
  BY CollectorAssumption DEF FinishOp, CollectorInv, TypeOK, CollectorAssumption
<1>3. ended'[op] = statements[op]
  BY <1>2 DEF CollectorInv, TypeOK
<1> QED
  BY <1>1, <1>2, <1>3 DEF Delivered!EndOperation, Delivered!stores, tables

(* A flush resolves as sent only for a batch that was acknowledged, and    *)
(* with it stored.                                                         *)
LEMMA SettleSettlesStored ==
    ASSUME PipelineInv, NEW batch \in inflight, NEW ok \in BOOLEAN,
           Answered(batch, ok), SettleBatch(batch, ok), UNCHANGED tables
    PROVE  /\ Range(batch) \in SUBSET Delivered!Having("held")
           /\ Delivered!SettleStored(Range(batch))
<1>1. /\ Range(batch) \in SUBSET Ledger!Having("held")
      /\ Ledger!Settle(Range(batch))
      /\ ~ok => Ledger!Lose(Range(batch))
  BY SettleSettles DEF PipelineInv
<1>2. ok => Range(batch) \subseteq operation
  BY DEF Answered, PipelineInv, TablesAgree
<1>3. ended' = ended
  BY DEF SettleBatch
<1> QED
  BY <1>1, <1>2, <1>3, SameLedger DEF Delivered!SettleStored, Delivered!stores, tables

(* A commit stores the request of the transaction, all of it, or finds it  *)
(* stored.                                                                 *)
LEMMA PublishStores ==
    ASSUME PipelineInv, RequestsWithinLimit, UNCHANGED vars, txn.stage = "statements", Publish
    PROVE  \/ UNCHANGED Delivered!deliveryVars
           \/ \E S \in SUBSET Ops : Delivered!Store(S)
<1> PICK S : S = Range(txn.batch)
  OBVIOUS
<1>1. /\ S \subseteq Ops /\ txn.batch \in Known
      /\ operation \subseteq Ops
  BY RangeOfSeq DEF PipelineInv, PipelineTypeOK, Txns, Known
<1>2. /\ operation' = operation \union S
      /\ statement' = Rows(operation') /\ statement = Rows(operation)
  BY DEF Publish, PipelineInv, TxnSeesTables, TablesAgree
<1>3. UNCHANGED <<fate, counters, ended>>
  BY DEF vars
<1>4. CASE S \subseteq operation
  <2>1. operation' = operation
    BY <1>2, <1>4
  <2>2. statement' = statement
    BY <1>2, <2>1 DEF Rows
  <2> QED
    BY <1>3, <2>1, <2>2 DEF Delivered!deliveryVars, Delivered!ledgerVars, Delivered!stores
<1>5. CASE ~(S \subseteq operation)
  <2>1. S # {} /\ S \intersect operation = {}
    BY <1>1, <1>5 DEF PipelineInv, TablesAgree, Whole
  <2>2. Delivered!Cardinality(S) <= MaxBatch
    BY <1>1, SameLedger DEF RequestsWithinLimit
  <2>3. \A op \in S : Taken(op)
    BY <1>1 DEF PipelineInv, PostedOnce
  <2>4. S \intersect Delivered!Having("none") = {}
    BY <2>3 DEF Taken, Delivered!Having
  <2>5. \A op \in S : statement'[op] = shipped[op]
    BY <1>1, <1>2 DEF Rows
  <2>6. \A op \in S : statement'[op] \in Nat /\ statement'[op] >= ended[op]
    <3>1. \A op \in S : shipped[op] \in Nat /\ ended[op] \in Nat
      BY <1>1, CollectorAssumption DEF PipelineInv, CollectorInv, TypeOK, CollectorAssumption
    <3> QED
      BY <2>3, <2>5, <3>1 DEF Taken
  <2>7. statement' = [op \in Ops |-> IF op \in S THEN statement'[op] ELSE statement[op]]
    BY <1>2 DEF Rows
  <2>8. Delivered!Store(S)
    BY <1>2, <1>3, <2>1, <2>2, <2>4, <2>6, <2>7 DEF Delivered!Store, Delivered!ledgerVars
  <2> QED
    BY <1>1, <2>8
<1> QED
  BY <1>4, <1>5

LEMMA StepIsDelivery ==
    PipelineInv /\ RequestsWithinLimit /\ [PipelineNext]_pipelineVars
        => [Delivered!DeliveryNext]_(Delivered!deliveryVars)
<1> SUFFICES ASSUME PipelineInv, RequestsWithinLimit, [PipelineNext]_pipelineVars
             PROVE  Delivered!DeliveryNext \/ UNCHANGED Delivered!deliveryVars
  OBVIOUS
<1>1. UNCHANGED <<fate, counters, ended, tables>> => UNCHANGED Delivered!deliveryVars
  BY DEF Delivered!deliveryVars, Delivered!ledgerVars, Delivered!stores, tables
<1>2. CASE Application
  <2>1. UNCHANGED tables
    BY <1>2 DEF Application, Post
  <2>2. ASSUME NEW op \in Ops, FinishOp(op)
        PROVE  Delivered!DeliveryNext
    BY <2>1, <2>2, FinishEndsOperation DEF PipelineInv, Delivered!DeliveryNext
  <2>3. ASSUME NEW batch \in inflight, NEW ok \in BOOLEAN, Answered(batch, ok),
               SettleBatch(batch, ok)
        PROVE  Delivered!DeliveryNext
    BY <2>1, <2>3, SettleSettlesStored DEF Delivered!DeliveryNext
  <2>4. ASSUME NEW op \in Ops, StartOp(op) \/ RecordStatement(op)
        PROVE  UNCHANGED <<fate, counters, ended>>
    BY <2>4 DEF StartOp, RecordStatement
  <2>5. CASE TimerFire \/ ImmediateFire \/ FlushCall \/ Exit
    BY <1>1, <2>1, <2>5 DEF TimerFire, ImmediateFire, FlushCall, Exit
  <2> QED
    BY <1>1, <1>2, <2>1, <2>2, <2>3, <2>4, <2>5 DEF Application, RequestPath
<1>3. CASE \/ LoseRequest \/ Redeliver \/ Service \/ ServerCrash \/ ServerStart
           \/ UNCHANGED pipelineVars
  <2>1. UNCHANGED vars
    BY <1>3 DEF LoseRequest, Redeliver, Service, ServerCrash, ServerStart, pipelineVars
  <2>2. UNCHANGED tables \/ (txn.stage = "statements" /\ Publish)
    BY <1>3 DEF LoseRequest, Redeliver, Service, BeginIngest, RefuseIngest, InsertOperations,
                InsertStatements, Commit, Rollback, ConnectionLost, ServerCrash, ServerStart,
                pipelineVars, serverVars
  <2>3. UNCHANGED <<fate, counters, ended>>
    BY <2>1 DEF vars
  <2> QED
    BY <1>1, <2>1, <2>2, <2>3, PublishStores DEF Delivered!DeliveryNext
<1> QED
  BY <1>2, <1>3 DEF PipelineNext

LEMMA InitIsDeliveryInit ==
    PipelineInit => RequestsWithinLimit /\ Delivered!DeliveryInit
<1> SUFFICES ASSUME PipelineInit
             PROVE  RequestsWithinLimit /\ Delivered!DeliveryInit
  OBVIOUS
<1>1. \A batch \in Known : batch = <<>>
  BY DEF PipelineInit, Init, NoTxn, Known
<1>2. RequestsWithinLimit
  <2>1. Cardinality(Range(<<>>)) = 0
    BY RangeEmpty, FS_EmptySet
  <2> QED
    BY <1>1, <2>1, CollectorAssumption DEF RequestsWithinLimit, CollectorAssumption
<1>3. Delivered!LedgerInit
  BY DEF PipelineInit, Init, Delivered!LedgerInit, Delivered!Zero
<1> QED
  BY <1>2, <1>3 DEF PipelineInit, Init, Delivered!DeliveryInit

(***************************************************************************)
(* Whatever the network loses or repeats and however often the service or  *)
(* its connection dies, collector and service are a DeliveryLedger: an     *)
(* event counts as sent only when its operation is stored, and a request   *)
(* is stored whole, within maxBatch, once and for good, with all its       *)
(* operations had executed when they ended (flush, ingest, insert_events). *)
(***************************************************************************)
THEOREM PipelineImplementsDelivery == PipelineSpec => ImplementsDelivery
<1>1. PipelineSpec => Delivered!DeliveryInit
                      /\ [][Delivered!DeliveryNext]_(Delivered!deliveryVars)
  BY PipelineInvariance, InitIsDeliveryInit, WithinLimitStep, StepIsDelivery, PTL
  DEF PipelineSpec
<1> QED
  BY <1>1 DEF ImplementsDelivery, Delivered!DeliverySpec
=============================================================================
