----------------------------- MODULE Collector -----------------------------
(***************************************************************************)
(* packages/collector/src/collector.ts: the buffer of operation events     *)
(* inside one application process, the flushes that drain it and the       *)
(* counters stats() reports.                                               *)
(*                                                                         *)
(* JavaScript runs to completion, so an action is everything the code does *)
(* between two points where it returns to the event loop.  A flush() that  *)
(* awaits send() is suspended; it is identified by the batch it took out   *)
(* of the buffer, which no other flush can hold.  Several flushes may be   *)
(* suspended at the same time: nothing in flush() excludes another one.    *)
(***************************************************************************)
EXTENDS Naturals, Sequences, FiniteSets, Functions

CONSTANTS
    Ops,            \* Prisma operations, each identified by its operationId
    MaxBatch,       \* CollectorOptions.maxBatch
    MaxBuffer,      \* CollectorOptions.maxBuffer
    MaxStatements   \* bound of the model: SQL statements of one operation

ASSUME CollectorAssumption ==
    /\ IsFiniteSet(Ops)
    /\ MaxBatch \in Nat \ {0}
    /\ MaxBuffer \in Nat
    /\ MaxStatements \in Nat

VARIABLES
    up,         \* the application process runs
    phase,      \* of runOperation for each operation
    statements, \* event.statements.length
    buffer,     \* this.buffer
    timer,      \* this.timer is set
    immediates, \* setImmediate callbacks queued by emit
    inflight,   \* batches whose send() a suspended flush awaits
    counters,   \* this.counters
    drain,      \* the application's own `await collector.flush()`
    fate,       \* history: what became of each operation
    ended,      \* history: statements when the operation ended
    shipped     \* history: statements in the request body

queueVars == <<buffer, timer, immediates, inflight>>
vars == <<up, phase, statements, queueVars, counters, drain, fate, ended, shipped>>

Phases == {"idle", "running", "done"}
Fates == {"none", "held", "sent", "dropped"}

Counters == [captured : Nat, sent : Nat, dropped : Nat, failedBatches : Nat]

(* this.counters.<name> += n *)
Add(c, name, n) == [c EXCEPT ![name] = @ + n]

(* The flush an application awaits: which batch it is suspended on, and    *)
(* the operations that were buffered when it was called.                   *)
Drains == [status : {"none", "waiting", "returned"}, batch : Seq(Ops), owed : SUBSET Ops]
NoDrain == [status |-> "none", batch |-> <<>>, owed |-> {}]

TypeOK ==
    /\ up \in BOOLEAN
    /\ phase \in [Ops -> Phases]
    /\ statements \in [Ops -> 0..MaxStatements]
    /\ buffer \in Seq(Ops)
    /\ timer \in BOOLEAN
    /\ immediates \in Nat
    /\ inflight \subseteq Seq(Ops)
    /\ counters \in Counters
    /\ drain \in Drains
    /\ fate \in [Ops -> Fates]
    /\ ended \in [Ops -> 0..MaxStatements]
    /\ shipped \in [Ops -> 0..MaxStatements]

Init ==
    /\ up = TRUE
    /\ phase = [op \in Ops |-> "idle"]
    /\ statements = [op \in Ops |-> 0]
    /\ buffer = <<>>
    /\ timer = FALSE
    /\ immediates = 0
    /\ inflight = {}
    /\ counters = [captured |-> 0, sent |-> 0, dropped |-> 0, failedBatches |-> 0]
    /\ drain = NoDrain
    /\ fate = [op \in Ops |-> "none"]
    /\ ended = [op \in Ops |-> 0]
    /\ shipped = [op \in Ops |-> 0]
----------------------------------------------------------------------------
(* The request path: runOperation, instrumentQueryable, emit. *)

StartOp(op) ==
    /\ phase[op] = "idle"
    /\ phase' = [phase EXCEPT ![op] = "running"]
    /\ UNCHANGED <<up, statements, queueVars, counters, drain, fate, ended, shipped>>

(* A driver call settles and record() pushes onto the event that was       *)
(* current when it was issued.  AsyncLocalStorage keeps that event current *)
(* for calls the operation did not wait for, so a statement may still be   *)
(* recorded after the operation ended.                                     *)
RecordStatement(op) ==
    /\ phase[op] \in {"running", "done"}
    /\ statements[op] < MaxStatements
    /\ statements' = [statements EXCEPT ![op] = @ + 1]
    /\ UNCHANGED <<up, phase, queueVars, counters, drain, fate, ended, shipped>>

BufferFull_OffByOne == Len(buffer) > MaxBuffer

BufferFull == Len(buffer) >= MaxBuffer

Overflow_Uncounted(op) ==
    /\ BufferFull
    /\ counters' = Add(counters, "captured", 1)
    /\ fate' = [fate EXCEPT ![op] = "dropped"]
    /\ UNCHANGED queueVars

Overflow(op) ==
    /\ BufferFull
    /\ counters' = Add(Add(counters, "captured", 1), "dropped", 1)
    /\ fate' = [fate EXCEPT ![op] = "dropped"]
    /\ UNCHANGED queueVars

Schedule_NoImmediate ==
    IF Len(buffer') >= MaxBatch
    THEN timer' = FALSE /\ UNCHANGED immediates
    ELSE timer' = TRUE /\ UNCHANGED immediates

(* A full batch is flushed on the next turn of the event loop, anything    *)
(* less when the timer fires.                                              *)
Schedule ==
    IF Len(buffer') >= MaxBatch
    THEN timer' = FALSE /\ immediates' = immediates + 1
    ELSE timer' = TRUE /\ UNCHANGED immediates

Enqueue(op) ==
    /\ ~BufferFull
    /\ counters' = Add(counters, "captured", 1)
    /\ buffer' = Append(buffer, op)
    /\ Schedule
    /\ fate' = [fate EXCEPT ![op] = "held"]
    /\ UNCHANGED inflight

(* The query settles, either way: the finally block of runOperation emits. *)
FinishOp(op) ==
    /\ phase[op] = "running"
    /\ phase' = [phase EXCEPT ![op] = "done"]
    /\ ended' = [ended EXCEPT ![op] = statements[op]]
    /\ Overflow(op) \/ Enqueue(op)
    /\ UNCHANGED <<up, statements, drain, shipped>>
----------------------------------------------------------------------------
(* flush() *)

NextBatch == SubSeq(buffer, 1, IF Len(buffer) < MaxBatch THEN Len(buffer) ELSE MaxBatch)
Remaining_OffByOne == SubSeq(buffer, Len(NextBatch), Len(buffer))
Remaining == SubSeq(buffer, Len(NextBatch) + 1, Len(buffer))

(* One turn of the while loop: take a batch and call send(), which         *)
(* serialises the events before it first suspends.  The flush that awaited *)
(* the batches in `done` goes on from there.                               *)
LoopTurn(done) ==
    IF buffer = <<>>
    THEN /\ inflight' = inflight \ done
         /\ UNCHANGED <<buffer, shipped>>
    ELSE /\ inflight' = (inflight \ done) \union {NextBatch}
         /\ buffer' = Remaining
         /\ shipped' = [op \in Ops |->
                          IF op \in Range(NextBatch) THEN statements[op] ELSE shipped[op]]

(* A new call of flush() clears the timer before its first turn. *)
BeginFlush == timer' = FALSE /\ LoopTurn({})

TimerFire ==
    /\ timer
    /\ BeginFlush
    /\ UNCHANGED <<up, phase, statements, immediates, counters, drain, fate, ended>>

ImmediateFire_Unqueued ==
    /\ immediates' = immediates - 1
    /\ BeginFlush
    /\ UNCHANGED <<up, phase, statements, counters, drain, fate, ended>>

ImmediateFire ==
    /\ immediates > 0
    /\ immediates' = immediates - 1
    /\ BeginFlush
    /\ UNCHANGED <<up, phase, statements, counters, drain, fate, ended>>

AfterTurn_JoinsOthers(owed) ==
    IF buffer = <<>>
    THEN [status |-> IF inflight = {} THEN "returned" ELSE "waiting",
          batch |-> <<>>, owed |-> owed]
    ELSE [status |-> "waiting", batch |-> NextBatch, owed |-> owed]

(* Where the awaited flush stands after its loop turn. *)
AfterTurn(owed) ==
    IF buffer = <<>>
    THEN [status |-> "returned", batch |-> <<>>, owed |-> owed]
    ELSE [status |-> "waiting", batch |-> NextBatch, owed |-> owed]

(* The application calls flush() and awaits it, as record-prisma-sql.ts    *)
(* does before it exits.  One such call at a time.                         *)
FlushCall ==
    /\ drain.status # "waiting"
    /\ BeginFlush
    /\ drain' = AfterTurn(Range(buffer))
    /\ UNCHANGED <<up, phase, statements, immediates, counters, fate, ended>>

SentCounters(n) == Add(counters, "sent", n)
FailedCounters(n) == Add(Add(counters, "failedBatches", 1), "dropped", n)

Settled(batch, ok) ==
    /\ counters' = IF ok THEN SentCounters(Len(batch)) ELSE FailedCounters(Len(batch))
    /\ fate' = [op \in Ops |-> IF op \in Range(batch)
                               THEN IF ok THEN "sent" ELSE "dropped"
                               ELSE fate[op]]

SettleBatch_OneBatch(batch, ok) ==
    /\ Settled(batch, ok)
    /\ inflight' = inflight \ {batch}
    /\ drain' = IF drain.status = "waiting" /\ drain.batch = batch
                THEN [drain EXCEPT !.status = "returned", !.batch = <<>>]
                ELSE drain
    /\ UNCHANGED <<up, phase, statements, buffer, timer, immediates, ended, shipped>>

(* send() settles: resolved on an ok response, rejected on any other one,  *)
(* a network error or the five-second abort.  The loop then takes another  *)
(* turn.                                                                   *)
SettleBatch(batch, ok) ==
    /\ Settled(batch, ok)
    /\ LoopTurn({batch})
    /\ drain' = IF drain.status = "waiting" /\ drain.batch = batch
                THEN AfterTurn(drain.owed)
                ELSE drain
    /\ UNCHANGED <<up, phase, statements, timer, immediates, ended>>

(* The process ends.  Its timer is unref'd and keeps no process alive.     *)
Exit ==
    /\ up' = FALSE
    /\ UNCHANGED <<phase, statements, queueVars, counters, drain, fate, ended, shipped>>
----------------------------------------------------------------------------
RequestPath == \E op \in Ops : StartOp(op) \/ RecordStatement(op) \/ FinishOp(op)

Delivery ==
    \/ TimerFire \/ ImmediateFire \/ FlushCall
    \/ \E batch \in inflight, ok \in BOOLEAN : SettleBatch(batch, ok)

Next == up /\ (RequestPath \/ Delivery \/ Exit)

Spec == Init /\ [][Next]_vars

(* The event loop runs due callbacks, and AbortSignal.timeout settles every *)
(* send within five seconds.  Requests and the application's own flush     *)
(* calls are not assumed to happen.                                        *)
SettleHolding(op) ==
    \E batch \in inflight, ok \in BOOLEAN : op \in Range(batch) /\ SettleBatch(batch, ok)

DeliveryFairness ==
    /\ WF_vars(up /\ TimerFire)
    /\ WF_vars(up /\ ImmediateFire)
    /\ \A op \in Ops : WF_vars(up /\ SettleHolding(op))

FairSpec == Spec /\ DeliveryFairness
----------------------------------------------------------------------------
InFlight == UNION {Range(batch) : batch \in inflight}

(***************************************************************************)
(* A buffered event always has somebody who will take it: the timer, a     *)
(* queued setImmediate, or a suspended flush whose loop is not over.  emit *)
(* arms no timer when it queues an immediate, and every flush clears the   *)
(* timer, so this rests on the order of those steps.                       *)
(***************************************************************************)
NoStrandedEvents ==
    buffer # <<>> => timer \/ immediates > 0 \/ inflight # {}

(***************************************************************************)
(* An event is in exactly one place while it is held: once in the buffer   *)
(* or once in one batch, never in two concurrent flushes; and nowhere once *)
(* it is settled.                                                          *)
(***************************************************************************)
OneHolder ==
    /\ IsInjective(buffer)
    /\ \A batch \in inflight :
          /\ IsInjective(batch)
          /\ Range(batch) \intersect Range(buffer) = {}
          /\ \A other \in inflight : Range(batch) \intersect Range(other) # {} => batch = other
    /\ \A op \in Ops : fate[op] = "held" <=> op \in Range(buffer) \union InFlight

(***************************************************************************)
(* The batch limit holds for every request, the buffer limit for the       *)
(* buffer, and no request is empty.                                        *)
(***************************************************************************)
WithinLimits ==
    /\ Len(buffer) <= MaxBuffer
    /\ \A batch \in inflight : Len(batch) \in 1..MaxBatch

(***************************************************************************)
(* When an awaited flush() returns, none of the events it found buffered   *)
(* is still waiting in the buffer, whatever other flushes did meanwhile.   *)
(***************************************************************************)
ReturnedFlushEmptied ==
    drain.status = "returned" =>
        drain.owed \intersect Range(buffer) = {}

Ledger == INSTANCE EventLedger WITH
    Ops <- Ops, MaxBatch <- MaxBatch, MaxBuffer <- MaxBuffer,
    fate <- fate, counters <- counters

(***************************************************************************)
(* The collector keeps the promises of EventLedger: it drops an event only *)
(* when the buffer is full or its request failed, settles it once, and     *)
(* counts it.                                                              *)
(***************************************************************************)
ImplementsLedger == Ledger!LedgerSpec

(***************************************************************************)
(* stats() is exact: captured = sent + dropped + events still held, in the *)
(* buffer or in flight, whatever order concurrent flushes settle in.       *)
(***************************************************************************)
StatsAreExact == Ledger!Accounted

(***************************************************************************)
(* Every captured event is eventually sent or counted as dropped, unless   *)
(* the process ends first.                                                 *)
(***************************************************************************)
EveryEventSettles ==
    \A op \in Ops : fate[op] = "held" ~> (fate[op] \in {"sent", "dropped"} \/ ~up)

(***************************************************************************)
(* An awaited flush() returns once the application stops capturing (Ops is *)
(* finite, so it does), although other flushes take batches meanwhile.     *)
(***************************************************************************)
AwaitedFlushReturns == drain.status = "waiting" ~> (drain.status = "returned" \/ ~up)
============================================================================
