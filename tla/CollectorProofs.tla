-------------------------- MODULE CollectorProofs --------------------------
(***************************************************************************)
(* Theorems about module Collector, for every finite set of operations and *)
(* every maxBatch >= 1 and maxBuffer >= 0.                                 *)
(*                                                                         *)
(* One inductive invariant carries them: the type invariant, the three     *)
(* queue invariants TLC checks, and two facts that tie the history         *)
(* variables to the request path.                                          *)
(***************************************************************************)
EXTENDS Collector, SequenceTheorems, FiniteSetTheorems, TLAPS

(* An operation has an outcome once it ended, not before: FinishOp meets   *)
(* an event that is nowhere yet.                                           *)
FateFollowsPhase == \A op \in Ops : fate[op] = "none" <=> phase[op] # "done"

(* A flush owes only events that were captured. *)
OwedWereCaptured == \A op \in drain.owed : fate[op] # "none"

CollectorInv ==
    /\ TypeOK
    /\ OneHolder
    /\ WithinLimits
    /\ NoStrandedEvents
    /\ FateFollowsPhase
    /\ OwedWereCaptured
    /\ ReturnedFlushEmptied
----------------------------------------------------------------------------
(* Sequences without repetition. *)

(* A sequence that repeats nothing has as many elements as its range. *)
LEMMA InjectiveSize ==
    ASSUME NEW S, NEW s \in Seq(S), IsInjective(s)
    PROVE  Cardinality(Range(s)) = Len(s) /\ IsFiniteSet(Range(s))
<1>1. /\ Len(s) \in Nat
      /\ s \in [1..Len(s) -> S]
      /\ DOMAIN s = 1..Len(s)
  BY LenProperties
<1>2. s \in Bijection(1..Len(s), Range(s))
  BY <1>1 DEF IsInjective, Bijection, Injection, Surjection, Range
<1>3. ExistsBijection(1..Len(s), Range(s))
  BY <1>2 DEF ExistsBijection
<1>4. IsFiniteSet(1..Len(s)) /\ Cardinality(1..Len(s)) = Len(s)
  BY <1>1, FS_Interval
<1> QED
  BY <1>3, <1>4, FS_Bijection

(* Appending an element that is not there yet. *)
LEMMA AppendFresh ==
    ASSUME NEW S, NEW s \in Seq(S), NEW e \in S, IsInjective(s), e \notin Range(s)
    PROVE  /\ Append(s, e) \in Seq(S)
           /\ Len(Append(s, e)) = Len(s) + 1
           /\ IsInjective(Append(s, e))
           /\ Range(Append(s, e)) = Range(s) \union {e}
<1> DEFINE t == Append(s, e)
<1>1. /\ t \in Seq(S)
      /\ Len(t) = Len(s) + 1
      /\ \A i \in 1..Len(s) : t[i] = s[i]
      /\ t[Len(s) + 1] = e
  BY AppendProperties
<1>2. Len(s) \in Nat /\ DOMAIN s = 1..Len(s) /\ DOMAIN t = 1..(Len(s) + 1)
  BY <1>1, LenProperties
<1> HIDE DEF t
<1>3. IsInjective(t)
  BY <1>1, <1>2 DEF IsInjective, Range
<1>4. Range(t) = Range(s) \union {e}
  BY <1>1, <1>2 DEF Range
<1> QED
  BY <1>1, <1>3, <1>4 DEF t

(* splice(0, n) cuts a sequence into two that share nothing. *)
LEMMA Splice ==
    ASSUME NEW S, NEW s \in Seq(S), IsInjective(s), NEW n \in 1..Len(s)
    PROVE  LET head == SubSeq(s, 1, n)
               tail == SubSeq(s, n + 1, Len(s))
           IN  /\ head \in Seq(S) /\ Len(head) = n /\ IsInjective(head)
               /\ tail \in Seq(S) /\ Len(tail) = Len(s) - n /\ IsInjective(tail)
               /\ Range(head) \union Range(tail) = Range(s)
               /\ Range(head) \intersect Range(tail) = {}
<1> DEFINE head == SubSeq(s, 1, n)
           tail == SubSeq(s, n + 1, Len(s))
<1>0. Len(s) \in Nat
  BY LenProperties
<1>1. Len(s) \in Nat /\ DOMAIN s = 1..Len(s) /\ \A i \in 1..Len(s) : s[i] \in S
  BY LenProperties, ElementOfSeq
<1>2. /\ head \in Seq(S)
      /\ Len(head) = n
      /\ \A i \in 1..n : head[i] = s[i]
  BY <1>1, SubSeqProperties
<1>3. /\ tail \in Seq(S)
      /\ Len(tail) = Len(s) - n
      /\ \A i \in 1..(Len(s) - n) : tail[i] = s[n + i]
  <2>1. n + 1 \in Int /\ Len(s) \in Int /\ \A i \in (n + 1)..Len(s) : s[i] \in S
    BY <1>1
  <2>2. /\ tail \in Seq(S)
        /\ Len(tail) = IF n + 1 <= Len(s) THEN Len(s) - (n + 1) + 1 ELSE 0
        /\ \A i \in 1..(Len(s) - (n + 1) + 1) : tail[i] = s[(n + 1) + i - 1]
    BY <2>1, SubSeqProperties
  <2> HIDE DEF tail
  <2>3. ASSUME NEW i \in 1..(Len(s) - n)
        PROVE  tail[i] = s[n + i]
    <3>1. i \in 1..(Len(s) - (n + 1) + 1) /\ (n + 1) + i - 1 = n + i
      BY <1>1
    <3>2. tail[i] = s[(n + 1) + i - 1]
      BY <2>2, <3>1
    <3> QED
      BY <3>1, <3>2
  <2>4. Len(tail) = Len(s) - n
    <3>1. CASE n + 1 <= Len(s)
      BY <1>1, <2>2, <3>1
    <3>2. CASE n = Len(s)
      BY <1>1, <2>2, <3>2
    <3>3. n + 1 <= Len(s) \/ n = Len(s)
      BY <1>0
    <3> QED
      BY <3>1, <3>2, <3>3
  <2> QED
    BY <2>2, <2>3, <2>4
<1>4. DOMAIN head = 1..n /\ DOMAIN tail = 1..(Len(s) - n)
  BY <1>2, <1>3, LenProperties
<1> HIDE DEF head, tail
<1>5. IsInjective(head) /\ IsInjective(tail)
  <2>1. ASSUME NEW i \in 1..n, NEW j \in 1..n, head[i] = head[j]
        PROVE  i = j
    <3>1. s[i] = s[j] /\ i \in DOMAIN s /\ j \in DOMAIN s
      BY <1>1, <1>2, <2>1
    <3> QED
      BY <3>1 DEF IsInjective
  <2>2. ASSUME NEW i \in 1..(Len(s) - n), NEW j \in 1..(Len(s) - n), tail[i] = tail[j]
        PROVE  i = j
    <3>1. s[n + i] = s[n + j] /\ n + i \in DOMAIN s /\ n + j \in DOMAIN s
      BY <1>1, <1>3, <2>2
    <3>2. n + i = n + j
      BY <3>1 DEF IsInjective
    <3> QED
      BY <1>1, <3>2
  <2> QED
    BY <1>4, <2>1, <2>2 DEF IsInjective
<1>6. Range(s) \subseteq Range(head) \union Range(tail)
  <2> SUFFICES ASSUME NEW i \in 1..Len(s)
               PROVE  s[i] \in Range(head) \union Range(tail)
    BY <1>1 DEF Range
  <2>1. CASE i <= n
    BY <1>2, <1>4, <2>1 DEF Range
  <2>2. CASE i > n
    <3>1. i - n \in 1..(Len(s) - n) /\ n + (i - n) = i
      BY <1>1, <2>2
    <3> QED
      BY <1>3, <1>4, <3>1 DEF Range
  <2> QED
    BY <1>1, <2>1, <2>2
<1>7. Range(head) \subseteq Range(s) /\ Range(tail) \subseteq Range(s)
  <2>1. \A i \in 1..n : head[i] = s[i] /\ i \in 1..Len(s)
    BY <1>1, <1>2
  <2>2. \A i \in 1..(Len(s) - n) : tail[i] = s[n + i] /\ n + i \in 1..Len(s)
    BY <1>1, <1>3
  <2>3. Range(head) \subseteq Range(s)
    BY <1>1, <1>4, <2>1 DEF Range
  <2>4. Range(tail) \subseteq Range(s)
    BY <1>1, <1>4, <2>2 DEF Range
  <2> QED
    BY <2>3, <2>4
<1>8. Range(head) \intersect Range(tail) = {}
  <2> SUFFICES ASSUME NEW i \in 1..n, NEW j \in 1..(Len(s) - n), head[i] = tail[j]
               PROVE  FALSE
    BY <1>4 DEF Range
  <2>1. s[i] = s[n + j] /\ i \in DOMAIN s /\ n + j \in DOMAIN s
    BY <1>1, <1>2, <1>3
  <2>2. i = n + j
    BY <2>1 DEF IsInjective
  <2> QED
    BY <1>1, <2>2
<1> QED
  BY <1>2, <1>3, <1>5, <1>6, <1>7, <1>8 DEF head, tail

(***************************************************************************)
(* What a loop turn of flush() does to the queues: whoever runs it, the    *)
(* events outside the batches that are done stay held in exactly one place *)
(* and the limits hold; an event left in the buffer has a flush that will  *)
(* come back for it.                                                       *)
(***************************************************************************)
LEMMA LoopTurnKeepsQueues ==
    ASSUME CollectorAssumption, TypeOK, OneHolder, WithinLimits,
           NEW done \in SUBSET inflight, LoopTurn(done)
    PROVE  /\ buffer' \in Seq(Ops)
           /\ inflight' \subseteq Seq(Ops)
           /\ shipped' \in [Ops -> 0..MaxStatements]
           /\ IsInjective(buffer')
           /\ \A batch \in inflight' :
                 /\ IsInjective(batch)
                 /\ Range(batch) \intersect Range(buffer') = {}
                 /\ \A other \in inflight' :
                       Range(batch) \intersect Range(other) # {} => batch = other
           /\ Range(buffer') \subseteq Range(buffer)
           /\ Range(buffer') \union InFlight'
                 = (Range(buffer) \union InFlight) \ UNION {Range(batch) : batch \in done}
           /\ WithinLimits'
           /\ buffer' # <<>> => inflight' # {}
<1>1. CASE buffer = <<>>
  <2>1. inflight' = inflight \ done /\ buffer' = buffer /\ shipped' = shipped
    BY <1>1 DEF LoopTurn
  <2>2. Range(buffer') \union InFlight'
          = (Range(buffer) \union InFlight) \ UNION {Range(batch) : batch \in done}
    <3>1. Range(buffer) \intersect UNION {Range(batch) : batch \in done} = {}
      BY DEF OneHolder
    <3>2. InFlight' = InFlight \ UNION {Range(batch) : batch \in done}
      BY <2>1 DEF InFlight, OneHolder
    <3> QED
      BY <2>1, <3>1, <3>2
  <2> QED
    BY <1>1, <2>1, <2>2 DEF OneHolder, WithinLimits, TypeOK
<1>2. CASE buffer # <<>>
  <2> DEFINE n == IF Len(buffer) < MaxBatch THEN Len(buffer) ELSE MaxBatch
  <2>1. Len(buffer) \in Nat \ {0} /\ n \in 1..Len(buffer) /\ n <= MaxBatch
    BY <1>2, EmptySeq DEF TypeOK, CollectorAssumption
  <2>2. /\ NextBatch \in Seq(Ops) /\ Len(NextBatch) = n /\ IsInjective(NextBatch)
        /\ Remaining \in Seq(Ops) /\ Len(Remaining) = Len(buffer) - n /\ IsInjective(Remaining)
        /\ Range(NextBatch) \union Range(Remaining) = Range(buffer)
        /\ Range(NextBatch) \intersect Range(Remaining) = {}
    <3>1. NextBatch = SubSeq(buffer, 1, n)
      BY DEF NextBatch
    <3> HIDE DEF n
    <3>2. LET head == SubSeq(buffer, 1, n)
              tail == SubSeq(buffer, n + 1, Len(buffer))
          IN  /\ head \in Seq(Ops) /\ Len(head) = n /\ IsInjective(head)
              /\ tail \in Seq(Ops) /\ Len(tail) = Len(buffer) - n /\ IsInjective(tail)
              /\ Range(head) \union Range(tail) = Range(buffer)
              /\ Range(head) \intersect Range(tail) = {}
      BY <2>1, Splice DEF TypeOK, OneHolder
    <3>3. Remaining = SubSeq(buffer, n + 1, Len(buffer))
      BY <3>1, <3>2 DEF Remaining
    <3> QED
      BY <3>1, <3>2, <3>3
  <2> HIDE DEF n
  <2>3. /\ inflight' = (inflight \ done) \union {NextBatch}
        /\ buffer' = Remaining
        /\ shipped' = [op \in Ops |->
                         IF op \in Range(NextBatch) THEN statements[op] ELSE shipped[op]]
    BY <1>2 DEF LoopTurn
  <2>4. Range(buffer') \subseteq Range(buffer) /\ Range(NextBatch) \subseteq Range(buffer)
    BY <2>2, <2>3
  <2>5. \A batch \in inflight' :
           /\ IsInjective(batch)
           /\ Range(batch) \intersect Range(buffer') = {}
           /\ \A other \in inflight' :
                 Range(batch) \intersect Range(other) # {} => batch = other
    BY <2>2, <2>3, <2>4 DEF OneHolder
  <2>6. Range(buffer') \union InFlight'
          = (Range(buffer) \union InFlight) \ UNION {Range(batch) : batch \in done}
    <3>1. Range(buffer) \intersect UNION {Range(batch) : batch \in done} = {}
      BY DEF OneHolder
    <3>2. UNION {Range(batch) : batch \in inflight \ done}
            = InFlight \ UNION {Range(batch) : batch \in done}
      <4>1. \A batch \in inflight \ done : \A other \in done :
               Range(batch) \intersect Range(other) = {}
        BY DEF OneHolder
      <4> QED
        BY <4>1 DEF InFlight
    <3>3. InFlight' = (UNION {Range(batch) : batch \in inflight \ done}) \union Range(NextBatch)
      <4>1. {Range(batch) : batch \in inflight'}
              = {Range(batch) : batch \in inflight \ done} \union {Range(NextBatch)}
        BY <2>3
      <4>2. \A A, B : UNION (A \union {B}) = (UNION A) \union B
        OBVIOUS
      <4> QED
        BY <4>1, <4>2, Zenon DEF InFlight
    <3> DEFINE gone == UNION {Range(batch) : batch \in done}
    <3>4. /\ Range(buffer) \intersect gone = {}
          /\ InFlight' = (InFlight \ gone) \union Range(NextBatch)
      BY <3>1, <3>2, <3>3, Zenon
    <3> HIDE DEF gone
    <3>5. Range(buffer') \union InFlight' = (Range(buffer) \union InFlight) \ gone
      BY <2>2, <2>3, <3>4
    <3> QED
      BY <3>5, Zenon DEF gone
  <2>7. WithinLimits'
    BY <2>1, <2>2, <2>3 DEF WithinLimits, CollectorAssumption
  <2>8. shipped' \in [Ops -> 0..MaxStatements]
    BY <2>3 DEF TypeOK
  <2> QED
    BY <2>2, <2>3, <2>4, <2>5, <2>6, <2>7, <2>8 DEF TypeOK
<1> QED
  BY <1>1, <1>2

(* The batch a flush takes next is a sequence of operations. *)
LEMMA NextBatchType ==
    ASSUME CollectorAssumption, TypeOK
    PROVE  NextBatch \in Seq(Ops)
<1> DEFINE n == IF Len(buffer) < MaxBatch THEN Len(buffer) ELSE MaxBatch
<1>1. Len(buffer) \in Nat
  BY LenProperties DEF TypeOK
<1>2. n \in Int /\ n <= Len(buffer)
  BY <1>1 DEF CollectorAssumption
<1> HIDE DEF n
<1>3. \A i \in 1..n : buffer[i] \in Ops
  BY <1>1, <1>2, ElementOfSeq DEF TypeOK
<1>4. SubSeq(buffer, 1, n) \in Seq(Ops)
  BY <1>2, <1>3, SubSeqProperties
<1> QED
  BY <1>4 DEF NextBatch, n

(* The standing of an awaited flush is well-formed, and it returns only    *)
(* when nothing is left in the buffer.                                     *)
LEMMA AfterTurnType ==
    ASSUME CollectorAssumption, TypeOK, NEW owed \in SUBSET Ops
    PROVE  /\ AfterTurn(owed) \in Drains
           /\ AfterTurn(owed).owed = owed
           /\ AfterTurn(owed).status = "returned" => buffer = <<>>
<1>1. <<>> \in Seq(Ops)
  BY EmptySeq
<1> QED
  BY <1>1, NextBatchType DEF AfterTurn, Drains

LEMMA RangeEmpty == Range(<<>>) = {}
BY DEF Range
----------------------------------------------------------------------------
(* A step of the request path keeps the invariant. *)

LEMMA StartOpStep ==
    ASSUME CollectorInv, NEW op \in Ops, StartOp(op)
    PROVE  CollectorInv'
<1> USE DEF CollectorInv, StartOp, queueVars
<1>1. TypeOK'
  BY DEF TypeOK, Phases
<1>2. OneHolder' /\ WithinLimits' /\ NoStrandedEvents'
  BY DEF OneHolder, WithinLimits, NoStrandedEvents, InFlight
<1>3. FateFollowsPhase'
  BY DEF FateFollowsPhase, TypeOK
<1>4. OwedWereCaptured' /\ ReturnedFlushEmptied'
  BY DEF OwedWereCaptured, ReturnedFlushEmptied
<1> QED
  BY <1>1, <1>2, <1>3, <1>4

LEMMA RecordStatementStep ==
    ASSUME CollectorAssumption, CollectorInv, NEW op \in Ops, RecordStatement(op)
    PROVE  CollectorInv'
<1> USE DEF CollectorInv, RecordStatement, queueVars
<1>1. TypeOK'
  <2>1. statements' \in [Ops -> 0..MaxStatements]
    BY DEF TypeOK, CollectorAssumption
  <2> QED
    BY <2>1 DEF TypeOK
<1>2. OneHolder' /\ WithinLimits' /\ NoStrandedEvents'
  BY DEF OneHolder, WithinLimits, NoStrandedEvents, InFlight
<1>3. FateFollowsPhase' /\ OwedWereCaptured' /\ ReturnedFlushEmptied'
  BY DEF FateFollowsPhase, OwedWereCaptured, ReturnedFlushEmptied
<1> QED
  BY <1>1, <1>2, <1>3

LEMMA AddType ==
    ASSUME NEW c \in Counters, NEW n \in Nat,
           NEW name \in {"captured", "sent", "dropped", "failedBatches"}
    PROVE  Add(c, name, n) \in Counters
BY DEF Counters, Add

(* What FinishOp changes whether the event is kept or dropped. *)
LEMMA FinishOpFate ==
    ASSUME CollectorInv, NEW op \in Ops, phase[op] = "running",
           phase' = [phase EXCEPT ![op] = "done"], drain' = drain,
           NEW f \in {"held", "dropped"}, fate' = [fate EXCEPT ![op] = f]
    PROVE  /\ fate[op] = "none"
           /\ fate' \in [Ops -> Fates]
           /\ phase' \in [Ops -> Phases]
           /\ FateFollowsPhase'
           /\ OwedWereCaptured'
           /\ op \notin drain.owed
BY DEF CollectorInv, TypeOK, FateFollowsPhase, OwedWereCaptured, Fates, Phases

LEMMA OverflowStep ==
    ASSUME CollectorAssumption, CollectorInv, NEW op \in Ops, FinishOp(op), Overflow(op)
    PROVE  CollectorInv'
<1> USE DEF CollectorInv, FinishOp, Overflow, queueVars
<1>1. /\ fate[op] = "none"
      /\ fate' \in [Ops -> Fates]
      /\ phase' \in [Ops -> Phases]
      /\ FateFollowsPhase'
      /\ OwedWereCaptured'
  BY FinishOpFate
<1>2. TypeOK'
  <2>1. counters' \in Counters
    BY AddType DEF TypeOK
  <2>2. ended' \in [Ops -> 0..MaxStatements]
    BY DEF TypeOK
  <2> QED
    BY <1>1, <2>1, <2>2 DEF TypeOK
<1>3. OneHolder'
  BY <1>1 DEF OneHolder, InFlight, TypeOK
<1>4. WithinLimits' /\ NoStrandedEvents' /\ ReturnedFlushEmptied'
  BY DEF WithinLimits, NoStrandedEvents, ReturnedFlushEmptied
<1> QED
  BY <1>1, <1>2, <1>3, <1>4

(* emit arms one of the two callbacks. *)
LEMMA ScheduleType ==
    ASSUME immediates \in Nat, Schedule
    PROVE  timer' \in BOOLEAN /\ immediates' \in Nat
<1>1. timer' \in BOOLEAN
  BY DEF Schedule
<1>2. immediates' \in Nat
  BY DEF Schedule
<1> QED
  BY <1>1, <1>2

LEMMA EnqueueStep ==
    ASSUME CollectorAssumption, CollectorInv, NEW op \in Ops, FinishOp(op), Enqueue(op)
    PROVE  CollectorInv'
<1> USE DEF CollectorInv, FinishOp, Enqueue
<1>1. /\ fate[op] = "none"
      /\ fate' \in [Ops -> Fates]
      /\ phase' \in [Ops -> Phases]
      /\ FateFollowsPhase'
      /\ OwedWereCaptured'
      /\ op \notin drain.owed
  BY FinishOpFate
<1>2. op \notin Range(buffer) /\ op \notin InFlight
  BY <1>1 DEF OneHolder
<1>3. /\ buffer' \in Seq(Ops)
      /\ Len(buffer') = Len(buffer) + 1
      /\ IsInjective(buffer')
      /\ Range(buffer') = Range(buffer) \union {op}
  BY <1>2, AppendFresh DEF TypeOK, OneHolder
<1>4. TypeOK'
  <2>1. counters' \in Counters
    BY AddType DEF TypeOK
  <2>2. ended' \in [Ops -> 0..MaxStatements]
    BY DEF TypeOK
  <2>3. timer' \in BOOLEAN /\ immediates' \in Nat
    BY ScheduleType DEF TypeOK
  <2> QED
    BY <1>1, <1>3, <2>1, <2>2, <2>3 DEF TypeOK
<1>5. OneHolder'
  <2>1. InFlight' = InFlight
    BY DEF InFlight
  <2>2. \A batch \in inflight' : Range(batch) \intersect Range(buffer') = {}
    BY <1>2, <1>3 DEF OneHolder, InFlight
  <2>3. \A o \in Ops : fate'[o] = "held" <=> o \in Range(buffer') \union InFlight'
    BY <1>3, <2>1 DEF OneHolder, TypeOK
  <2> QED
    BY <1>3, <2>2, <2>3 DEF OneHolder
<1>6. WithinLimits'
  <2>1. Len(buffer) \in Nat
    BY LenProperties DEF TypeOK
  <2> QED
    BY <1>3, <2>1 DEF WithinLimits, BufferFull, CollectorAssumption
<1>7. NoStrandedEvents'
  BY DEF NoStrandedEvents, Schedule, TypeOK
<1>8. ReturnedFlushEmptied'
  BY <1>1, <1>3 DEF ReturnedFlushEmptied
<1> QED
  BY <1>1, <1>4, <1>5, <1>6, <1>7, <1>8
----------------------------------------------------------------------------
(* A step of a flush keeps the invariant. *)

LEMMA SubsetOfInflight == {} \in SUBSET inflight
OBVIOUS

(***************************************************************************)
(* A new call of flush(), by the timer, an immediate or the application:   *)
(* no event is settled, so the events held are the same.                   *)
(***************************************************************************)
LEMMA BeginFlushStep ==
    ASSUME CollectorAssumption, CollectorInv, BeginFlush,
           immediates' \in Nat, counters' = counters, fate' = fate,
           up' = up, phase' = phase, statements' = statements, ended' = ended,
           drain' \in Drains, OwedWereCaptured', 
           \/ drain' = drain
           \/ drain'.status = "returned" => buffer = <<>>
    PROVE  CollectorInv'
<1> USE DEF CollectorInv, BeginFlush
<1>1. /\ buffer' \in Seq(Ops)
      /\ inflight' \subseteq Seq(Ops)
      /\ shipped' \in [Ops -> 0..MaxStatements]
      /\ IsInjective(buffer')
      /\ \A batch \in inflight' :
            /\ IsInjective(batch)
            /\ Range(batch) \intersect Range(buffer') = {}
            /\ \A other \in inflight' :
                  Range(batch) \intersect Range(other) # {} => batch = other
      /\ Range(buffer') \subseteq Range(buffer)
      /\ Range(buffer') \union InFlight'
            = (Range(buffer) \union InFlight) \ UNION {Range(batch) : batch \in {}}
      /\ WithinLimits'
      /\ buffer' # <<>> => inflight' # {}
  BY LoopTurnKeepsQueues, SubsetOfInflight
<1>2. TypeOK'
  BY <1>1 DEF TypeOK
<1>3. OneHolder'
  <2>1. Range(buffer') \union InFlight' = Range(buffer) \union InFlight
    BY <1>1
  <2> QED
    BY <1>1, <2>1 DEF OneHolder
<1>4. NoStrandedEvents'
  BY <1>1 DEF NoStrandedEvents
<1>5. FateFollowsPhase'
  BY DEF FateFollowsPhase
<1>6. ReturnedFlushEmptied'
  <2>1. CASE drain' = drain
    BY <1>1, <2>1 DEF ReturnedFlushEmptied
  <2>2. CASE drain'.status = "returned" => buffer = <<>>
    BY <1>1, <2>2, RangeEmpty DEF ReturnedFlushEmptied
  <2> QED
    BY <2>1, <2>2
<1> QED
  BY <1>1, <1>2, <1>3, <1>4, <1>5, <1>6

LEMMA FlushCallStep ==
    ASSUME CollectorAssumption, CollectorInv, FlushCall
    PROVE  CollectorInv'
<1>1. Range(buffer) \in SUBSET Ops
  BY RangeOfSeq DEF CollectorInv, TypeOK
<1>2. /\ drain' \in Drains
      /\ drain'.owed = Range(buffer)
      /\ drain'.status = "returned" => buffer = <<>>
  BY <1>1, AfterTurnType DEF FlushCall, CollectorInv
<1>3. OwedWereCaptured'
  <2>1. \A op \in Range(buffer) : fate[op] = "held"
    BY <1>1 DEF CollectorInv, OneHolder
  <2> QED
    BY <1>2, <2>1 DEF OwedWereCaptured, FlushCall
<1> QED
  BY <1>2, <1>3, BeginFlushStep DEF FlushCall, CollectorInv, TypeOK

(***************************************************************************)
(* send() settles: exactly the events of its batch leave the events held,  *)
(* and the loop goes on.                                                   *)
(***************************************************************************)
LEMMA SettleBatchStep ==
    ASSUME CollectorAssumption, CollectorInv,
           NEW batch \in inflight, NEW ok \in BOOLEAN, SettleBatch(batch, ok)
    PROVE  CollectorInv'
<1> USE DEF CollectorInv
<1>1. LoopTurn({batch}) /\ {batch} \in SUBSET inflight
  BY DEF SettleBatch
<1>2. /\ buffer' \in Seq(Ops)
      /\ inflight' \subseteq Seq(Ops)
      /\ shipped' \in [Ops -> 0..MaxStatements]
      /\ IsInjective(buffer')
      /\ \A b \in inflight' :
            /\ IsInjective(b)
            /\ Range(b) \intersect Range(buffer') = {}
            /\ \A other \in inflight' : Range(b) \intersect Range(other) # {} => b = other
      /\ Range(buffer') \subseteq Range(buffer)
      /\ Range(buffer') \union InFlight'
            = (Range(buffer) \union InFlight) \ UNION {Range(b) : b \in {batch}}
      /\ WithinLimits'
      /\ buffer' # <<>> => inflight' # {}
  BY <1>1, LoopTurnKeepsQueues
<1>3. Len(batch) \in Nat /\ Range(batch) \subseteq Ops
  BY LenProperties, RangeOfSeq DEF TypeOK
<1>4. Range(batch) \subseteq Range(buffer) \union InFlight
  BY DEF InFlight
<1>5. /\ \A op \in Range(batch) : fate[op] = "held" /\ fate'[op] \in {"sent", "dropped"}
      /\ \A op \in Ops \ Range(batch) : fate'[op] = fate[op]
      /\ fate' \in [Ops -> Fates]
  <2>1. \A op \in Range(batch) : fate[op] = "held"
    BY <1>3, <1>4 DEF OneHolder
  <2>2. fate' = [op \in Ops |-> IF op \in Range(batch)
                                THEN IF ok THEN "sent" ELSE "dropped"
                                ELSE fate[op]]
    BY DEF SettleBatch, Settled
  <2> QED
    BY <1>3, <2>1, <2>2 DEF TypeOK, Fates
<1>6. drain' \in Drains /\ drain'.owed = drain.owed
  <2>1. drain.owed \in SUBSET Ops
    BY DEF TypeOK, Drains
  <2> QED
    BY <2>1, AfterTurnType DEF SettleBatch, TypeOK
<1>7. TypeOK'
  <2>1. counters' \in Counters
    <3>1. SentCounters(Len(batch)) \in Counters
      BY <1>3, AddType DEF SentCounters, TypeOK
    <3>2. FailedCounters(Len(batch)) \in Counters
      BY <1>3, AddType DEF FailedCounters, TypeOK
    <3> QED
      BY <3>1, <3>2 DEF SettleBatch, Settled
  <2> QED
    BY <1>2, <1>5, <1>6, <2>1 DEF TypeOK, SettleBatch
<1>8. OneHolder'
  <2>1. Range(buffer') \union InFlight' = (Range(buffer) \union InFlight) \ Range(batch)
    BY <1>2
  <2>2. \A op \in Ops : fate'[op] = "held" <=> op \in Range(buffer') \union InFlight'
    BY <1>5, <2>1 DEF OneHolder
  <2> QED
    BY <1>2, <2>2 DEF OneHolder
<1>9. NoStrandedEvents'
  BY <1>2 DEF NoStrandedEvents
<1>10. FateFollowsPhase' /\ OwedWereCaptured'
  <2>1. phase' = phase
    BY DEF SettleBatch
  <2>2. drain.owed \subseteq Ops
    BY DEF TypeOK, Drains
  <2> QED
    BY <1>5, <1>6, <2>1, <2>2 DEF FateFollowsPhase, OwedWereCaptured
<1>11. ReturnedFlushEmptied'
  <2>1. CASE drain' = drain
    BY <1>2, <2>1 DEF ReturnedFlushEmptied
  <2>2. CASE drain' = AfterTurn(drain.owed)
    <3>1. drain'.status = "returned" => buffer = <<>>
      BY <2>2, AfterTurnType DEF TypeOK, Drains
    <3> QED
      BY <1>2, <3>1, RangeEmpty DEF ReturnedFlushEmptied
  <2> QED
    BY <2>1, <2>2 DEF SettleBatch
<1> QED
  BY <1>2, <1>7, <1>8, <1>9, <1>10, <1>11
----------------------------------------------------------------------------
(***************************************************************************)
(* The invariant holds in every state of the collector.                    *)
(***************************************************************************)
LEMMA CollectorInvInit == Init => CollectorInv
<1> SUFFICES ASSUME Init
             PROVE  CollectorInv
  OBVIOUS
<1> USE DEF Init
<1>1. TypeOK
  <2>1. <<>> \in Seq(Ops)
    BY EmptySeq
  <2>2. drain \in Drains
    BY <2>1 DEF Drains, NoDrain
  <2>3. counters \in Counters
    BY DEF Counters
  <2>4. \A op \in Ops : "idle" \in Phases /\ "none" \in Fates /\ 0 \in 0..MaxStatements
    BY CollectorAssumption DEF CollectorAssumption, Phases, Fates
  <2> QED
    BY <2>1, <2>2, <2>3, <2>4 DEF TypeOK
<1>2. OneHolder
  BY RangeEmpty DEF OneHolder, InFlight, IsInjective
<1>3. WithinLimits
  BY CollectorAssumption, EmptySeq DEF WithinLimits, CollectorAssumption
<1>4. NoStrandedEvents /\ FateFollowsPhase /\ OwedWereCaptured /\ ReturnedFlushEmptied
  BY DEF NoStrandedEvents, FateFollowsPhase, OwedWereCaptured, ReturnedFlushEmptied, NoDrain
<1> QED
  BY <1>1, <1>2, <1>3, <1>4 DEF CollectorInv

LEMMA CollectorInvStep == CollectorInv /\ [Next]_vars => CollectorInv'
<1> SUFFICES ASSUME CollectorInv, [Next]_vars
             PROVE  CollectorInv'
  OBVIOUS
<1>1. ASSUME NEW op \in Ops, StartOp(op)
      PROVE  CollectorInv'
  BY <1>1, StartOpStep
<1>2. ASSUME NEW op \in Ops, RecordStatement(op)
      PROVE  CollectorInv'
  BY <1>2, RecordStatementStep, CollectorAssumption
<1>3. ASSUME NEW op \in Ops, FinishOp(op)
      PROVE  CollectorInv'
  <2>1. CASE Overflow(op)
    BY <1>3, <2>1, OverflowStep, CollectorAssumption
  <2>2. CASE Enqueue(op)
    BY <1>3, <2>2, EnqueueStep, CollectorAssumption
  <2> QED
    BY <1>3, <2>1, <2>2 DEF FinishOp
<1>4. CASE TimerFire
  BY <1>4, BeginFlushStep, CollectorAssumption
  DEF TimerFire, CollectorInv, TypeOK, OwedWereCaptured
<1>5. CASE ImmediateFire
  <2>1. immediates' \in Nat
    BY <1>5 DEF ImmediateFire, CollectorInv, TypeOK
  <2> QED
    BY <1>5, <2>1, BeginFlushStep, CollectorAssumption
    DEF ImmediateFire, CollectorInv, TypeOK, OwedWereCaptured
<1>6. CASE FlushCall
  BY <1>6, FlushCallStep, CollectorAssumption
<1>7. ASSUME NEW batch \in inflight, NEW ok \in BOOLEAN, SettleBatch(batch, ok)
      PROVE  CollectorInv'
  BY <1>7, SettleBatchStep, CollectorAssumption
<1>8. CASE Exit \/ UNCHANGED vars
  <2>1. /\ up' \in BOOLEAN
        /\ UNCHANGED <<phase, statements, queueVars, counters, drain, fate, ended, shipped>>
    BY <1>8 DEF Exit, vars, CollectorInv, TypeOK
  <2> USE <2>1 DEF CollectorInv, queueVars
  <2>2. TypeOK'
    BY DEF TypeOK
  <2>3. OneHolder' /\ WithinLimits' /\ NoStrandedEvents'
    BY DEF OneHolder, WithinLimits, NoStrandedEvents, InFlight
  <2>4. FateFollowsPhase' /\ OwedWereCaptured' /\ ReturnedFlushEmptied'
    BY DEF FateFollowsPhase, OwedWereCaptured, ReturnedFlushEmptied
  <2> QED
    BY <2>2, <2>3, <2>4
<1> QED
  BY <1>1, <1>2, <1>3, <1>4, <1>5, <1>6, <1>7, <1>8 DEF Next, RequestPath, Delivery

(* In any order of track, timers, flushes and answers, events, holders,    *)
(* timers and suspended flushes fit together.                              *)
THEOREM CollectorInvariance == Spec => []CollectorInv
BY CollectorInvInit, CollectorInvStep, PTL DEF Spec

(* Every variable keeps its type. *)
THEOREM CollectorTypeCorrect == Spec => []TypeOK
BY CollectorInvariance, PTL DEF CollectorInv

(***************************************************************************)
(* No buffered event is ever without a timer, a queued immediate or a      *)
(* suspended flush that will take it (emit, flush, clearTimer).            *)
(***************************************************************************)
THEOREM NothingStranded == Spec => []NoStrandedEvents
BY CollectorInvariance, PTL DEF CollectorInv

(***************************************************************************)
(* A held event is in exactly one place, however many flushes are          *)
(* suspended: no event is sent twice and none is lost between two of them. *)
(***************************************************************************)
THEOREM HeldOnce == Spec => []OneHolder
BY CollectorInvariance, PTL DEF CollectorInv

(* The buffer and every request stay within maxBuffer and maxBatch. *)
THEOREM LimitsHold == Spec => []WithinLimits
BY CollectorInvariance, PTL DEF CollectorInv

(***************************************************************************)
(* An awaited flush() that has returned left nothing of what it found in   *)
(* the buffer.                                                             *)
(***************************************************************************)
THEOREM FlushEmpties == Spec => []ReturnedFlushEmptied
BY CollectorInvariance, PTL DEF CollectorInv
----------------------------------------------------------------------------
(* The collector implements the ledger. *)

(* The instance of FiniteSets inside Ledger is the same theory. *)
LEMMA SameCardinality ==
    \A S : /\ Ledger!Cardinality(S) = Cardinality(S)
           /\ Ledger!IsFiniteSet(S) <=> IsFiniteSet(S)
BY DEF Ledger!Cardinality, Cardinality, Ledger!IsFiniteSet, IsFiniteSet

(* An overflow is a refusal: the buffer alone holds MaxBuffer events. *)
LEMMA OverflowRefuses ==
    ASSUME CollectorInv, NEW op \in Ops, FinishOp(op), Overflow(op)
    PROVE  Ledger!Refuse(op)
<1>1. fate[op] = "none" /\ fate' = [fate EXCEPT ![op] = "dropped"]
  BY DEF FinishOp, Overflow, CollectorInv, FateFollowsPhase
<1>2. Cardinality(Ledger!Having("held")) >= MaxBuffer
  <2>1. /\ Cardinality(Range(buffer)) = Len(buffer)
        /\ Range(buffer) \in SUBSET Ledger!Having("held")
    BY InjectiveSize, RangeOfSeq DEF CollectorInv, TypeOK, OneHolder, Ledger!Having
  <2>2. IsFiniteSet(Ledger!Having("held"))
    BY CollectorAssumption, FS_Subset DEF CollectorAssumption, Ledger!Having
  <2>3. Cardinality(Range(buffer)) <= Cardinality(Ledger!Having("held"))
    BY <2>1, <2>2, FS_Subset
  <2>4. /\ Len(buffer) \in Nat
        /\ Cardinality(Ledger!Having("held")) \in Nat
        /\ MaxBuffer \in Nat
        /\ Len(buffer) >= MaxBuffer
    BY <2>2, FS_CardinalityType, LenProperties, CollectorAssumption
    DEF CollectorInv, TypeOK, CollectorAssumption, Overflow, BufferFull
  <2> QED
    BY <2>1, <2>3, <2>4
<1>3. counters' = Ledger!Add(Ledger!Add(counters, "captured", 1), "dropped", 1)
  BY DEF Overflow, Add, Ledger!Add
<1> QED
  BY <1>1, <1>2, <1>3, SameCardinality DEF Ledger!Refuse

(* An event that is pushed is a capture. *)
LEMMA EnqueueCaptures ==
    ASSUME CollectorInv, NEW op \in Ops, FinishOp(op), Enqueue(op)
    PROVE  Ledger!Capture(op)
BY DEF FinishOp, Enqueue, CollectorInv, FateFollowsPhase, Add, Ledger!Add, Ledger!Capture

(* The settled batch, as a set, is a request the ledger settles. *)
LEMMA SettleSettles ==
    ASSUME CollectorInv, NEW batch \in inflight, NEW ok \in BOOLEAN, SettleBatch(batch, ok)
    PROVE  /\ Range(batch) \in SUBSET Ledger!Having("held")
           /\ Ledger!Settle(Range(batch))
           /\ ~ok => Ledger!Lose(Range(batch))
<1>1. /\ Cardinality(Range(batch)) = Len(batch)
      /\ IsFiniteSet(Range(batch))
      /\ Range(batch) \subseteq Ops
      /\ Len(batch) \in 1..MaxBatch
  BY InjectiveSize, RangeOfSeq DEF CollectorInv, TypeOK, OneHolder, WithinLimits
<1>2. Range(batch) \in SUBSET Ledger!Having("held")
  BY <1>1 DEF CollectorInv, OneHolder, InFlight, Ledger!Having
<1>3. Range(batch) # {} /\ Cardinality(Range(batch)) <= MaxBatch
  BY <1>1, FS_EmptySet, CollectorAssumption DEF CollectorAssumption
<1>4. CASE ok
  <2>1. fate' = Ledger!Outcome(Range(batch), "sent")
    BY <1>4 DEF SettleBatch, Settled, Ledger!Outcome
  <2>2. counters' = Ledger!Add(counters, "sent", Cardinality(Range(batch)))
    BY <1>1, <1>4 DEF SettleBatch, Settled, SentCounters, Add, Ledger!Add
  <2> QED
    BY <1>2, <1>3, <1>4, <2>1, <2>2, SameCardinality DEF Ledger!Settle, Ledger!Deliver
<1>5. CASE ~ok
  <2>1. fate' = Ledger!Outcome(Range(batch), "dropped")
    BY <1>5 DEF SettleBatch, Settled, Ledger!Outcome
  <2>2. counters' = Ledger!Add(Ledger!Add(counters, "failedBatches", 1), "dropped",
                               Cardinality(Range(batch)))
    BY <1>1, <1>5 DEF SettleBatch, Settled, FailedCounters, Add, Ledger!Add
  <2> QED
    BY <1>2, <1>3, <2>1, <2>2, SameCardinality DEF Ledger!Settle, Ledger!Lose
<1> QED
  BY <1>4, <1>5

LEMMA InitIsLedgerInit == Init => Ledger!LedgerInit
BY DEF Init, Ledger!LedgerInit, Ledger!Zero

LEMMA StepIsLedgerStep ==
    CollectorInv /\ [Next]_vars => [Ledger!LedgerNext]_(Ledger!ledgerVars)
<1> SUFFICES ASSUME CollectorInv, [Next]_vars
             PROVE  Ledger!LedgerNext \/ UNCHANGED <<fate, counters>>
  BY DEF Ledger!ledgerVars
<1>1. ASSUME NEW op \in Ops, StartOp(op) \/ RecordStatement(op)
      PROVE  UNCHANGED <<fate, counters>>
  BY <1>1 DEF StartOp, RecordStatement
<1>2. ASSUME NEW op \in Ops, FinishOp(op)
      PROVE  Ledger!LedgerNext
  <2>1. CASE Overflow(op)
    BY <1>2, <2>1, OverflowRefuses DEF Ledger!LedgerNext
  <2>2. CASE Enqueue(op)
    BY <1>2, <2>2, EnqueueCaptures DEF Ledger!LedgerNext
  <2> QED
    BY <1>2, <2>1, <2>2 DEF FinishOp
<1>3. CASE TimerFire \/ ImmediateFire \/ FlushCall \/ Exit \/ UNCHANGED vars
  BY <1>3 DEF TimerFire, ImmediateFire, FlushCall, Exit, vars
<1>4. ASSUME NEW batch \in inflight, NEW ok \in BOOLEAN, SettleBatch(batch, ok)
      PROVE  Ledger!LedgerNext
  BY <1>4, SettleSettles DEF Ledger!LedgerNext
<1> QED
  BY <1>1, <1>2, <1>3, <1>4 DEF Next, RequestPath, Delivery

(***************************************************************************)
(* Every behaviour of the collector is a behaviour of EventLedger: events  *)
(* are dropped only on overflow or with their failed request, settled      *)
(* once, in requests of at most maxBatch, and counted.                     *)
(***************************************************************************)
THEOREM CollectorImplementsLedger == Spec => ImplementsLedger
<1>1. Spec => Ledger!LedgerInit /\ [][Ledger!LedgerNext]_(Ledger!ledgerVars)
  BY CollectorInvariance, InitIsLedgerInit, StepIsLedgerStep, PTL DEF Spec
<1> QED
  BY <1>1 DEF ImplementsLedger, Ledger!LedgerSpec

(***************************************************************************)
(* stats() is exact in every state, by the ledger's own theorem.           *)
(***************************************************************************)
THEOREM StatsExact == Spec => []StatsAreExact
<1>1. Ledger!LedgerConstants
  BY CollectorAssumption, SameCardinality DEF CollectorAssumption, Ledger!LedgerConstants
<1>2. Ledger!LedgerSpec => []Ledger!Accounted
  BY <1>1, Ledger!LedgerAccounted
<1> QED
  BY <1>2, CollectorImplementsLedger, PTL DEF ImplementsLedger, StatsAreExact
============================================================================
