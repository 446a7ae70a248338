---------------------------- MODULE EventLedger ----------------------------
(***************************************************************************)
(* What @dbinsight/collector promises about the events of one process,     *)
(* seen from CollectorStats: every captured operation is held, and a held  *)
(* operation is settled exactly once, as sent or as dropped; an operation  *)
(* may be refused (captured and dropped in one step) only while at least   *)
(* MaxBuffer operations are held; the counters never disagree with the     *)
(* outcomes.  How events are buffered, batched and flushed is left to      *)
(* module Collector, which implements this one.                            *)
(***************************************************************************)
EXTENDS Integers, FiniteSets, FiniteSetTheorems, TLAPS

CONSTANTS
    Ops,        \* Prisma operations, each identified by its operationId
    MaxBatch,   \* events delivered in one request
    MaxBuffer   \* events that may wait before new ones are dropped

LedgerConstants ==
    /\ IsFiniteSet(Ops)
    /\ MaxBatch \in Nat \ {0}
    /\ MaxBuffer \in Nat

VARIABLES
    fate,       \* what became of each operation
    counters    \* CollectorStats without `buffered`

ledgerVars == <<fate, counters>>

Fates == {"none", "held", "sent", "dropped"}
Having(f) == {op \in Ops : fate[op] = f}

Counters == [captured : Nat, sent : Nat, dropped : Nat, failedBatches : Nat]
Zero == [captured |-> 0, sent |-> 0, dropped |-> 0, failedBatches |-> 0]

LedgerTypeOK ==
    /\ fate \in [Ops -> Fates]
    /\ counters \in Counters

(* c with n more events counted under one name. *)
Add(c, name, n) == [c EXCEPT ![name] = @ + n]

LedgerInit ==
    /\ fate = [op \in Ops |-> "none"]
    /\ counters = Zero

(* An operation ends and its event is kept. *)
Capture(op) ==
    /\ fate[op] = "none"
    /\ fate' = [fate EXCEPT ![op] = "held"]
    /\ counters' = Add(counters, "captured", 1)

(* An operation ends while too many events are waiting: it is dropped. *)
Refuse(op) ==
    /\ fate[op] = "none"
    /\ Cardinality(Having("held")) >= MaxBuffer
    /\ fate' = [fate EXCEPT ![op] = "dropped"]
    /\ counters' = Add(Add(counters, "captured", 1), "dropped", 1)

Outcome(S, f) == [op \in Ops |-> IF op \in S THEN f ELSE fate[op]]

(* One request of at most MaxBatch events was accepted, or failed. *)
Deliver(S) ==
    /\ fate' = Outcome(S, "sent")
    /\ counters' = Add(counters, "sent", Cardinality(S))

Lose(S) ==
    /\ fate' = Outcome(S, "dropped")
    /\ counters' = Add(Add(counters, "failedBatches", 1), "dropped", Cardinality(S))

Settle(S) ==
    /\ S # {}
    /\ Cardinality(S) <= MaxBatch
    /\ Deliver(S) \/ Lose(S)

LedgerNext ==
    \/ \E op \in Ops : Capture(op) \/ Refuse(op)
    \/ \E S \in SUBSET Having("held") : Settle(S)

LedgerSpec == LedgerInit /\ [][LedgerNext]_ledgerVars

(***************************************************************************)
(* The counters are exactly the number of operations with each outcome:    *)
(* nothing captured is ever unaccounted for, whatever order flushes settle *)
(* in (Collector.stats).                                                   *)
(***************************************************************************)
Accounted ==
    /\ counters.sent = Cardinality(Having("sent"))
    /\ counters.dropped = Cardinality(Having("dropped"))
    /\ counters.captured = counters.sent + counters.dropped + Cardinality(Having("held"))
    /\ counters.failedBatches <= counters.dropped
----------------------------------------------------------------------------
(* Sets of operations are finite, and the outcomes are disjoint. *)
LEMMA HavingFinite ==
    ASSUME LedgerConstants, NEW S, S \subseteq Ops
    PROVE  IsFiniteSet(S) /\ Cardinality(S) \in Nat
BY FS_Subset, FS_CardinalityType DEF LedgerConstants

(* Adding to one counter leaves the others as they are. *)
LEMMA AddCounts ==
    ASSUME NEW c \in Counters, NEW n \in Nat,
           NEW name \in {"captured", "sent", "dropped", "failedBatches"}
    PROVE  /\ Add(c, name, n) \in Counters
           /\ Add(c, name, n)[name] = c[name] + n
           /\ \A other \in {"captured", "sent", "dropped", "failedBatches"} \ {name} :
                 Add(c, name, n)[other] = c[other]
BY DEF Counters, Add

(* The counters after each kind of step. *)
LEMMA CountersAfter ==
    ASSUME NEW c \in Counters, NEW n \in Nat
    PROVE  /\ LET d == Add(c, "captured", 1)
              IN  /\ d.captured = c.captured + 1
                  /\ d.sent = c.sent
                  /\ d.dropped = c.dropped
                  /\ d.failedBatches = c.failedBatches
           /\ LET d == Add(Add(c, "captured", 1), "dropped", 1)
              IN  /\ d.captured = c.captured + 1
                  /\ d.sent = c.sent
                  /\ d.dropped = c.dropped + 1
                  /\ d.failedBatches = c.failedBatches
           /\ LET d == Add(c, "sent", n)
              IN  /\ d.captured = c.captured
                  /\ d.sent = c.sent + n
                  /\ d.dropped = c.dropped
                  /\ d.failedBatches = c.failedBatches
           /\ LET d == Add(Add(c, "failedBatches", 1), "dropped", n)
              IN  /\ d.captured = c.captured
                  /\ d.sent = c.sent
                  /\ d.dropped = c.dropped + n
                  /\ d.failedBatches = c.failedBatches + 1
BY DEF Counters, Add

(* The ledger's values keep their types. *)
THEOREM LedgerTypeCorrect ==
    ASSUME LedgerConstants
    PROVE  LedgerSpec => []LedgerTypeOK
<1>1. LedgerInit => LedgerTypeOK
  BY DEF LedgerInit, LedgerTypeOK, Fates, Zero, Counters
<1>2. LedgerTypeOK /\ [LedgerNext]_ledgerVars => LedgerTypeOK'
  <2> SUFFICES ASSUME LedgerTypeOK, [LedgerNext]_ledgerVars
               PROVE  LedgerTypeOK'
    OBVIOUS
  <2> USE DEF LedgerTypeOK, Fates
  <2>1. ASSUME NEW op \in Ops, Capture(op) \/ Refuse(op)
        PROVE  LedgerTypeOK'
    <3>1. fate' \in [Ops -> Fates]
      BY <2>1 DEF Capture, Refuse
    <3>2. counters' \in Counters
      <4>1. CASE Capture(op)
        BY <4>1, AddCounts DEF Capture
      <4>2. CASE Refuse(op)
        BY <4>2, AddCounts DEF Refuse
      <4> QED
        BY <2>1, <4>1, <4>2
    <3> QED
      BY <3>1, <3>2
  <2>2. ASSUME NEW S \in SUBSET Having("held"), Settle(S)
        PROVE  LedgerTypeOK'
    <3>1. Cardinality(S) \in Nat
      BY HavingFinite DEF Having
    <3>2. fate' \in [Ops -> Fates]
      BY <2>2 DEF Settle, Deliver, Lose, Outcome
    <3>3. counters' \in Counters
      <4>1. CASE Deliver(S)
        BY <3>1, <4>1, AddCounts DEF Deliver
      <4>2. CASE Lose(S)
        BY <3>1, <4>2, AddCounts DEF Lose
      <4> QED
        BY <2>2, <4>1, <4>2 DEF Settle
    <3> QED
      BY <3>2, <3>3
  <2>3. CASE UNCHANGED ledgerVars
    BY <2>3 DEF ledgerVars
  <2> QED
    BY <2>1, <2>2, <2>3 DEF LedgerNext
<1> QED
  BY <1>1, <1>2, PTL DEF LedgerSpec

(* One operation gets its outcome: the set of that outcome grows by one,   *)
(* the others stay as they are.                                            *)
LEMMA OneMore ==
    ASSUME LedgerConstants, LedgerTypeOK, NEW op \in Ops, fate[op] = "none",
           NEW f \in {"held", "sent", "dropped"}, fate' = [fate EXCEPT ![op] = f]
    PROVE  /\ Cardinality(Having(f)') = Cardinality(Having(f)) + 1
           /\ \A g \in {"held", "sent", "dropped"} \ {f} : Having(g)' = Having(g)
<1>1. Having(f)' = Having(f) \union {op} /\ op \notin Having(f)
  BY DEF Having, LedgerTypeOK, Fates
<1>2. IsFiniteSet(Having(f))
  BY HavingFinite DEF Having
<1> QED
  BY <1>1, <1>2, FS_AddElement DEF Having, LedgerTypeOK, Fates

(* A set of held operations moves to one outcome. *)
LEMMA Moved ==
    ASSUME LedgerConstants, LedgerTypeOK, NEW S \in SUBSET Having("held"),
           NEW f \in {"sent", "dropped"}, fate' = Outcome(S, f)
    PROVE  /\ Cardinality(Having(f)') = Cardinality(Having(f)) + Cardinality(S)
           /\ Cardinality(Having("held")') = Cardinality(Having("held")) - Cardinality(S)
           /\ \A g \in {"sent", "dropped"} \ {f} : Having(g)' = Having(g)
<1>1. /\ Having(f)' = Having(f) \union S
      /\ Having(f) \intersect S = {}
      /\ Having("held")' = Having("held") \ S
      /\ Having("held") \intersect S = S
  BY DEF Having, Outcome, LedgerTypeOK, Fates
<1>2. IsFiniteSet(Having(f)) /\ IsFiniteSet(S) /\ IsFiniteSet(Having("held"))
  BY HavingFinite DEF Having
<1>3. /\ Cardinality(Having(f)) \in Nat
      /\ Cardinality(S) \in Nat
      /\ Cardinality(Having("held")) \in Nat
  BY HavingFinite DEF Having
<1>4. Cardinality(Having(f)') = Cardinality(Having(f)) + Cardinality(S)
  <2>1. Cardinality(Having(f) \union S)
          = Cardinality(Having(f)) + Cardinality(S) - Cardinality({})
    BY <1>1, <1>2, FS_Union
  <2> QED
    BY <2>1, <1>1, <1>3, FS_EmptySet
<1>5. Cardinality(Having("held")') = Cardinality(Having("held")) - Cardinality(S)
  BY <1>1, <1>2, FS_Difference
<1>6. \A g \in {"sent", "dropped"} \ {f} : Having(g)' = Having(g)
  BY DEF Having, Outcome, LedgerTypeOK, Fates
<1> QED
  BY <1>4, <1>5, <1>6

(***************************************************************************)
(* Accounted is inductive: a capture adds one to both sides, a settled     *)
(* request moves its size from held to sent or dropped.                    *)
(***************************************************************************)
THEOREM LedgerAccounted ==
    ASSUME LedgerConstants
    PROVE  LedgerSpec => []Accounted
<1>1. LedgerInit => Accounted
  <2> SUFFICES ASSUME LedgerInit
               PROVE  Accounted
    OBVIOUS
  <2>1. \A f \in Fates \ {"none"} : Having(f) = {}
    BY DEF LedgerInit, Having, Fates
  <2> QED
    BY <2>1, FS_EmptySet DEF LedgerInit, Zero, Accounted, Fates
<1>2. LedgerTypeOK /\ Accounted /\ [LedgerNext]_ledgerVars => Accounted'
  <2> SUFFICES ASSUME LedgerTypeOK, Accounted, [LedgerNext]_ledgerVars
               PROVE  Accounted'
    OBVIOUS
  <2>0. /\ Cardinality(Having("held")) \in Nat
        /\ Cardinality(Having("sent")) \in Nat
        /\ Cardinality(Having("dropped")) \in Nat
    BY HavingFinite DEF Having
  <2>1. ASSUME NEW op \in Ops, Capture(op)
        PROVE  Accounted'
    <3>1. /\ Cardinality(Having("held")') = Cardinality(Having("held")) + 1
          /\ Having("sent")' = Having("sent")
          /\ Having("dropped")' = Having("dropped")
      BY <2>1, OneMore DEF Capture
    <3>2. /\ counters'.captured = counters.captured + 1
          /\ counters'.sent = counters.sent
          /\ counters'.dropped = counters.dropped
          /\ counters'.failedBatches = counters.failedBatches
      BY <2>1, CountersAfter DEF Capture, LedgerTypeOK
    <3> QED
      BY <2>0, <3>1, <3>2 DEF Accounted, LedgerTypeOK, Counters
  <2>2. ASSUME NEW op \in Ops, Refuse(op)
        PROVE  Accounted'
    <3>1. /\ Cardinality(Having("dropped")') = Cardinality(Having("dropped")) + 1
          /\ Having("sent")' = Having("sent")
          /\ Having("held")' = Having("held")
      BY <2>2, OneMore DEF Refuse
    <3>2. /\ counters'.captured = counters.captured + 1
          /\ counters'.sent = counters.sent
          /\ counters'.dropped = counters.dropped + 1
          /\ counters'.failedBatches = counters.failedBatches
      BY <2>2, CountersAfter DEF Refuse, LedgerTypeOK
    <3> QED
      BY <2>0, <3>1, <3>2 DEF Accounted, LedgerTypeOK, Counters
  <2>3. ASSUME NEW S \in SUBSET Having("held"), Settle(S)
        PROVE  Accounted'
    <3>1. Cardinality(S) \in Nat /\ Cardinality(S) # 0
      BY <2>3, HavingFinite, FS_EmptySet DEF Settle, Having
    <3>2. CASE Deliver(S)
      <4>1. /\ Cardinality(Having("sent")') = Cardinality(Having("sent")) + Cardinality(S)
            /\ Cardinality(Having("held")') = Cardinality(Having("held")) - Cardinality(S)
            /\ Having("dropped")' = Having("dropped")
        BY <3>2, Moved DEF Deliver
      <4>2. /\ counters'.sent = counters.sent + Cardinality(S)
            /\ counters'.dropped = counters.dropped
            /\ counters'.captured = counters.captured
            /\ counters'.failedBatches = counters.failedBatches
        BY <3>1, <3>2, CountersAfter DEF Deliver, LedgerTypeOK
      <4> QED
        BY <2>0, <3>1, <4>1, <4>2 DEF Accounted, LedgerTypeOK, Counters
    <3>3. CASE Lose(S)
      <4>1. /\ Cardinality(Having("dropped")')
                 = Cardinality(Having("dropped")) + Cardinality(S)
            /\ Cardinality(Having("held")') = Cardinality(Having("held")) - Cardinality(S)
            /\ Having("sent")' = Having("sent")
        BY <3>3, Moved DEF Lose
      <4>2. /\ counters'.sent = counters.sent
            /\ counters'.dropped = counters.dropped + Cardinality(S)
            /\ counters'.captured = counters.captured
            /\ counters'.failedBatches = counters.failedBatches + 1
        BY <3>1, <3>3, CountersAfter DEF Lose, LedgerTypeOK
      <4> QED
        BY <2>0, <3>1, <4>1, <4>2 DEF Accounted, LedgerTypeOK, Counters
    <3> QED
      BY <2>3, <3>2, <3>3 DEF Settle
  <2>4. CASE UNCHANGED ledgerVars
    BY <2>4 DEF ledgerVars, Accounted, Having
  <2> QED
    BY <2>1, <2>2, <2>3, <2>4 DEF LedgerNext
<1> QED
  BY <1>1, <1>2, LedgerTypeCorrect, PTL DEF LedgerSpec
============================================================================
