--------------------------- MODULE DeliveryLedger ---------------------------
(***************************************************************************)
(* What collector and collector service promise together: the EventLedger  *)
(* of the application, and next to it the results database, in which       *)
(* operations appear a request at a time, complete, once and for good, and *)
(* before they count as sent.  How requests travel, and how often, is left *)
(* to module RuntimePipeline, which implements this one.                   *)
(***************************************************************************)
EXTENDS EventLedger

VARIABLES
    ended,      \* statements an operation had executed when it ended
    operation,  \* the operations that are stored
    statement   \* the statements stored of each operation

stores == <<operation, statement>>
deliveryVars == <<ledgerVars, ended, stores>>

DeliveryInit ==
    /\ LedgerInit
    /\ ended = [op \in Ops |-> 0]
    /\ operation = {}
    /\ statement = [op \in Ops |-> 0]

(* An operation ends; statements may be recorded of it until it is sent.   *)
EndOperation(op) ==
    /\ Capture(op) \/ Refuse(op)
    /\ ended'[op] \in Nat /\ ended' = [ended EXCEPT ![op] = ended'[op]]
    /\ UNCHANGED stores

(* Events settle as in the ledger, as sent only if they are stored.        *)
SettleStored(S) ==
    /\ Settle(S)
    /\ S \subseteq operation \/ Lose(S)
    /\ UNCHANGED <<ended, stores>>

(* A request is stored whole, and with all its operations had executed;    *)
(* its events may have been given up already.                              *)
Store(S) ==
    /\ S # {} /\ Cardinality(S) <= MaxBatch
    /\ S \intersect (operation \union Having("none")) = {}
    /\ operation' = operation \union S
    /\ statement' = [op \in Ops |-> IF op \in S THEN statement'[op] ELSE statement[op]]
    /\ \A op \in S : statement'[op] \in Nat /\ statement'[op] >= ended[op]
    /\ UNCHANGED <<ledgerVars, ended>>

DeliveryNext ==
    \/ \E op \in Ops : EndOperation(op)
    \/ \E S \in SUBSET Having("held") : SettleStored(S)
    \/ \E S \in SUBSET Ops : Store(S)

DeliverySpec == DeliveryInit /\ [][DeliveryNext]_deliveryVars
=============================================================================
