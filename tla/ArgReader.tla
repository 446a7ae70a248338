----------------------------- MODULE ArgReader -----------------------------
(***************************************************************************)
(* packages/core/src/analyze/orm-calls.ts: what readObject learns of the   *)
(* argument of a Prisma call, and the two rules that report the absence of *)
(* a key: R3 (unbounded-mutation.ts) and R5 (missing-pagination.ts).       *)
(*                                                                         *)
(* Arguments are built bottom up, like a postfix program.  An expression   *)
(* is represented by what readObject returns for it at each depth and by   *)
(* the objects it can be at run time, conditions being independent.        *)
(* Objects held by a const are not changed after their declaration.        *)
(***************************************************************************)
EXTENDS Integers, Sequences

CONSTANTS
    MAX_RESOLVE_DEPTH,      \* 3 in the code
    MaxNodes,               \* bound: syntax nodes of an argument
    MaxPending              \* bound: expressions waiting to be combined

ASSUME ArgAssumption == MAX_RESOLVE_DEPTH \in Nat /\ MaxNodes \in Nat /\ MaxPending \in Nat

VARIABLES pending, nodes

argVars == <<pending, nodes>>

(* "page" stands for take, skip and cursor; "other" for every other key.   *)
Keys == {"where", "page", "other"}

(* How a value reads: an empty object or undefined, an object with keys,   *)
(* or nothing that can be read.                                            *)
Values == {"empty", "full", "opaque"}

Objects == UNION {[K -> Values] : K \in SUBSET Keys}

NoKeys == [k \in {} |-> "empty"]

(* The keys of `over` replace those of `under`.                            *)
Merge(under, over) ==
    [k \in DOMAIN under \union DOMAIN over |->
        IF k \in DOMAIN over THEN over[k] ELSE under[k]]

Depths == 0..(MAX_RESOLVE_DEPTH + 1)

(* reads[d] has one element, or none where readObject returns undefined.   *)
Expression ==
    [literal : BOOLEAN, reads : [Depths -> SUBSET Objects], gives : SUBSET Objects]

(* Beyond the limit nothing is read.                                       *)
AtDepth(d, read) == IF d > MAX_RESOLVE_DEPTH THEN {} ELSE read

Literal(reads, gives) == [literal |-> TRUE, reads |-> reads, gives |-> gives]
Other(reads, gives) == [literal |-> FALSE, reads |-> reads, gives |-> gives]

EmptyLiteral == Literal([d \in Depths |-> AtDepth(d, {NoKeys})], {NoKeys})

(* undefined and null: no keys.                                            *)
Nothing == Other([d \in Depths |-> AtDepth(d, {NoKeys})], {NoKeys})

(* A parameter, a call, a let, an object with a computed key, `a ?? b`.    *)
Opaque == Other([d \in Depths |-> {}], Objects)

WithProperty(e, key, value) ==
    LET one == [k \in {key} |-> value]
    IN Literal([d \in Depths |-> {Merge(o, one) : o \in e.reads[d]}],
               {Merge(o, one) : o \in e.gives})

WithSpread(e, s) ==
    Literal([d \in Depths |-> AtDepth(d, {Merge(o, p) : o \in e.reads[d], p \in s.reads[d + 1]})],
            {Merge(o, p) : o \in e.gives, p \in s.gives})

(* Mutant of Conditional: the other branch is not read.                    *)
Conditional_FirstOnly(t, f) ==
    Other([d \in Depths |-> AtDepth(d, t.reads[d + 1])], t.gives \union f.gives)

(* `c ? t : f`: the union of the keys, the values of the first branch.     *)
Conditional(t, f) ==
    Other([d \in Depths |-> AtDepth(d, {Merge(p, o) : o \in t.reads[d + 1], p \in f.reads[d + 1]})],
          t.gives \union f.gives)

(* `c && e`                                                                *)
Guarded(e) == Other([d \in Depths |-> AtDepth(d, e.reads[d + 1])], {NoKeys} \union e.gives)

(* The name of a const initialised with e.                                 *)
ConstName(e) == Other([d \in Depths |-> AtDepth(d, e.reads[d + 1])], e.gives)

ArgInit == pending = <<>> /\ nodes = 0

Count == nodes < MaxNodes /\ nodes' = nodes + 1

Top == pending[Len(pending)]
Below == pending[Len(pending) - 1]
Drop(n) == SubSeq(pending, 1, Len(pending) - n)

Push ==
    /\ Count
    /\ Len(pending) < MaxPending
    /\ \E e \in {EmptyLiteral, Nothing, Opaque} : pending' = Append(pending, e)

Wrap ==
    /\ Count
    /\ pending # <<>>
    /\ \E e \in {Guarded(Top), ConstName(Top)} : pending' = Append(Drop(1), e)

AddProperty ==
    /\ Count
    /\ pending # <<>> /\ Top.literal
    /\ \E key \in Keys, value \in Values :
          pending' = Append(Drop(1), WithProperty(Top, key, value))

Combine ==
    /\ Count
    /\ Len(pending) >= 2
    /\ \/ pending' = Append(Drop(2), Conditional(Below, Top))
       \/ Below.literal /\ pending' = Append(Drop(2), WithSpread(Below, Top))

ArgNext == Push \/ Wrap \/ AddProperty \/ Combine

ArgSpec == ArgInit /\ [][ArgNext]_argVars

-----------------------------------------------------------------------------

(* readArgs: the argument is read from depth 0.                            *)
ArgsResolved(e) == e.reads[0] # {}
Has(e, key) == \E o \in e.reads[0] : key \in DOMAIN o
(* Mutant of WhereEmpty: a where that cannot be read counts as empty.      *)
WhereEmpty_Unread(e) ==
    \E o \in e.reads[0] : "where" \in DOMAIN o /\ o["where"] # "full"

WhereEmpty(e) == \E o \in e.reads[0] : "where" \in DOMAIN o /\ o["where"] = "empty"

(* R5 on a findMany; R3 on a deleteMany or updateMany and its confidence.  *)
MissingPagination(e) == ArgsResolved(e) /\ ~Has(e, "page")
UnboundedMutation(e) == ArgsResolved(e) /\ (~Has(e, "where") \/ WhereEmpty(e))
Confidence(e) == IF ~Has(e, "where") THEN "HIGH" ELSE "MEDIUM"

Arguments == {pending[i] : i \in 1..Len(pending)}

(* A run of the call with this object restricts no row.  *)
RestrictsNothing(o) == "where" \notin DOMAIN o \/ o["where"] = "empty"

(* What is reported as absent is absent from every run of the call: behind *)
(* spreads, conditions and names, and where the reader gives up.           *)
AbsenceIsReal ==
    \A e \in Arguments : \A o \in e.gives :
       /\ MissingPagination(e) => "page" \notin DOMAIN o
       /\ UnboundedMutation(e) /\ Confidence(e) = "HIGH" => "where" \notin DOMAIN o

(* A mutation that is reported affects all rows in some run, and one that  *)
(* does in every run is reported, unless its argument cannot be read.      *)
UnboundedIsReported ==
    \A e \in Arguments :
       /\ UnboundedMutation(e) => \E o \in e.gives : RestrictsNothing(o)
       /\ ArgsResolved(e) /\ (\A o \in e.gives : RestrictsNothing(o)) => UnboundedMutation(e)
=============================================================================
