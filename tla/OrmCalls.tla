------------------------------ MODULE OrmCalls ------------------------------
(***************************************************************************)
(* Prisma calls as the test applications write them, the SQL they execute, *)
(* and what two layers of the analysis make of them: the static rules of   *)
(* packages/core/src/rules and services/analyzers/runtime/n_plus_one.py.   *)
(***************************************************************************)
EXTENDS Integers, Sequences, FiniteSets

(* readable: the where object can be read statically.  paged: there is a   *)
(* take, skip or cursor.  eachRow: the call stands in a loop over the rows *)
(* of the call before it.  loads: relations fetched along with the rows.   *)
(* orNotFound: the handler returns when there is no such row.              *)
Call(model, operation, where) ==
    [model |-> model, operation |-> operation, where |-> where,
     readable |-> TRUE, paged |-> FALSE, eachRow |-> FALSE, loads |-> {},
     orNotFound |-> FALSE]

FindMany(model, where) == Call(model, "findMany", where)
Page(model, where) == [FindMany(model, where) EXCEPT !.paged = TRUE]
FindUnique(model, key) == Call(model, "findUnique", {key})
FindFirst(model, where) == Call(model, "findFirst", where)
CountRows(model, where) == Call(model, "count", where)
GroupBy(model, where) == Call(model, "groupBy", where)
Aggregate(model, where) == Call(model, "aggregate", where)

With(call, relations) == [call EXCEPT !.loads = relations]
ForEachRow(call) == [call EXCEPT !.eachRow = TRUE]
OrNotFound(call) == [call EXCEPT !.orNotFound = TRUE]
Shorthand(call) == [call EXCEPT !.readable = FALSE]

(* The shapes of the SQL one execution of a call runs: its own statement   *)
(* and one for each relation.  Equal shapes have equal fingerprints.       *)
Shape(call) == <<call.model, call.operation, call.where, call.paged>>
Statements(call) == {<<Shape(call), "rows">>} \union {<<Shape(call), r>> : r \in call.loads}

-----------------------------------------------------------------------------
(* The static rules.  A schema gives for each model its leading index      *)
(* columns, the foreign key column of each relation it holds the key of,   *)
(* and the relations whose key is on the other side.                       *)

FILTERING_OPERATIONS == {"findMany", "findFirst", "findFirstOrThrow", "count"}

FilteredColumns(model, keys) ==
    {IF k \in DOMAIN model.keyOf THEN model.keyOf[k] ELSE k : k \in keys \ model.lists}

(* Mutant of MissingIndex: every filtered column must lead an index.       *)
MissingIndex_AnyColumn(schema, call) ==
    /\ call.operation \in FILTERING_OPERATIONS
    /\ call.readable
    /\ LET columns == FilteredColumns(schema[call.model], call.where)
       IN ~(columns \subseteq schema[call.model].leading)

MissingIndex(schema, call) ==
    /\ call.operation \in FILTERING_OPERATIONS
    /\ call.readable
    /\ LET columns == FilteredColumns(schema[call.model], call.where)
       IN columns # {} /\ columns \intersect schema[call.model].leading = {}

Unpaginated(call) == call.operation = "findMany" /\ ~call.paged

InLoop(call) == call.eachRow

(* The problem types (problems.py) the rules report for a call.            *)
StaticTypes(schema, call) ==
    {t \in {"n_plus_one", "missing_index", "unpaginated_find_many"} :
        \/ t = "n_plus_one" /\ InLoop(call)
        \/ t = "missing_index" /\ MissingIndex(schema, call)
        \/ t = "unpaginated_find_many" /\ Unpaginated(call)}

-----------------------------------------------------------------------------
(* The run-time detector: more than `threshold` executions of one shape in *)
(* one request of a route.                                                 *)

DEFAULT_THRESHOLD == 2

(* Mutant of FannedOut: a query executed just `threshold` times counts.    *)
FannedOut_AtLeast(executions) ==
    {s \in DOMAIN executions : executions[s] >= DEFAULT_THRESHOLD}

FannedOut(executions) == {s \in DOMAIN executions : executions[s] > DEFAULT_THRESHOLD}
=============================================================================
