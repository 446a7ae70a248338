------------------------------ MODULE TestApps ------------------------------
(***************************************************************************)
(* Requests to the two test applications: which statements they execute,   *)
(* what the static rules say of their code, what the run-time detector     *)
(* says of their requests, and the problems the ground truth has there.    *)
(*                                                                         *)
(* Requests the handlers refuse before their first query are left out.     *)
(***************************************************************************)
EXTENDS BlogApp, EcommerceApp

LOCAL INSTANCE FiniteSetsExt

CONSTANTS
    Requests,       \* concurrent requests
    MaxRows         \* bound: rows a list query returns

ASSUME AppsAssumption == MaxRows \in Nat

Both(f, g) == [x \in DOMAIN f \union DOMAIN g |-> IF x \in DOMAIN f THEN f[x] ELSE g[x]]

Handlers == Both(BlogHandlers, EcommerceHandlers)
Schema == Both(BlogSchema, EcommerceSchema)
Seeded == Both(BlogLabels, EcommerceLabels)

SeededTypes(r) == IF r \in DOMAIN Seeded THEN {Seeded[r]} ELSE {}

CallsOf(r) == {Handlers[r][i] : i \in 1..Len(Handlers[r])}

VARIABLES
    route,      \* the route of each request
    at,         \* the next call of its handler
    left,       \* iterations left of the loop that call stands in
    found,      \* rows of the list the loop runs over
    executed    \* the statements of the request, by shape

appVars == <<route, at, left, found, executed>>

Shapes(r) == UNION {Statements(c) : c \in CallsOf(r)}

AppsInit ==
    /\ route \in [Requests -> DOMAIN Handlers]
    /\ at = [q \in Requests |-> 1]
    /\ left = [q \in Requests |-> 1]
    /\ found = [q \in Requests |-> 0]
    /\ executed = [q \in Requests |-> [s \in Shapes(route[q]) |-> 0]]

Steps(q) == Handlers[route[q]]
Current(q) == Steps(q)[at[q]]
Running(q) == at[q] <= Len(Steps(q))

(* Relations are loaded only for rows that were found.                     *)
Run(q, statements) ==
    executed' = [executed EXCEPT ![q] =
        [s \in DOMAIN @ |-> IF s \in statements THEN @[s] + 1 ELSE @[s]]]

RunCurrent(q) ==
    \/ Run(q, Statements(Current(q)))
    \/ Run(q, {<<Shape(Current(q)), "rows">>})

(* The next call runs once, or once for each of n rows.                    *)
GoTo(q, i) ==
    /\ at' = [at EXCEPT ![q] = i]
    /\ IF i <= Len(Steps(q)) /\ Steps(q)[i].eachRow
       THEN \E n \in 0..MaxRows : /\ left' = [left EXCEPT ![q] = n]
                                  /\ found' = [found EXCEPT ![q] = n]
       ELSE left' = [left EXCEPT ![q] = 1] /\ UNCHANGED found

Issue(q) ==
    /\ Running(q)
    /\ left[q] = 1
    /\ RunCurrent(q)
    /\ GoTo(q, at[q] + 1)
    /\ UNCHANGED route

Iterate(q) ==
    /\ Running(q)
    /\ left[q] > 1
    /\ RunCurrent(q)
    /\ left' = [left EXCEPT ![q] = @ - 1]
    /\ UNCHANGED <<route, at, found>>

NoRows(q) ==
    /\ Running(q)
    /\ left[q] = 0
    /\ GoTo(q, at[q] + 1)
    /\ UNCHANGED <<route, executed>>

NotFound(q) ==
    /\ Running(q)
    /\ Current(q).orNotFound
    /\ Run(q, {<<Shape(Current(q)), "rows">>})
    /\ at' = [at EXCEPT ![q] = Len(Steps(q)) + 1]
    /\ UNCHANGED <<route, left, found>>

AppsNext == \E q \in Requests : Issue(q) \/ Iterate(q) \/ NoRows(q) \/ NotFound(q)

AppsSpec == AppsInit /\ [][AppsNext]_appVars

-----------------------------------------------------------------------------

(* Mutant of PerRequest: executions are counted per route.                 *)
PerRequest_PerRoute(q) ==
    LET same == {p \in Requests : route[p] = route[q]}
    IN [s \in Shapes(route[q]) |-> MapThenSumSet(LAMBDA p : executed[p][s], same)]

(* detect_n_plus_one: executions are counted per request.                  *)
PerRequest(q) == executed[q]

RuntimeFindings ==
    UNION {{<<route[q], s>> : s \in FannedOut(PerRequest(q))} : q \in Requests}

(* The static report of a route: the problem types of its calls.           *)
StaticReport(r) == UNION {StaticTypes(Schema, c) : c \in CallsOf(r)}

(* Filters given as shorthand properties are not read (results.md:60).     *)
Unread(r) == \E c \in CallsOf(r) : ~c.readable

(* Twin queries, relation loads and requests that run side by side never   *)
(* look like a fan-out: the detector reports only routes with a seeded N+1.*)
FanOutIsSeeded ==
    \A f \in RuntimeFindings : SeededTypes(f[1]) = {"n_plus_one"}

(* The layers point at the same query: what fans out at run time is a call *)
(* the static rule reports, and a reported call fans out in every request  *)
(* that iterates over more rows than the threshold.                        *)
LayersAgree ==
    \A q \in Requests :
       LET reported == {<<Shape(c), "rows">> : c \in {d \in CallsOf(route[q]) : InLoop(d)}}
       IN /\ FannedOut(PerRequest(q)) \subseteq reported
          /\ ~Running(q) /\ found[q] > DEFAULT_THRESHOLD =>
                reported \subseteq FannedOut(PerRequest(q))

(* The static rules report of every route just the problem that was seeded *)
(* there, but for a filter they cannot read: no false positive, no miss.   *)
StaticFindsTheSeeded ==
    \A q \in Requests :
       /\ StaticReport(route[q]) \subseteq SeededTypes(route[q])
       /\ ~Unread(route[q]) => SeededTypes(route[q]) \subseteq StaticReport(route[q])
=============================================================================
