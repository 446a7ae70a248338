---------------------------- MODULE AwaitGroups ----------------------------
(***************************************************************************)
(* packages/core/src/analyze/await-groups.ts: runs of adjacent statements  *)
(* that each await a Prisma read and use no binding of an earlier one.     *)
(* Rule R4 reports every run and suggests to await it with Promise.all.    *)
(*                                                                         *)
(* One statement list is walked, statement by statement.  A binding is     *)
(* named by the position of the statement that declares it.                *)
(***************************************************************************)
EXTENDS Integers, Sequences

CONSTANT MaxStatements      \* bound: statements of the list

ASSUME AwaitAssumption == MaxStatements \in Nat

VARIABLES
    looped,     \* the list lies in the body of a loop (loopContext of its calls)
    program,    \* the statements walked so far
    chunk,      \* the run being collected, as positions of the program
    bound,      \* bindings its statements declare
    groups,     \* the runs that are reported
    closed      \* the end of the list was reached

awaitVars == <<looped, program, chunk, bound, groups, closed>>

(* `await call`, `const x = await call`, `const x = await call, y = ...`,  *)
(* and everything else; the call reads, writes, or is no Prisma call.      *)
Forms == {"await", "const", "consts", "other"}

(* plain: the bindings a statement's identifiers resolve to.  shorthand:   *)
(* those that occur only as shorthand properties, `{ where: { id } }`.     *)
Statement ==
    [form : Forms, awaits : {"read", "write", "none"},
     plain : SUBSET Nat, shorthand : SUBSET Nat]

Declares(s) == s.form \in {"const", "consts"}

AwaitedRead(s) == s.form \in {"await", "const"} /\ s.awaits = "read" /\ ~looped

DeclaredSymbols(i, s) == IF Declares(s) THEN {i} ELSE {}

(* getSymbol of a shorthand property is the property, not the variable.    *)
ReferencesAny(s, symbols) == s.plain \intersect symbols # {}

Scope == {i \in 1..Len(program) : Declares(program[i])}

AwaitInit ==
    /\ looped \in BOOLEAN
    /\ program = <<>> /\ chunk = {} /\ bound = {} /\ groups = {}
    /\ closed = FALSE

AtLeastTwo(c) == \E i, j \in c : i # j

Flushed == IF AtLeastTwo(chunk) THEN groups \union {chunk} ELSE groups

Here == Len(program) + 1

Walk(s) ==
    /\ ~closed
    /\ program' = Append(program, s)
    /\ UNCHANGED <<looped, closed>>

(* Mutant of Interrupt: an interruption does not end the run.              *)
Interrupt_Passes(s) ==
    /\ Walk(s)
    /\ ~AwaitedRead(s)
    /\ UNCHANGED <<groups, chunk, bound>>

(* Mutant of Interrupt: the bindings of the run are not forgotten.         *)
Interrupt_KeepsBound(s) ==
    /\ Walk(s)
    /\ ~AwaitedRead(s)
    /\ groups' = Flushed
    /\ chunk' = {}
    /\ UNCHANGED bound

(* The statement is no awaited read: a guard, a log line, a write.         *)
Interrupt(s) ==
    /\ Walk(s)
    /\ ~AwaitedRead(s)
    /\ groups' = Flushed
    /\ chunk' = {}
    /\ bound' = {}

(* It reads, and uses what the run declares: the run ends before it.       *)
Split(s) ==
    /\ Walk(s)
    /\ AwaitedRead(s)
    /\ chunk # {} /\ ReferencesAny(s, bound)
    /\ groups' = Flushed
    /\ chunk' = {Here}
    /\ bound' = DeclaredSymbols(Here, s)

(* Mutant of Extend: only the bindings of the last statement are kept.     *)
Extend_LastBound(s) ==
    /\ Walk(s)
    /\ AwaitedRead(s)
    /\ chunk = {} \/ ~ReferencesAny(s, bound)
    /\ chunk' = chunk \union {Here}
    /\ bound' = DeclaredSymbols(Here, s)
    /\ UNCHANGED groups

Extend(s) ==
    /\ Walk(s)
    /\ AwaitedRead(s)
    /\ chunk = {} \/ ~ReferencesAny(s, bound)
    /\ chunk' = chunk \union {Here}
    /\ bound' = bound \union DeclaredSymbols(Here, s)
    /\ UNCHANGED groups

(* The flush after the last statement.                                     *)
Close ==
    /\ ~closed
    /\ closed' = TRUE
    /\ groups' = Flushed
    /\ chunk' = {} /\ bound' = {}
    /\ UNCHANGED <<looped, program>>

(* A statement of the list uses what was declared above it; only the uses  *)
(* of an awaited read are looked at.                                       *)
NextStatement ==
    \E f \in Forms, a \in {"read", "write", "none"}, p \in SUBSET Scope :
    \E h \in SUBSET (Scope \ p) :
       /\ Len(program) < MaxStatements
       /\ f = "other" <=> a = "none"
       /\ LET s == [form |-> f, awaits |-> a, plain |-> p, shorthand |-> h]
          IN /\ AwaitedRead(s) \/ p \union h = {}
             /\ Interrupt(s) \/ Split(s) \/ Extend(s)

AwaitNext == NextStatement \/ Close

AwaitSpec == AwaitInit /\ [][AwaitNext]_awaitVars

-----------------------------------------------------------------------------

Read(i) == i \in 1..Len(program) /\ AwaitedRead(program[i])

(* Promise.all over a group only runs reads that already stood side by     *)
(* side: it moves none of them across a write, a guard or a log line.      *)
NothingIsReordered ==
    \A g \in groups : \A i, j \in g : \A k \in i..j : Read(k) /\ k \in g

(* Nothing a grouped statement visibly uses is produced inside its group,  *)
(* directly or through the statements between: when the group starts, all  *)
(* of it is there.                                                         *)
SuggestionIsRunnable ==
    \A g \in groups : \A i, j \in g : j \notin program[i].plain

(* Two reads side by side are reported together unless the second uses     *)
(* what a read right above it, in an unbroken run, produced.               *)
Together(i) == \E g \in groups : {i - 1, i} \subseteq g

SplitOnlyByDependency ==
    closed => \A i \in 2..Len(program) :
       Read(i - 1) /\ Read(i) /\ ~Together(i) =>
          \E j \in program[i].plain : /\ j < i
                                      /\ \A k \in j..i : Read(k)

(* await-groups.ts: "no statement uses a binding produced by an earlier    *)
(* one in the run", whatever the form of the use.                          *)
NoGroupedStatementUsesAnother ==
    \A g \in groups : \A i, j \in g :
       j \notin program[i].plain \union program[i].shorthand
=============================================================================
