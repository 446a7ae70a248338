--------------------------- MODULE AnalysisProofs ----------------------------
(***************************************************************************)
(* The parts of the static analysis and of the applications it is run on   *)
(* that share no state: AwaitGroups for lists of any length (what is       *)
(* reported never moves a read across another statement, awaits nothing    *)
(* before it is there, and misses no pair that could be reported),         *)
(* ArgReader for arguments of any size, TestApps for any number of         *)
(* requests and rows, and Seeding for any number of seeders.               *)
(***************************************************************************)
EXTENDS AwaitGroups, ArgReader, TestApps, Seeding, SequenceTheorems, TLAPS

(* The uses of a statement are declared above it.                          *)
Scoped(i) == program[i].plain \subseteq {j \in 1..(i - 1) : Declares(program[j])}

AwaitTypeOK ==
    /\ looped \in BOOLEAN /\ closed \in BOOLEAN
    /\ program \in Seq(Statement)
    /\ \A i \in 1..Len(program) : Scoped(i)
    /\ chunk \subseteq 1..Len(program)
    /\ groups \subseteq SUBSET (1..Len(program))

(* The run under way reaches to the last statement walked, and declares    *)
(* what is bound.                                                          *)
ChunkIsRun ==
    /\ \A i \in chunk : AwaitedRead(program[i]) /\ i..Len(program) \subseteq chunk
    /\ bound = {i \in chunk : Declares(program[i])}
    /\ \A i, j \in chunk : j \notin program[i].plain

LastIsCollected ==
    /\ closed => chunk = {}
    /\ ~closed /\ program # <<>> /\ AwaitedRead(program[Len(program)]) => Len(program) \in chunk

(* What a reported run is.                                                 *)
RunOf(g) ==
    \A i, j \in g :
       /\ j \notin program[i].plain
       /\ \A k \in i..j : AwaitedRead(program[k]) /\ k \in g

GroupsAreRuns == \A g \in groups : RunOf(g)

Depends(i) == \E j \in program[i].plain : j < i /\ \A k \in j..i : AwaitedRead(program[k])

PairsAreKept ==
    \A i \in 2..Len(program) :
       AwaitedRead(program[i - 1]) /\ AwaitedRead(program[i]) =>
          {i - 1, i} \subseteq chunk \/ Together(i) \/ Depends(i)

AwaitInv == AwaitTypeOK /\ ChunkIsRun /\ LastIsCollected /\ GroupsAreRuns /\ PairsAreKept

-----------------------------------------------------------------------------

(* A flush reports the run under way, which is a run, and no pair is lost. *)
LEMMA FlushKeepsGroups ==
    ASSUME AwaitInv
    PROVE  /\ Flushed \subseteq SUBSET (1..Len(program))
           /\ groups \subseteq Flushed
           /\ \A g \in Flushed : RunOf(g)
           /\ \A i \in 2..Len(program) : {i - 1, i} \subseteq chunk =>
                 \E g \in Flushed : {i - 1, i} \subseteq g
<1>1. Flushed \subseteq groups \union {chunk} /\ groups \subseteq Flushed
  BY DEF Flushed
<1>2. RunOf(chunk)
  <2> SUFFICES ASSUME NEW i \in chunk, NEW j \in chunk
               PROVE  /\ j \notin program[i].plain
                      /\ \A k \in i..j : AwaitedRead(program[k]) /\ k \in chunk
    BY DEF RunOf
  <2>1. j \notin program[i].plain
    BY DEF AwaitInv, ChunkIsRun
  <2>2. ASSUME NEW k \in i..j PROVE k \in chunk
    <3>1. Len(program) \in Nat /\ i \in 1..Len(program) /\ j \in 1..Len(program)
      BY LenProperties DEF AwaitInv, AwaitTypeOK
    <3>2. k \in i..Len(program)
      BY <3>1
    <3> QED
      BY <3>2 DEF AwaitInv, ChunkIsRun
  <2> QED
    BY <2>1, <2>2 DEF AwaitInv, ChunkIsRun
<1>3. ASSUME NEW i \in 2..Len(program), {i - 1, i} \subseteq chunk
      PROVE  chunk \in Flushed
  <2>1. i - 1 # i
    BY <1>3
  <2> QED
    BY <1>3, <2>1 DEF Flushed, AtLeastTwo
<1> QED
  BY <1>1, <1>2, <1>3 DEF AwaitInv, AwaitTypeOK, GroupsAreRuns

(* The statements walked before stay where they are.                       *)
LEMMA WalkAppends ==
    ASSUME AwaitTypeOK, NEW s \in Statement, s.plain \subseteq Scope, Walk(s)
    PROVE  /\ Len(program) \in Nat /\ Here = Len(program) + 1
           /\ program' \in Seq(Statement) /\ Len(program') = Here /\ program' # <<>>
           /\ program'[Here] = s
           /\ \A i \in 1..Len(program) : program'[i] = program[i]
           /\ \A i \in 1..Len(program') : Scoped(i)'
           /\ looped' = looped /\ closed' = closed /\ looped' \in BOOLEAN /\ closed' \in BOOLEAN
<1>1. /\ Len(program) \in Nat /\ Here = Len(program) + 1
      /\ program' \in Seq(Statement) /\ Len(program') = Here
      /\ program'[Here] = s
      /\ \A i \in 1..Len(program) : program'[i] = program[i]
  BY LenProperties, AppendProperties DEF AwaitTypeOK, Walk, Here
<1>2. ASSUME NEW i \in 1..Len(program') PROVE Scoped(i)'
  <2>1. CASE i = Here
    <3>1. ASSUME NEW j \in s.plain PROVE j \in 1..(Here - 1) /\ Declares(program'[j])
      BY <1>1 DEF Scope
    <3> QED
      BY <1>1, <2>1, <3>1 DEF Scoped
  <2>2. CASE i # Here
    <3>1. i \in 1..Len(program) /\ Scoped(i)
      BY <1>1, <2>2 DEF AwaitTypeOK
    <3>2. ASSUME NEW j \in program[i].plain PROVE j \in 1..(i - 1) /\ Declares(program'[j])
      <4>1. j \in 1..(i - 1) /\ Declares(program[j]) /\ j \in 1..Len(program)
        BY <1>1, <3>1 DEF Scoped
      <4> QED
        BY <1>1, <4>1
    <3> QED
      BY <1>1, <3>1, <3>2 DEF Scoped
  <2> QED
    BY <2>1, <2>2
<1>3. program' # <<>>
  BY <1>1
<1> QED
  BY <1>1, <1>2, <1>3 DEF AwaitTypeOK, Walk

(* A reported run stays one.                                               *)
LEMMA RunsStay ==
    ASSUME AwaitTypeOK, NEW s \in Statement, s.plain \subseteq Scope, Walk(s),
           NEW g \in SUBSET (1..Len(program)), RunOf(g)
    PROVE  RunOf(g)'
<1>1. /\ Len(program) \in Nat /\ looped' = looped
      /\ \A i \in 1..Len(program) : program'[i] = program[i]
  BY WalkAppends
<1> SUFFICES ASSUME NEW i \in g, NEW j \in g
             PROVE  /\ j \notin program'[i].plain
                    /\ \A k \in i..j : AwaitedRead(program[k])' /\ k \in g
  BY DEF RunOf
<1>2. j \notin program'[i].plain
  BY <1>1 DEF RunOf
<1>3. ASSUME NEW k \in i..j PROVE AwaitedRead(program[k])' /\ k \in g
  <2>1. AwaitedRead(program[k]) /\ k \in g
    BY DEF RunOf
  <2> QED
    BY <1>1, <2>1 DEF AwaitedRead
<1> QED
  BY <1>2, <1>3

LEMMA DependenciesStay ==
    ASSUME AwaitTypeOK, NEW s \in Statement, s.plain \subseteq Scope, Walk(s),
           NEW i \in 1..Len(program), Depends(i)
    PROVE  Depends(i)'
<1>1. /\ Len(program) \in Nat /\ looped' = looped
      /\ \A k \in 1..Len(program) : program'[k] = program[k]
  BY WalkAppends
<1>2. PICK j \in program[i].plain : j < i /\ \A k \in j..i : AwaitedRead(program[k])
  BY DEF Depends
<1>3. j \in 1..(i - 1)
  BY DEF AwaitTypeOK, Scoped
<1>4. \A k \in j..i : AwaitedRead(program[k])'
  BY <1>1, <1>2, <1>3 DEF AwaitedRead
<1> QED
  BY <1>1, <1>2, <1>4 DEF Depends

(* A step that flushes the run before, or keeps it, loses no pair.         *)
LEMMA PairsStay ==
    ASSUME AwaitInv, NEW s \in Statement, s.plain \subseteq Scope, Walk(s),
           \/ groups' = Flushed
           \/ groups' = groups /\ chunk \subseteq chunk',
           AwaitedRead(program[Len(program)]) /\ AwaitedRead(s) /\ program # <<>> =>
              {Len(program), Here} \subseteq chunk' \/ Depends(Len(program))'
    PROVE  PairsAreKept'
<1>1. /\ Len(program) \in Nat /\ Here = Len(program) + 1 /\ Len(program') = Here
      /\ looped' = looped /\ program'[Here] = s
      /\ \A i \in 1..Len(program) : program'[i] = program[i]
  BY WalkAppends DEF AwaitInv
<1> SUFFICES ASSUME NEW i \in 2..Len(program'),
                    AwaitedRead(program[i - 1])', AwaitedRead(program[i])'
             PROVE  {i - 1, i} \subseteq chunk' \/ Together(i)' \/ Depends(i)'
  BY DEF PairsAreKept
<1>2. CASE i = Here
  <2>1. i - 1 = Len(program) /\ i - 1 \in 1..Len(program) /\ i = Len(program')
    BY <1>1, <1>2
  <2>2. program # <<>>
    BY <2>1
  <2>3. AwaitedRead(program[Len(program)]) /\ AwaitedRead(s)
    BY <1>1, <1>2, <2>1 DEF AwaitedRead
  <2>4. {i - 1, i} \subseteq chunk' \/ Depends(Len(program))'
    BY <1>2, <2>1, <2>2, <2>3
  <2> QED
    BY <2>1, <2>4
<1>3. CASE i # Here
  <2>1. i \in 2..Len(program) /\ i \in 1..Len(program) /\ i - 1 \in 1..Len(program)
    BY <1>1, <1>3
  <2>2. AwaitedRead(program[i - 1]) /\ AwaitedRead(program[i])
    BY <1>1, <2>1 DEF AwaitedRead
  <2>3. {i - 1, i} \subseteq chunk \/ Together(i) \/ Depends(i)
    BY <2>1, <2>2 DEF AwaitInv, PairsAreKept
  <2>4. CASE {i - 1, i} \subseteq chunk
    <3>1. \E g \in Flushed : {i - 1, i} \subseteq g
      BY <2>1, <2>4, FlushKeepsGroups
    <3> QED
      BY <2>4, <3>1 DEF Together
  <2>5. CASE Together(i)
    BY <2>5, FlushKeepsGroups DEF Together
  <2>6. CASE Depends(i)
    BY <2>1, <2>6, DependenciesStay DEF AwaitInv
  <2> QED
    BY <2>3, <2>4, <2>5, <2>6
<1> QED
  BY <1>2, <1>3

-----------------------------------------------------------------------------

LEMMA AwaitInitInv == ASSUME AwaitInit PROVE AwaitInv
<1>1. /\ program = <<>> /\ chunk = {} /\ bound = {} /\ groups = {}
      /\ looped \in BOOLEAN /\ closed \in BOOLEAN
  BY DEF AwaitInit
<1>2. program \in Seq(Statement) /\ Len(program) = 0
  BY <1>1, EmptySeq
<1>3. 1..Len(program) = {} /\ 2..Len(program) = {}
  BY <1>2
<1> QED
  BY <1>1, <1>2, <1>3
  DEF AwaitInv, AwaitTypeOK, ChunkIsRun, LastIsCollected, GroupsAreRuns, PairsAreKept

LEMMA InterruptInv ==
    ASSUME AwaitInv, NEW s \in Statement, s.plain \subseteq Scope, Interrupt(s)
    PROVE  AwaitInv'
<1>1. Walk(s) /\ groups' = Flushed /\ chunk' = {} /\ bound' = {} /\ ~AwaitedRead(s)
  BY DEF Interrupt
<1>2. /\ Len(program) \in Nat /\ Len(program') = Here /\ Here = Len(program) + 1
      /\ program' \in Seq(Statement) /\ program'[Here] = s /\ looped' = looped
  BY <1>1, WalkAppends DEF AwaitInv
<1>3. AwaitTypeOK'
  BY <1>1, <1>2, WalkAppends, FlushKeepsGroups DEF AwaitInv, AwaitTypeOK
<1>4. ChunkIsRun'
  BY <1>1 DEF ChunkIsRun
<1>5. LastIsCollected'
  BY <1>1, <1>2 DEF LastIsCollected, AwaitedRead, Walk
<1>6. GroupsAreRuns'
  BY <1>1, RunsStay, FlushKeepsGroups DEF AwaitInv, GroupsAreRuns
<1>7. PairsAreKept'
  BY <1>1, PairsStay
<1> QED
  BY <1>3, <1>4, <1>5, <1>6, <1>7 DEF AwaitInv

LEMMA SplitInv ==
    ASSUME AwaitInv, NEW s \in Statement, s.plain \subseteq Scope, Split(s)
    PROVE  AwaitInv'
<1>1. Walk(s) /\ groups' = Flushed /\ chunk' = {Here} /\ bound' = DeclaredSymbols(Here, s)
      /\ AwaitedRead(s) /\ ReferencesAny(s, bound)
  BY DEF Split
<1>2. /\ Len(program) \in Nat /\ Len(program') = Here /\ Here = Len(program) + 1
      /\ program' \in Seq(Statement) /\ program'[Here] = s /\ looped' = looped
      /\ \A i \in 1..Len(program) : program'[i] = program[i]
  BY <1>1, WalkAppends DEF AwaitInv
<1>3. AwaitTypeOK'
  BY <1>1, <1>2, WalkAppends, FlushKeepsGroups DEF AwaitInv, AwaitTypeOK
<1>4. ChunkIsRun'
  <2>1. /\ \A i \in chunk' : i = Here /\ program'[i] = s
        /\ \A i \in chunk' : AwaitedRead(program[i])' /\ i..Len(program') \subseteq chunk'
    BY <1>1, <1>2 DEF AwaitedRead
  <2>2. Here \notin s.plain
    BY <1>2 DEF Scope
  <2>3. bound' = {i \in chunk' : Declares(program'[i])}
    BY <1>1, <1>2 DEF DeclaredSymbols
  <2> QED
    BY <1>1, <1>2, <2>1, <2>2, <2>3 DEF ChunkIsRun
<1>5. LastIsCollected'
  BY <1>1, <1>2 DEF LastIsCollected, Walk
<1>6. GroupsAreRuns'
  BY <1>1, RunsStay, FlushKeepsGroups DEF AwaitInv, GroupsAreRuns
<1>7. Depends(Len(program))'
  <2>1. PICK j \in s.plain : j \in bound
    BY <1>1 DEF ReferencesAny
  <2>2. j \in chunk /\ j \in 1..Len(program) /\ j..Len(program) \subseteq chunk
    BY <2>1 DEF AwaitInv, ChunkIsRun, AwaitTypeOK
  <2>3. ASSUME NEW k \in j..Here PROVE AwaitedRead(program'[k]) /\ ~looped'
    <3>1. CASE k = Here
      BY <1>1, <1>2, <3>1 DEF AwaitedRead
    <3>2. CASE k # Here
      <4>1. k \in j..Len(program) /\ k \in 1..Len(program)
        BY <1>2, <2>2, <3>2
      <4> QED
        BY <1>2, <2>2, <4>1 DEF AwaitInv, ChunkIsRun, AwaitedRead
    <3> QED
      BY <3>1, <3>2
  <2>4. \A k \in j..Here : AwaitedRead(program[k])'
    BY <1>2, <2>3 DEF AwaitedRead
  <2> QED
    BY <1>2, <2>1, <2>2, <2>4 DEF Depends
<1>8. PairsAreKept'
  BY <1>1, <1>7, PairsStay
<1> QED
  BY <1>3, <1>4, <1>5, <1>6, <1>8 DEF AwaitInv

LEMMA ExtendInv ==
    ASSUME AwaitInv, NEW s \in Statement, s.plain \subseteq Scope, Extend(s)
    PROVE  AwaitInv'
<1>1. Walk(s) /\ groups' = groups /\ chunk' = chunk \union {Here}
      /\ bound' = bound \union DeclaredSymbols(Here, s)
      /\ AwaitedRead(s) /\ (chunk = {} \/ s.plain \intersect bound = {})
  BY DEF Extend, ReferencesAny
<1>2. /\ Len(program) \in Nat /\ Len(program') = Here /\ Here = Len(program) + 1
      /\ program' \in Seq(Statement) /\ program'[Here] = s /\ looped' = looped
      /\ closed' = closed
      /\ \A i \in 1..Len(program) : program'[i] = program[i]
  BY <1>1, WalkAppends DEF AwaitInv
<1>3. chunk \subseteq 1..Len(program) /\ chunk' \subseteq 1..Len(program')
  <2>1. chunk \subseteq 1..Len(program)
    BY DEF AwaitInv, AwaitTypeOK
  <2>2. ASSUME NEW i \in chunk' PROVE i \in 1..Len(program')
    BY <1>1, <1>2, <2>1
  <2> QED
    BY <2>1, <2>2
<1>4. AwaitTypeOK'
  BY <1>1, <1>2, <1>3, WalkAppends DEF AwaitInv, AwaitTypeOK
<1>5. ChunkIsRun'
  <2>1. ASSUME NEW i \in chunk' PROVE AwaitedRead(program[i])' /\ i..Len(program') \subseteq chunk'
    <3>1. CASE i = Here
      BY <1>1, <1>2, <3>1 DEF AwaitedRead
    <3>2. CASE i \in chunk
      <4>1. AwaitedRead(program[i]) /\ i..Len(program) \subseteq chunk /\ i \in 1..Len(program)
        BY <1>3, <3>2 DEF AwaitInv, ChunkIsRun
      <4>2. i..Len(program') \subseteq chunk'
        BY <1>1, <1>2, <4>1
      <4> QED
        BY <1>2, <4>1, <4>2 DEF AwaitedRead
    <3> QED
      BY <1>1, <3>1, <3>2
  <2>2. bound = {i \in chunk : Declares(program[i])}
    BY DEF AwaitInv, ChunkIsRun
  <2>3. bound' = {i \in chunk' : Declares(program'[i])}
    BY <1>1, <1>2, <1>3, <2>2 DEF DeclaredSymbols
  <2>4. ASSUME NEW i \in chunk', NEW j \in chunk' PROVE j \notin program'[i].plain
    <3>1. CASE i \in chunk /\ j \in chunk
      BY <1>2, <1>3, <3>1 DEF AwaitInv, ChunkIsRun
    <3>2. CASE i = Here /\ j \in chunk
      BY <1>1, <1>2, <1>3, <2>2, <3>2 DEF Scope
    <3>3. CASE j = Here /\ i = Here
      BY <1>2, <3>3 DEF Scope
    <3>4. CASE j = Here /\ i \in chunk
      <4>1. i \in 1..Len(program) /\ Scoped(i)
        BY <1>3, <3>4 DEF AwaitInv, AwaitTypeOK
      <4> QED
        BY <1>2, <3>4, <4>1 DEF Scoped
    <3> QED
      BY <1>1, <3>1, <3>2, <3>3, <3>4
  <2> QED
    BY <2>1, <2>3, <2>4 DEF ChunkIsRun
<1>6. LastIsCollected'
  BY <1>1, <1>2 DEF LastIsCollected, Walk
<1>7. GroupsAreRuns'
  BY <1>1, RunsStay DEF AwaitInv, GroupsAreRuns, AwaitTypeOK
<1>8. AwaitedRead(program[Len(program)]) /\ program # <<>> => {Len(program), Here} \subseteq chunk'
  BY <1>1 DEF AwaitInv, LastIsCollected, Walk
<1>9. PairsAreKept'
  BY <1>1, <1>8, PairsStay
<1> QED
  BY <1>4, <1>5, <1>6, <1>7, <1>9 DEF AwaitInv

LEMMA CloseInv == ASSUME AwaitInv, Close PROVE AwaitInv'
<1>1. /\ groups' = Flushed /\ chunk' = {} /\ bound' = {} /\ closed' = TRUE
      /\ program' = program /\ looped' = looped
  BY DEF Close
<1>2. AwaitTypeOK'
  BY <1>1, FlushKeepsGroups DEF AwaitInv, AwaitTypeOK, Scoped
<1>3. ChunkIsRun' /\ LastIsCollected'
  BY <1>1 DEF ChunkIsRun, LastIsCollected
<1>4. GroupsAreRuns'
  BY <1>1, FlushKeepsGroups DEF GroupsAreRuns, RunOf, AwaitedRead
<1>5. PairsAreKept'
  <2> SUFFICES ASSUME NEW i \in 2..Len(program),
                      AwaitedRead(program[i - 1]), AwaitedRead(program[i])
               PROVE  Together(i)' \/ Depends(i)'
    BY <1>1 DEF PairsAreKept, AwaitedRead
  <2>1. {i - 1, i} \subseteq chunk \/ Together(i) \/ Depends(i)
    BY DEF AwaitInv, PairsAreKept
  <2>2. CASE {i - 1, i} \subseteq chunk
    BY <1>1, <2>2, FlushKeepsGroups DEF Together
  <2>3. CASE Together(i)
    BY <1>1, <2>3, FlushKeepsGroups DEF Together
  <2>4. CASE Depends(i)
    BY <1>1, <2>4 DEF Depends, AwaitedRead
  <2> QED
    BY <2>1, <2>2, <2>3, <2>4
<1> QED
  BY <1>2, <1>3, <1>4, <1>5 DEF AwaitInv

LEMMA AwaitStepInv == ASSUME AwaitInv, [AwaitNext]_awaitVars PROVE AwaitInv'
<1>1. CASE NextStatement
  <2>1. \A s \in Statement : s.plain \subseteq Scope /\ (Interrupt(s) \/ Split(s) \/ Extend(s)) => AwaitInv'
    BY InterruptInv, SplitInv, ExtendInv
  <2>2. Scope \subseteq Nat
    BY DEF Scope
  <2>3. ASSUME NEW f \in Forms, NEW a \in {"read", "write", "none"},
               NEW p \in SUBSET Scope, NEW h \in SUBSET (Scope \ p)
        PROVE  /\ [form |-> f, awaits |-> a, plain |-> p, shorthand |-> h] \in Statement
               /\ [form |-> f, awaits |-> a, plain |-> p, shorthand |-> h].plain \subseteq Scope
    BY <2>2 DEF Statement
  <2> QED
    BY <1>1, <2>1, <2>3 DEF NextStatement
<1>2. CASE Close
  BY <1>2, CloseInv
<1>3. CASE UNCHANGED awaitVars
  <2>1. /\ looped' = looped /\ program' = program /\ chunk' = chunk
        /\ bound' = bound /\ groups' = groups /\ closed' = closed
    BY <1>3 DEF awaitVars
  <2>2. AwaitTypeOK'
    BY <2>1 DEF AwaitInv, AwaitTypeOK, Scoped
  <2>3. ChunkIsRun' /\ LastIsCollected'
    BY <2>1 DEF AwaitInv, ChunkIsRun, LastIsCollected, AwaitedRead
  <2>4. GroupsAreRuns'
    BY <2>1 DEF AwaitInv, GroupsAreRuns, RunOf, AwaitedRead
  <2>5. PairsAreKept'
    BY <2>1 DEF AwaitInv, PairsAreKept, Together, Depends, AwaitedRead
  <2> QED
    BY <2>2, <2>3, <2>4, <2>5 DEF AwaitInv
<1> QED
  BY <1>1, <1>2, <1>3 DEF AwaitNext

(* Whatever statements are walked, the run under way and the reported      *)
(* runs stand for what the visitor has seen.                               *)
THEOREM AwaitInvHolds == AwaitSpec => []AwaitInv
BY AwaitInitInv, AwaitStepInv, PTL DEF AwaitSpec

(* However long the list: Promise.all over a reported run moves no read    *)
(* across a statement that is not awaited with it.                         *)
THEOREM NothingIsReorderedHolds == AwaitSpec => []NothingIsReordered
<1>1. AwaitInv => NothingIsReordered
  <2> SUFFICES ASSUME AwaitInv, NEW g \in groups, NEW i \in g, NEW j \in g, NEW k \in i..j
               PROVE  Read(k) /\ k \in g
    BY DEF NothingIsReordered
  <2>1. AwaitedRead(program[k]) /\ k \in g
    BY DEF AwaitInv, GroupsAreRuns, RunOf
  <2>2. k \in 1..Len(program)
    BY <2>1 DEF AwaitInv, AwaitTypeOK
  <2> QED
    BY <2>1, <2>2 DEF Read
<1> QED
  BY <1>1, AwaitInvHolds, PTL

(* However long the list: no statement of a reported run visibly uses what *)
(* the run itself produces.                                                *)
THEOREM SuggestionIsRunnableHolds == AwaitSpec => []SuggestionIsRunnable
<1>1. AwaitInv => SuggestionIsRunnable
  BY DEF AwaitInv, GroupsAreRuns, RunOf, SuggestionIsRunnable
<1> QED
  BY <1>1, AwaitInvHolds, PTL

(* However long the list: two reads side by side are reported together     *)
(* unless the second needs the first, or what the first stands next to.    *)
THEOREM SplitOnlyByDependencyHolds == AwaitSpec => []SplitOnlyByDependency
<1>1. AwaitInv => SplitOnlyByDependency
  <2> SUFFICES ASSUME AwaitInv, closed, NEW i \in 2..Len(program),
                      Read(i - 1), Read(i), ~Together(i)
               PROVE  \E j \in program[i].plain : j < i /\ \A k \in j..i : Read(k)
    BY DEF SplitOnlyByDependency
  <2>1. Depends(i)
    <3>1. {i - 1, i} \subseteq chunk \/ Together(i) \/ Depends(i)
      BY DEF AwaitInv, PairsAreKept, Read
    <3> QED
      BY <3>1 DEF AwaitInv, LastIsCollected
  <2>2. PICK j \in program[i].plain : j < i /\ \A k \in j..i : AwaitedRead(program[k])
    BY <2>1 DEF Depends
  <2>3. Len(program) \in Nat /\ i \in 1..Len(program)
    BY LenProperties DEF AwaitInv, AwaitTypeOK
  <2>4. j \in 1..(i - 1)
    BY <2>2, <2>3 DEF AwaitInv, AwaitTypeOK, Scoped
  <2> QED
    BY <2>2, <2>3, <2>4 DEF Read
<1> QED
  BY <1>1, AwaitInvHolds, PTL
-----------------------------------------------------------------------------
(* The seeders of one database.                                            *)

SeedInv ==
    /\ app \in DOMAIN Tables
    /\ phase \in [Seeders -> {"idle", "inserting", "skipped", "seeded", "failed"}]
    /\ stored \in {{}, AllTables}
    /\ \A p \in Seeders : phase[p] = "skipped" => stored = AllTables

(* A committed transaction holds every table.                              *)
LEMMA CommitStoresAll ==
    ASSUME SeedInv, NEW p \in Seeders, Commit(p)
    PROVE  stored' = AllTables
<1>1. {Table(i) : i \in 1..inserted[p]} = AllTables
  BY DEF Commit, AllTables
<1> QED
  BY <1>1 DEF SeedInv, Commit

LEMMA SeedStep == ASSUME SeedInv, [SeedNext]_seedVars PROVE SeedInv'
<1>1. ASSUME NEW p \in Seeders, CountRowsFirst(p) PROVE SeedInv'
  <2>1. app' = app /\ stored' = stored /\ AllTables' = AllTables
    BY <1>1 DEF CountRowsFirst, AllTables, Table
  <2>2. Counted[app] \in stored => stored = AllTables
    BY DEF SeedInv
  <2> QED
    BY <1>1, <2>1, <2>2 DEF SeedInv, CountRowsFirst, To
<1>2. ASSUME NEW p \in Seeders, Insert(p) PROVE SeedInv'
  BY <1>2 DEF SeedInv, Insert, AllTables, Table
<1>3. ASSUME NEW p \in Seeders, Rollback(p) PROVE SeedInv'
  BY <1>3 DEF SeedInv, Rollback, To, AllTables, Table
<1>4. ASSUME NEW p \in Seeders, Commit(p) PROVE SeedInv'
  <2>1. stored' = AllTables /\ app' = app /\ AllTables' = AllTables
    BY <1>4, CommitStoresAll DEF Commit, AllTables, Table
  <2> QED
    BY <1>4, <2>1 DEF SeedInv, Commit, To
<1>5. ASSUME NEW p \in Seeders, Rerun(p) PROVE SeedInv'
  BY <1>5 DEF SeedInv, Rerun, To, AllTables, Table
<1>6. CASE UNCHANGED seedVars
  BY <1>6 DEF SeedInv, seedVars, AllTables, Table
<1> QED
  BY <1>1, <1>2, <1>3, <1>4, <1>5, <1>6 DEF SeedNext, Refuse, Interrupted

(* However many seeders run, are killed and are run again: one that skips  *)
(* finds every table filled, and no table is filled without the others.    *)
THEOREM SkippedMeansCompleteHolds == SeedSpec => []SkippedMeansComplete
<1>1. SeedInit => SeedInv
  BY DEF SeedInit, SeedInv
<1>2. SeedInv => SkippedMeansComplete
  BY DEF SeedInv, SkippedMeansComplete
<1> QED
  BY <1>1, <1>2, SeedStep, PTL DEF SeedSpec
-----------------------------------------------------------------------------

(* What is read of an argument, held against the objects it can be: no run *)
(* has a key that is not read, and each value read is the one of some run. *)
Covers(o, gives) ==
    /\ \A g \in gives : DOMAIN g \subseteq DOMAIN o
    /\ \A k \in DOMAIN o : \E g \in gives : k \in DOMAIN g /\ g[k] = o[k]

Faithful ==
    {e \in Expression :
        /\ e.gives # {}
        /\ \A d \in Depths : \A o \in e.reads[d] : Covers(o, e.gives)}

ArgInv == pending \in Seq(Faithful)

LEMMA MergeIsObject ==
    ASSUME NEW p \in Objects, NEW q \in Objects PROVE Merge(p, q) \in Objects
<1>1. PICK K \in SUBSET Keys : p \in [K -> Values]
  BY DEF Objects
<1>2. PICK L \in SUBSET Keys : q \in [L -> Values]
  BY DEF Objects
<1>3. Merge(p, q) \in [K \union L -> Values]
  BY <1>1, <1>2 DEF Merge
<1> QED
  BY <1>3 DEF Objects

LEMMA MergeOver ==
    ASSUME NEW p, NEW q, NEW k \in DOMAIN q PROVE k \in DOMAIN Merge(p, q) /\ Merge(p, q)[k] = q[k]
BY DEF Merge

LEMMA MergeUnder ==
    ASSUME NEW p, NEW q, NEW k \in DOMAIN p, k \notin DOMAIN q
    PROVE  k \in DOMAIN Merge(p, q) /\ Merge(p, q)[k] = p[k]
BY DEF Merge

(* Each object merged with each other: where one key is not read of the    *)
(* object on top, no run of it has it.                                     *)
LEMMA MergeCovers ==
    ASSUME NEW p, NEW ps, Covers(p, ps), ps # {}, NEW q, NEW qs, Covers(q, qs), qs # {}
    PROVE  Covers(Merge(p, q), {Merge(g, h) : g \in ps, h \in qs})
<1> DEFINE both == {Merge(g, h) : g \in ps, h \in qs}
<1>1. ASSUME NEW m \in both PROVE DOMAIN m \subseteq DOMAIN Merge(p, q)
  <2>1. PICK g \in ps, h \in qs : m = Merge(g, h)
    OBVIOUS
  <2>2. DOMAIN g \subseteq DOMAIN p /\ DOMAIN h \subseteq DOMAIN q
    BY DEF Covers
  <2>3. DOMAIN m = DOMAIN g \union DOMAIN h
    BY <2>1 DEF Merge
  <2>4. DOMAIN Merge(p, q) = DOMAIN p \union DOMAIN q
    BY DEF Merge
  <2> QED
    BY <2>2, <2>3, <2>4
<1>2. ASSUME NEW k \in DOMAIN Merge(p, q)
      PROVE  \E m \in both : k \in DOMAIN m /\ m[k] = Merge(p, q)[k]
  <2>1. CASE k \in DOMAIN q
    <3>1. PICK h \in qs : k \in DOMAIN h /\ h[k] = q[k]
      BY <2>1 DEF Covers
    <3>2. PICK g \in ps : TRUE
      OBVIOUS
    <3>3. k \in DOMAIN Merge(g, h) /\ Merge(g, h)[k] = Merge(p, q)[k]
      BY <2>1, <3>1, MergeOver
    <3> QED
      BY <3>3
  <2>2. CASE k \notin DOMAIN q
    <3>1. k \in DOMAIN p
      BY <2>2 DEF Merge
    <3>2. PICK g \in ps : k \in DOMAIN g /\ g[k] = p[k]
      BY <3>1 DEF Covers
    <3>3. PICK h \in qs : TRUE
      OBVIOUS
    <3>4. k \notin DOMAIN h
      BY <2>2 DEF Covers
    <3>5. k \in DOMAIN Merge(g, h) /\ Merge(g, h)[k] = Merge(p, q)[k]
      BY <2>2, <3>1, <3>2, <3>4, MergeUnder
    <3> QED
      BY <3>5
  <2> QED
    BY <2>1, <2>2
<1> QED
  BY <1>1, <1>2 DEF Covers

(* One of two branches runs: the keys of both are read.                    *)
LEMMA BranchCovers ==
    ASSUME NEW p, NEW ps, Covers(p, ps), NEW q, NEW qs, Covers(q, qs)
    PROVE  Covers(Merge(p, q), qs \union ps)
<1>1. ASSUME NEW m \in qs \union ps PROVE DOMAIN m \subseteq DOMAIN Merge(p, q)
  <2>1. DOMAIN m \subseteq DOMAIN p \/ DOMAIN m \subseteq DOMAIN q
    BY DEF Covers
  <2> QED
    BY <2>1 DEF Merge
<1>2. ASSUME NEW k \in DOMAIN Merge(p, q)
      PROVE  \E m \in qs \union ps : k \in DOMAIN m /\ m[k] = Merge(p, q)[k]
  <2>1. CASE k \in DOMAIN q
    BY <2>1, MergeOver DEF Covers
  <2>2. CASE k \notin DOMAIN q
    <3>1. k \in DOMAIN p
      BY <2>2 DEF Merge
    <3>2. Merge(p, q)[k] = p[k]
      BY <2>2, <3>1, MergeUnder
    <3> QED
      BY <3>1, <3>2 DEF Covers
  <2> QED
    BY <2>1, <2>2
<1> QED
  BY <1>1, <1>2 DEF Covers

LEMMA NothingCovers == Covers(NoKeys, {NoKeys}) /\ NoKeys \in Objects
<1>1. DOMAIN NoKeys = {}
  BY DEF NoKeys
<1>2. NoKeys \in [{} -> Values]
  BY DEF NoKeys
<1> QED
  BY <1>1, <1>2 DEF Covers, Objects

(* What makes an expression faithful, depth by depth.                      *)
LEMMA FaithfulBy ==
    ASSUME NEW gives \in SUBSET Objects, gives # {}, NEW reads \in [Depths -> SUBSET Objects],
           \A d \in Depths : \A o \in reads[d] : Covers(o, gives)
    PROVE  Literal(reads, gives) \in Faithful /\ Other(reads, gives) \in Faithful
BY DEF Literal, Other, Faithful, Expression

LEMMA ReadAbove ==
    ASSUME NEW e \in Faithful, NEW d \in Depths, d <= MAX_RESOLVE_DEPTH, NEW o \in e.reads[d + 1]
    PROVE  o \in Objects /\ Covers(o, e.gives)
<1>1. d + 1 \in Depths
  BY ArgAssumption DEF Depths
<1> QED
  BY <1>1 DEF Faithful, Expression

LEMMA ReadHere ==
    ASSUME NEW e \in Faithful, NEW d \in Depths, NEW o \in e.reads[d]
    PROVE  o \in Objects /\ Covers(o, e.gives)
BY DEF Faithful, Expression

LEMMA GivesObjects == ASSUME NEW e \in Faithful PROVE e.gives \in SUBSET Objects /\ e.gives # {}
BY DEF Faithful, Expression

LEMMA PushFaithful == {EmptyLiteral, Nothing, Opaque} \subseteq Faithful
<1>1. NoKeys \in Objects /\ Covers(NoKeys, {NoKeys})
  BY NothingCovers
<1>2. [d \in Depths |-> AtDepth(d, {NoKeys})] \in [Depths -> SUBSET Objects]
  BY <1>1 DEF AtDepth
<1>3. \A d \in Depths : \A o \in [x \in Depths |-> AtDepth(x, {NoKeys})][d] : Covers(o, {NoKeys})
  BY <1>1 DEF AtDepth
<1>4. EmptyLiteral \in Faithful /\ Nothing \in Faithful
  BY <1>1, <1>2, <1>3, FaithfulBy DEF EmptyLiteral, Nothing
<1>5. Opaque \in Faithful
  BY <1>1, FaithfulBy DEF Opaque
<1> QED
  BY <1>4, <1>5

(* A literal property is on top of what stands before it.                  *)
LEMMA PropertyFaithful ==
    ASSUME NEW e \in Faithful, NEW key \in Keys, NEW value \in Values
    PROVE  WithProperty(e, key, value) \in Faithful
<1> DEFINE one == [k \in {key} |-> value]
           gives == {Merge(o, one) : o \in e.gives}
           reads == [d \in Depths |-> {Merge(o, one) : o \in e.reads[d]}]
<1>1. one \in Objects
  <2>1. one \in [{key} -> Values]
    OBVIOUS
  <2> QED
    BY <2>1 DEF Objects
<1>2. Covers(one, {one})
  BY DEF Covers
<1> HIDE DEF one
<1>3. gives \in SUBSET Objects /\ gives # {}
  BY <1>1, GivesObjects, MergeIsObject
<1>4. gives = {Merge(g, h) : g \in e.gives, h \in {one}}
  OBVIOUS
<1>5. ASSUME NEW d \in Depths, NEW m \in reads[d] PROVE m \in Objects /\ Covers(m, gives)
  <2>1. PICK o \in e.reads[d] : m = Merge(o, one)
    BY <1>5
  <2>2. o \in Objects /\ Covers(o, e.gives)
    BY <2>1, ReadHere
  <2>3. Covers(Merge(o, one), {Merge(g, h) : g \in e.gives, h \in {one}})
    BY <1>2, <2>2, GivesObjects, MergeCovers
  <2> QED
    BY <1>1, <1>4, <2>1, <2>2, <2>3, MergeIsObject
<1>6. reads \in [Depths -> SUBSET Objects]
  BY <1>5
<1> HIDE DEF gives, reads
<1>7. Literal(reads, gives) \in Faithful
  BY <1>3, <1>5, <1>6, FaithfulBy
<1> QED
  BY <1>7 DEF WithProperty, reads, gives, one

LEMMA SpreadFaithful ==
    ASSUME NEW e \in Faithful, NEW s \in Faithful PROVE WithSpread(e, s) \in Faithful
<1> DEFINE gives == {Merge(o, p) : o \in e.gives, p \in s.gives}
           read(d) == {Merge(o, p) : o \in e.reads[d], p \in s.reads[d + 1]}
           reads == [d \in Depths |-> AtDepth(d, read(d))]
<1>1. gives \in SUBSET Objects /\ gives # {}
  <2>1. e.gives \subseteq Objects /\ s.gives \subseteq Objects /\ e.gives # {} /\ s.gives # {}
    BY GivesObjects
  <2>2. \A o \in e.gives, p \in s.gives : Merge(o, p) \in Objects
    BY <2>1, MergeIsObject
  <2>3. \A m \in gives : m \in Objects
    BY <2>2
  <2>4. PICK o \in e.gives, p \in s.gives : Merge(o, p) \in gives
    BY <2>1
  <2> HIDE DEF gives
  <2> QED
    BY <2>3, <2>4
<1>2. ASSUME NEW d \in Depths, NEW m \in reads[d] PROVE m \in Objects /\ Covers(m, gives)
  <2>1. d <= MAX_RESOLVE_DEPTH /\ m \in read(d)
    BY <1>2, ArgAssumption DEF AtDepth, Depths
  <2>2. PICK o \in e.reads[d], p \in s.reads[d + 1] : m = Merge(o, p)
    BY <2>1
  <2>3. o \in Objects /\ Covers(o, e.gives)
    BY <2>2, ReadHere
  <2>4. p \in Objects /\ Covers(p, s.gives)
    BY <2>1, <2>2, ReadAbove
  <2>5. Covers(Merge(o, p), {Merge(g, h) : g \in e.gives, h \in s.gives})
    BY <2>3, <2>4, GivesObjects, MergeCovers
  <2> QED
    BY <2>2, <2>3, <2>4, <2>5, MergeIsObject
<1>3. reads \in [Depths -> SUBSET Objects]
  <2> HIDE DEF gives
  <2>1. ASSUME NEW d \in Depths PROVE reads[d] \in SUBSET Objects
    BY <1>2
  <2> QED
    BY <2>1
<1> HIDE DEF gives, reads
<1>4. Literal(reads, gives) \in Faithful
  BY <1>1, <1>2, <1>3, FaithfulBy
<1> QED
  BY <1>4 DEF WithSpread, reads, gives

LEMMA ConditionalFaithful ==
    ASSUME NEW t \in Faithful, NEW f \in Faithful PROVE Conditional(t, f) \in Faithful
<1> DEFINE gives == t.gives \union f.gives
           read(d) == {Merge(p, o) : o \in t.reads[d + 1], p \in f.reads[d + 1]}
           reads == [d \in Depths |-> AtDepth(d, read(d))]
<1>1. gives \in SUBSET Objects /\ gives # {}
  BY GivesObjects
<1>2. ASSUME NEW d \in Depths, NEW m \in reads[d] PROVE m \in Objects /\ Covers(m, gives)
  <2>1. d <= MAX_RESOLVE_DEPTH /\ m \in read(d)
    BY <1>2, ArgAssumption DEF AtDepth, Depths
  <2>2. PICK o \in t.reads[d + 1], p \in f.reads[d + 1] : m = Merge(p, o)
    BY <2>1
  <2>3. o \in Objects /\ Covers(o, t.gives)
    BY <2>1, <2>2, ReadAbove
  <2>4. p \in Objects /\ Covers(p, f.gives)
    BY <2>1, <2>2, ReadAbove
  <2>5. Covers(Merge(p, o), t.gives \union f.gives)
    BY <2>3, <2>4, BranchCovers
  <2> QED
    BY <2>2, <2>3, <2>4, <2>5, MergeIsObject
<1>3. reads \in [Depths -> SUBSET Objects]
  BY <1>2
<1> HIDE DEF gives, reads
<1>4. Other(reads, gives) \in Faithful
  BY <1>1, <1>2, <1>3, FaithfulBy
<1> QED
  BY <1>4 DEF Conditional, reads, gives

(* A name gives what it is initialised with, a guarded object or nothing.  *)
LEMMA WrapFaithful ==
    ASSUME NEW e \in Faithful PROVE Guarded(e) \in Faithful /\ ConstName(e) \in Faithful
<1> DEFINE reads == [d \in Depths |-> AtDepth(d, e.reads[d + 1])]
           guarded == {NoKeys} \union e.gives
<1>1. e.gives \in SUBSET Objects /\ e.gives # {} /\ guarded \in SUBSET Objects /\ guarded # {}
  BY GivesObjects, NothingCovers
<1>2. ASSUME NEW d \in Depths, NEW o \in reads[d] PROVE o \in Objects /\ Covers(o, e.gives)
  <2>1. d <= MAX_RESOLVE_DEPTH /\ o \in e.reads[d + 1]
    BY <1>2, ArgAssumption DEF AtDepth, Depths
  <2> QED
    BY <2>1, ReadAbove
<1>3. reads \in [Depths -> SUBSET Objects]
  BY <1>2
<1>4. ASSUME NEW d \in Depths, NEW o \in reads[d] PROVE Covers(o, guarded)
  <2>1. Covers(o, e.gives)
    BY <1>2
  <2>2. DOMAIN NoKeys = {}
    BY DEF NoKeys
  <2> QED
    BY <2>1, <2>2 DEF Covers
<1> HIDE DEF reads, guarded
<1>5. Other(reads, guarded) \in Faithful /\ Other(reads, e.gives) \in Faithful
  BY <1>1, <1>2, <1>3, <1>4, FaithfulBy
<1> QED
  BY <1>5 DEF Guarded, ConstName, reads, guarded

LEMMA DropPending ==
    ASSUME ArgInv, NEW n \in Nat, n <= Len(pending) PROVE Drop(n) \in Seq(Faithful)
<1>1. Len(pending) - n \in 0..Len(pending)
  BY DEF ArgInv
<1> QED
  BY <1>1 DEF ArgInv, Drop

LEMMA ArgStep == ASSUME ArgInv, [ArgNext]_argVars PROVE ArgInv'
<1>1. CASE Push
  <2>1. PICK e \in Faithful : pending' = Append(pending, e)
    BY <1>1, PushFaithful DEF Push
  <2> QED
    BY <2>1 DEF ArgInv
<1>2. ASSUME pending # <<>> PROVE Top \in Faithful /\ Drop(1) \in Seq(Faithful)
  <2>1. Len(pending) \in Nat /\ Len(pending) >= 1
    BY <1>2 DEF ArgInv
  <2> QED
    BY <2>1, DropPending DEF ArgInv, Top
<1>3. CASE Wrap
  BY <1>2, <1>3, WrapFaithful DEF Wrap, ArgInv
<1>4. CASE AddProperty
  <2>1. PICK key \in Keys, value \in Values :
           pending' = Append(Drop(1), WithProperty(Top, key, value))
    BY <1>4 DEF AddProperty
  <2> QED
    BY <1>2, <1>4, <2>1, PropertyFaithful DEF AddProperty, ArgInv
<1>5. CASE Combine
  <2>1. Len(pending) \in Nat /\ Len(pending) >= 2
    BY <1>5 DEF ArgInv, Combine
  <2>2. Top \in Faithful /\ Below \in Faithful /\ Drop(2) \in Seq(Faithful)
    BY <2>1, DropPending DEF ArgInv, Top, Below
  <2>3. Conditional(Below, Top) \in Faithful /\ WithSpread(Below, Top) \in Faithful
    BY <2>2, ConditionalFaithful, SpreadFaithful
  <2>4. PICK e \in Faithful : pending' = Append(Drop(2), e)
    BY <1>5, <2>3 DEF Combine
  <2> QED
    BY <2>2, <2>4 DEF ArgInv
<1>6. CASE UNCHANGED argVars
  BY <1>6 DEF argVars, ArgInv
<1> QED
  BY <1>1, <1>3, <1>4, <1>5, <1>6 DEF ArgNext

(* Whatever an argument is built of, what readObject returns at any depth  *)
(* covers the objects it can be.                                           *)
THEOREM ArgInvariance == ArgSpec => []ArgInv
<1>1. ArgInit => ArgInv
  BY DEF ArgInit, ArgInv
<1> QED
  BY <1>1, ArgStep, PTL DEF ArgSpec

LEMMA ArgumentRead ==
    ASSUME ArgInv, NEW e \in Arguments
    PROVE  e.gives # {} /\ \A o \in e.reads[0] : Covers(o, e.gives)
<1>1. e \in Faithful
  BY DEF ArgInv, Arguments
<1>2. 0 \in Depths
  BY ArgAssumption DEF Depths
<1> QED
  BY <1>1, <1>2 DEF Faithful

(* However deep names, spreads and conditions are nested, and wherever the *)
(* reader gives up: a key reported as absent is absent from every run.     *)
THEOREM AbsenceIsRealHolds == ArgSpec => []AbsenceIsReal
<1>1. ASSUME ArgInv PROVE AbsenceIsReal
  <2>1. SUFFICES ASSUME NEW e \in Arguments, NEW g \in e.gives, ArgsResolved(e), NEW key,
                        ~Has(e, key)
                 PROVE  key \notin DOMAIN g
    BY DEF AbsenceIsReal, MissingPagination, UnboundedMutation, Confidence
  <2>2. PICK o \in e.reads[0] : key \notin DOMAIN o
    BY <2>1 DEF ArgsResolved, Has
  <2>3. DOMAIN g \subseteq DOMAIN o
    BY <1>1, ArgumentRead DEF Covers
  <2> QED
    BY <2>2, <2>3
<1> QED
  BY <1>1, ArgInvariance, PTL

(* A reported mutation affects all rows in some run, and one that does in  *)
(* every run is reported if its argument can be read.                      *)
THEOREM UnboundedIsReportedHolds == ArgSpec => []UnboundedIsReported
<1>1. ASSUME ArgInv, NEW e \in Arguments, UnboundedMutation(e)
      PROVE  \E g \in e.gives : RestrictsNothing(g)
  <2>1. e.gives # {} /\ \A o \in e.reads[0] : Covers(o, e.gives)
    BY <1>1, ArgumentRead
  <2>2. CASE ~Has(e, "where")
    <3>1. PICK o \in e.reads[0] : "where" \notin DOMAIN o
      BY <1>1, <2>2 DEF UnboundedMutation, ArgsResolved, Has
    <3>2. PICK g \in e.gives : DOMAIN g \subseteq DOMAIN o
      BY <2>1 DEF Covers
    <3>3. "where" \notin DOMAIN g
      BY <3>1, <3>2
    <3> QED
      BY <3>3 DEF RestrictsNothing
  <2>3. CASE WhereEmpty(e)
    <3>1. PICK o \in e.reads[0] : "where" \in DOMAIN o /\ o["where"] = "empty"
      BY <2>3 DEF WhereEmpty
    <3>2. PICK g \in e.gives : "where" \in DOMAIN g /\ g["where"] = o["where"]
      BY <2>1, <3>1 DEF Covers
    <3> QED
      BY <3>1, <3>2 DEF RestrictsNothing
  <2> QED
    BY <1>1, <2>2, <2>3 DEF UnboundedMutation
<1>2. ASSUME ArgInv, NEW e \in Arguments, ArgsResolved(e), \A g \in e.gives : RestrictsNothing(g)
      PROVE  UnboundedMutation(e)
  <2>1. SUFFICES ASSUME Has(e, "where") PROVE WhereEmpty(e)
    BY <1>2 DEF UnboundedMutation
  <2>2. PICK o \in e.reads[0] : "where" \in DOMAIN o
    BY <2>1 DEF Has
  <2>3. Covers(o, e.gives)
    BY <1>2, ArgumentRead
  <2>4. PICK g \in e.gives : "where" \in DOMAIN g /\ g["where"] = o["where"]
    BY <2>2, <2>3 DEF Covers
  <2>5. o["where"] = "empty"
    BY <1>2, <2>4 DEF RestrictsNothing
  <2> QED
    BY <2>2, <2>5 DEF WhereEmpty
<1>3. ArgInv => UnboundedIsReported
  BY <1>1, <1>2 DEF UnboundedIsReported
<1> QED
  BY <1>3, ArgInvariance, PTL

-----------------------------------------------------------------------------

(* Calls one after the other, of which no three run the same statement.    *)
Straight(steps) ==
    /\ Len(steps) \in Nat
    /\ \A i \in 1..Len(steps) : ~steps[i].eachRow
    /\ \A i, j, k \in 1..Len(steps) :
          i < j /\ j < k => Shape(steps[i]) # Shape(steps[j]) \/ Shape(steps[j]) # Shape(steps[k])

(* A list and a query for each of its rows.                                *)
Looped(steps) ==
    /\ Len(steps) = 2
    /\ ~steps[1].eachRow
    /\ steps[2].eachRow /\ steps[2].loads = {} /\ ~steps[2].orNotFound
    /\ Shape(steps[1]) # Shape(steps[2])

LEMMA InOrder ==
    /\ \A m, w : /\ ~FindMany(m, w).eachRow /\ ~Page(m, w).eachRow
                 /\ ~FindUnique(m, w).eachRow /\ ~CountRows(m, w).eachRow
                 /\ ~GroupBy(m, w).eachRow /\ ~Aggregate(m, w).eachRow
                 /\ ~OrNotFound(FindUnique(m, w)).eachRow
                 /\ ~Shorthand(CountRows(m, w)).eachRow /\ ~Shorthand(Page(m, w)).eachRow
    /\ \A m, w, l : /\ ~With(FindMany(m, w), l).eachRow /\ ~With(Page(m, w), l).eachRow
                    /\ ~With(FindUnique(m, w), l).eachRow
                    /\ ~OrNotFound(With(FindUnique(m, w), l)).eachRow
                    /\ ~OrNotFound(With(FindFirst(m, w), l)).eachRow
BY DEF Call, FindMany, Page, FindUnique, FindFirst, CountRows, GroupBy, Aggregate,
       With, OrNotFound, Shorthand

LEMMA ShortIsStraight ==
    /\ \A a : ~a.eachRow => Straight(<<a>>)
    /\ \A a, b : ~a.eachRow /\ ~b.eachRow => Straight(<<a, b>>)
BY DEF Straight

LEMMA ThreeStraight ==
    ASSUME NEW steps, Len(steps) = 3,
           ~steps[1].eachRow /\ ~steps[2].eachRow /\ ~steps[3].eachRow,
           Shape(steps[2]) # Shape(steps[3])
    PROVE  Straight(steps)
BY DEF Straight

LEMMA FourStraight ==
    ASSUME NEW steps, Len(steps) = 4,
           ~steps[1].eachRow /\ ~steps[2].eachRow /\ ~steps[3].eachRow /\ ~steps[4].eachRow,
           Shape(steps[1]) # Shape(steps[2]), Shape(steps[3]) # Shape(steps[4])
    PROVE  Straight(steps)
BY DEF Straight

LEMMA BlogShort ==
    /\ Straight(AuthorsIdCard)  /\ Straight(AuthorsId)  /\ Straight(CommentsExport)
    /\ Straight(CommentsRecent)  /\ Straight(Comments)  /\ Straight(PostsSlugComments)
    /\ Straight(PostsSlugMeta)  /\ Straight(PostsSlug)  /\ Straight(PostsNew)
    /\ Straight(Posts)  /\ Straight(PostsSearch)  /\ Straight(SearchIndex)
    /\ Straight(Sitemap)  /\ Straight(TagsSlug)  /\ Straight(TagsCloud)
    /\ Straight(Tags)
BY InOrder, ShortIsStraight
DEF AuthorsIdCard, AuthorsId, CommentsExport, CommentsRecent, Comments,
      PostsSlugComments, PostsSlugMeta, PostsSlug, PostsNew, Posts, PostsSearch,
      SearchIndex, Sitemap, TagsSlug, TagsCloud, Tags

LEMMA EcommerceShort ==
    /\ Straight(CategoriesSlugRatings)  /\ Straight(CategoriesSlug)  /\ Straight(Categories)
    /\ Straight(CustomersIdOrders)  /\ Straight(CustomersId)  /\ Straight(OrdersId)
    /\ Straight(Orders)  /\ Straight(ProductsId)  /\ Straight(ProductsExport)
    /\ Straight(ProductsLowStock)  /\ Straight(Products)  /\ Straight(ProductsSearch)
    /\ Straight(ProductsSitemap)  /\ Straight(Reviews)  /\ Straight(StatsCategories)
    /\ Straight(StatsRevenue)
BY InOrder, ShortIsStraight
DEF CategoriesSlugRatings, CategoriesSlug, Categories, CustomersIdOrders,
      CustomersId, OrdersId, Orders, ProductsId, ProductsExport, ProductsLowStock,
      Products, ProductsSearch, ProductsSitemap, Reviews, StatsCategories,
      StatsRevenue

LEMMA BlogLong ==
    /\ Straight(AuthorsIdStats)  /\ Straight(PostsSlugRelated)  /\ Straight(Stats)
<1>1. Straight(AuthorsIdStats)
  <2>1. Len(AuthorsIdStats) = 4
    BY DEF AuthorsIdStats
  <2>2. /\ ~AuthorsIdStats[1].eachRow /\ ~AuthorsIdStats[2].eachRow
        /\ ~AuthorsIdStats[3].eachRow /\ ~AuthorsIdStats[4].eachRow
    BY InOrder DEF AuthorsIdStats
  <2>3. /\ Shape(AuthorsIdStats[1]) # Shape(AuthorsIdStats[2])
        /\ Shape(AuthorsIdStats[3]) # Shape(AuthorsIdStats[4])
    BY DEF AuthorsIdStats, Shape, Call, FindMany, Page, FindUnique, FindFirst,
           CountRows, GroupBy, Aggregate, With, OrNotFound
  <2> QED
    BY <2>1, <2>2, <2>3, FourStraight
<1>2. Straight(PostsSlugRelated)
  <2>1. Len(PostsSlugRelated) = 3
    BY DEF PostsSlugRelated
  <2>2. /\ ~PostsSlugRelated[1].eachRow /\ ~PostsSlugRelated[2].eachRow
        /\ ~PostsSlugRelated[3].eachRow
    BY InOrder DEF PostsSlugRelated, FindPublishedPost
  <2>3. Shape(PostsSlugRelated[2]) # Shape(PostsSlugRelated[3])
    BY DEF PostsSlugRelated, FindPublishedPost, Shape, Call, FindMany, Page,
           FindUnique, FindFirst, CountRows, GroupBy, Aggregate, With, OrNotFound
  <2> QED
    BY <2>1, <2>2, <2>3, ThreeStraight
<1>3. Straight(Stats)
  <2>1. Len(Stats) = 4
    BY DEF Stats
  <2>2. ~Stats[1].eachRow /\ ~Stats[2].eachRow /\ ~Stats[3].eachRow /\ ~Stats[4].eachRow
    BY InOrder DEF Stats
  <2>3. Shape(Stats[1]) # Shape(Stats[2]) /\ Shape(Stats[3]) # Shape(Stats[4])
    BY DEF Stats, Shape, Call, FindMany, Page, FindUnique, FindFirst, CountRows,
           GroupBy, Aggregate, With, OrNotFound
  <2> QED
    BY <2>1, <2>2, <2>3, FourStraight
<1> QED
  BY <1>1, <1>2, <1>3

LEMMA EcommerceLong ==
    /\ Straight(CustomersIdSummary)  /\ Straight(ProductsIdRelated)  /\ Straight(StatsOverview)
    /\ Straight(StatsSales)
<1>1. Straight(CustomersIdSummary)
  <2>1. Len(CustomersIdSummary) = 3
    BY DEF CustomersIdSummary
  <2>2. /\ ~CustomersIdSummary[1].eachRow /\ ~CustomersIdSummary[2].eachRow
        /\ ~CustomersIdSummary[3].eachRow
    BY InOrder DEF CustomersIdSummary
  <2>3. Shape(CustomersIdSummary[2]) # Shape(CustomersIdSummary[3])
    BY DEF CustomersIdSummary, Shape, Call, FindMany, Page, FindUnique, FindFirst,
           CountRows, GroupBy, Aggregate, With, OrNotFound
  <2> QED
    BY <2>1, <2>2, <2>3, ThreeStraight
<1>2. Straight(ProductsIdRelated)
  <2>1. Len(ProductsIdRelated) = 3
    BY DEF ProductsIdRelated
  <2>2. /\ ~ProductsIdRelated[1].eachRow /\ ~ProductsIdRelated[2].eachRow
        /\ ~ProductsIdRelated[3].eachRow
    BY InOrder DEF ProductsIdRelated, LoadProduct
  <2>3. Shape(ProductsIdRelated[2]) # Shape(ProductsIdRelated[3])
    BY DEF ProductsIdRelated, LoadProduct, Shape, Call, FindMany, Page, FindUnique,
           FindFirst, CountRows, GroupBy, Aggregate, With, OrNotFound
  <2> QED
    BY <2>1, <2>2, <2>3, ThreeStraight
<1>3. Straight(StatsOverview)
  <2>1. Len(StatsOverview) = 4
    BY DEF StatsOverview
  <2>2. /\ ~StatsOverview[1].eachRow /\ ~StatsOverview[2].eachRow
        /\ ~StatsOverview[3].eachRow /\ ~StatsOverview[4].eachRow
    BY InOrder DEF StatsOverview
  <2>3. /\ Shape(StatsOverview[1]) # Shape(StatsOverview[2])
        /\ Shape(StatsOverview[3]) # Shape(StatsOverview[4])
    BY DEF StatsOverview, Shape, Call, FindMany, Page, FindUnique, FindFirst, CountRows,
           GroupBy, Aggregate, With, OrNotFound
  <2> QED
    BY <2>1, <2>2, <2>3, FourStraight
<1>4. Straight(StatsSales)
  <2>1. Len(StatsSales) = 3
    BY DEF StatsSales
  <2>2. ~StatsSales[1].eachRow /\ ~StatsSales[2].eachRow /\ ~StatsSales[3].eachRow
    BY InOrder DEF StatsSales
  <2>3. Shape(StatsSales[2]) # Shape(StatsSales[3])
    BY DEF StatsSales, Shape, Call, FindMany, Page, FindUnique, FindFirst, CountRows,
           GroupBy, Aggregate, With, OrNotFound
  <2> QED
    BY <2>1, <2>2, <2>3, ThreeStraight
<1> QED
  BY <1>1, <1>2, <1>3, <1>4

LEMMA RowLoops ==
    /\ Looped(Feed) /\ Looped(Authors) /\ Looped(TagsSlugPosts)
    /\ Looped(CategoriesOverview) /\ Looped(OrdersIdInvoice) /\ Looped(OrdersRecent)
<1>1. Looped(Feed)
  BY DEF Feed, Looped, Shape, Call, FindMany, Page, FindUnique, CountRows, With,
         ForEachRow, OrNotFound
<1>2. Looped(Authors)
  BY DEF Authors, Looped, Shape, Call, FindMany, Page, FindUnique, CountRows, With,
         ForEachRow, OrNotFound
<1>3. Looped(TagsSlugPosts)
  BY DEF TagsSlugPosts, Looped, Shape, Call, FindMany, Page, FindUnique, CountRows,
         With, ForEachRow, OrNotFound
<1>4. Looped(CategoriesOverview)
  BY DEF CategoriesOverview, Looped, Shape, Call, FindMany, Page, FindUnique,
         CountRows, With, ForEachRow, OrNotFound
<1>5. Looped(OrdersIdInvoice)
  BY DEF OrdersIdInvoice, Looped, Shape, Call, FindMany, Page, FindUnique, CountRows,
         With, ForEachRow, OrNotFound
<1>6. Looped(OrdersRecent)
  BY DEF OrdersRecent, Looped, Shape, Call, FindMany, Page, FindUnique, CountRows,
         With, ForEachRow, OrNotFound
<1> QED
  BY <1>1, <1>2, <1>3, <1>4, <1>5, <1>6

LEMMA BlogKinds ==
    ASSUME NEW r \in DOMAIN BlogHandlers
    PROVE  \/ Straight(BlogHandlers[r])
           \/ Looped(BlogHandlers[r]) /\ r \in DOMAIN BlogLabels /\ BlogLabels[r] = "n_plus_one"
BY BlogShort, BlogLong, RowLoops DEF BlogHandlers, BlogLabels

LEMMA EcommerceKinds ==
    ASSUME NEW r \in DOMAIN EcommerceHandlers
    PROVE  \/ Straight(EcommerceHandlers[r])
           \/ Looped(EcommerceHandlers[r])
              /\ r \in DOMAIN EcommerceLabels /\ EcommerceLabels[r] = "n_plus_one"
BY EcommerceShort, EcommerceLong, RowLoops DEF EcommerceHandlers, EcommerceLabels

LEMMA RouteKinds ==
    ASSUME NEW r \in DOMAIN Handlers
    PROVE  \/ Straight(Handlers[r])
           \/ Looped(Handlers[r]) /\ SeededTypes(r) = {"n_plus_one"}
<1>1. DOMAIN BlogLabels \subseteq DOMAIN BlogHandlers
  BY DEF BlogLabels, BlogHandlers
<1>2. CASE r \in DOMAIN BlogHandlers
  <2>1. Handlers[r] = BlogHandlers[r]
    BY <1>2 DEF Handlers, Both
  <2>2. r \in DOMAIN BlogLabels => SeededTypes(r) = {BlogLabels[r]}
    BY DEF SeededTypes, Seeded, Both
  <2>3. \/ Straight(BlogHandlers[r])
        \/ Looped(BlogHandlers[r]) /\ r \in DOMAIN BlogLabels /\ BlogLabels[r] = "n_plus_one"
    BY <1>2, BlogKinds
  <2> QED
    BY <2>1, <2>2, <2>3
<1>3. CASE r \notin DOMAIN BlogHandlers
  <2>1. r \in DOMAIN EcommerceHandlers /\ Handlers[r] = EcommerceHandlers[r]
    BY <1>3 DEF Handlers, Both
  <2>2. r \in DOMAIN EcommerceLabels => SeededTypes(r) = {EcommerceLabels[r]}
    BY <1>1, <1>3 DEF SeededTypes, Seeded, Both
  <2>3. \/ Straight(EcommerceHandlers[r])
        \/ Looped(EcommerceHandlers[r]) /\ r \in DOMAIN EcommerceLabels
           /\ EcommerceLabels[r] = "n_plus_one"
    BY <2>1, EcommerceKinds
  <2> QED
    BY <2>1, <2>2, <2>3
<1> QED
  BY <1>2, <1>3

LEMMA StepCount ==
    ASSUME NEW r \in DOMAIN Handlers PROVE Len(Handlers[r]) \in Nat
BY RouteKinds DEF Straight, Looped

-----------------------------------------------------------------------------
(* What the static rules report of each handler, call by call: columns of  *)
(* the schemas first, then the forms of a call, then the routes.           *)

Types(c) == StaticTypes(Schema, c)

(* What the rules report of a handler's calls.                             *)
Report(steps) == UNION {Types(steps[i]) : i \in 1..Len(steps)}

(* A filter on k starts at an index of the model.                          *)
Leads(m, k) ==
    /\ k \notin Schema[m].lists
    /\ (IF k \in DOMAIN Schema[m].keyOf THEN Schema[m].keyOf[k] ELSE k) \in Schema[m].leading

(* A filter on k, a column of the model itself, starts at none.            *)
Misses(m, k) ==
    k \notin Schema[m].lists /\ k \notin DOMAIN Schema[m].keyOf /\ k \notin Schema[m].leading

LEMMA TypesAre ==
    ASSUME NEW c
    PROVE  Types(c) = (IF InLoop(c) THEN {"n_plus_one"} ELSE {})
                      \union (IF MissingIndex(Schema, c) THEN {"missing_index"} ELSE {})
                      \union (IF Unpaginated(c) THEN {"unpaginated_find_many"} ELSE {})
BY DEF Types, StaticTypes

LEMMA ByKey ==
    /\ \A m, w : /\ Types(FindUnique(m, w)) = {}
                 /\ Types(GroupBy(m, w)) = {} /\ Types(Aggregate(m, w)) = {}
                 /\ Types(OrNotFound(FindUnique(m, w))) = {}
                 /\ Types(ForEachRow(FindUnique(m, w))) = {"n_plus_one"}
    /\ \A m, w, l : /\ Types(With(FindUnique(m, w), l)) = {}
                    /\ Types(OrNotFound(With(FindUnique(m, w), l))) = {}
BY TypesAre DEF Call, FindUnique, GroupBy, Aggregate, With, OrNotFound, ForEachRow,
   InLoop, MissingIndex, Unpaginated, FILTERING_OPERATIONS

LEMMA NoFilter ==
    /\ \A m : /\ Types(Page(m, {})) = {} /\ Types(CountRows(m, {})) = {}
              /\ Types(FindMany(m, {})) = {"unpaginated_find_many"}
    /\ \A m, l : Types(With(FindMany(m, {}), l)) = {"unpaginated_find_many"}
<1>1. \A m : FilteredColumns(Schema[m], {}) = {}
  BY DEF FilteredColumns
<1> QED
  BY <1>1, TypesAre DEF Call, FindMany, Page, CountRows, With, InLoop, MissingIndex, Unpaginated

LEMMA Unreadable ==
    \A m, w : Types(Shorthand(CountRows(m, w))) = {} /\ Types(Shorthand(Page(m, w))) = {}
BY TypesAre DEF Call, FindMany, Page, CountRows, Shorthand, InLoop, MissingIndex, Unpaginated

LEMMA IndexedFilter ==
    ASSUME NEW m, NEW w, NEW k \in w, Leads(m, k)
    PROVE  /\ Types(Page(m, w)) = {} /\ Types(CountRows(m, w)) = {}
           /\ Types(FindMany(m, w)) = {"unpaginated_find_many"}
           /\ \A l : /\ Types(With(Page(m, w), l)) = {}
                     /\ Types(OrNotFound(With(FindFirst(m, w), l))) = {}
                     /\ Types(With(FindMany(m, w), l)) = {"unpaginated_find_many"}
           /\ Types(ForEachRow(Page(m, w))) = {"n_plus_one"}
           /\ Types(ForEachRow(CountRows(m, w))) = {"n_plus_one"}
<1>1. FilteredColumns(Schema[m], w) \intersect Schema[m].leading # {}
  BY DEF FilteredColumns, Leads
<1> QED
  BY <1>1, TypesAre DEF Call, FindMany, FindFirst, Page, CountRows, With, OrNotFound, ForEachRow,
     InLoop, MissingIndex, Unpaginated

LEMMA UnindexedFilter ==
    ASSUME NEW m, NEW k, Misses(m, k)
    PROVE  /\ Types(Page(m, {k})) = {"missing_index"}
           /\ \A l : Types(With(Page(m, {k}), l)) = {"missing_index"}
<1>1. FilteredColumns(Schema[m], {k}) = {k}
  BY DEF FilteredColumns, Misses
<1>2. k \notin Schema[m].leading
  BY DEF Misses
<1> QED
  BY <1>1, <1>2, TypesAre DEF Call, FindMany, Page, With, InLoop, MissingIndex, Unpaginated,
     FILTERING_OPERATIONS

LEMMA Reports ==
    /\ \A a : Report(<<a>>) = Types(a)
    /\ \A a, b : Report(<<a, b>>) = Types(a) \union Types(b)
    /\ \A a, b, c : Report(<<a, b, c>>) = Types(a) \union Types(b) \union Types(c)
    /\ \A a, b, c, d :
          Report(<<a, b, c, d>>) = Types(a) \union Types(b) \union Types(c) \union Types(d)
<1>1. ASSUME NEW a PROVE Report(<<a>>) = Types(a)
  BY DEF Report
<1>2. ASSUME NEW a, NEW b PROVE Report(<<a, b>>) = Types(a) \union Types(b)
  BY DEF Report
<1>3. ASSUME NEW a, NEW b, NEW c
      PROVE  Report(<<a, b, c>>) = Types(a) \union Types(b) \union Types(c)
  BY DEF Report
<1>4. ASSUME NEW a, NEW b, NEW c, NEW d
      PROVE  Report(<<a, b, c, d>>) = Types(a) \union Types(b) \union Types(c) \union Types(d)
  BY DEF Report
<1> QED
  BY <1>1, <1>2, <1>3, <1>4

LEMMA BlogColumns ==
    /\ Leads("Author", "id") /\ Leads("Post", "authorId") /\ Leads("Post", "status")
    /\ Leads("Post", "slug") /\ Leads("Post", "id") /\ Leads("Comment", "post") 
    /\ Leads("Comment", "postId") /\ Leads("PostTag", "tag")
    /\ Misses("Comment", "createdAt") /\ Misses("Comment", "authorEmail")
    /\ Misses("Post", "createdAt")
<1>1. /\ Schema["Author"] = BlogSchema["Author"] /\ Schema["Post"] = BlogSchema["Post"]
      /\ Schema["Comment"] = BlogSchema["Comment"] /\ Schema["PostTag"] = BlogSchema["PostTag"]
  BY DEF Schema, Both, BlogSchema
<1> QED
  BY <1>1 DEF BlogSchema, Leads, Misses

LEMMA EcommerceColumns ==
    /\ Leads("Product", "categoryId") /\ Leads("Product", "id") /\ Leads("Product", "name")
    /\ Leads("Order", "customerId") /\ Leads("Order", "createdAt") /\ Leads("Category", "id")
    /\ Misses("Product", "stock") /\ Misses("Review", "rating")
<1>1. /\ Schema["Product"] = EcommerceSchema["Product"] /\ Schema["Order"] = EcommerceSchema["Order"]
      /\ Schema["Category"] = EcommerceSchema["Category"]
      /\ Schema["Review"] = EcommerceSchema["Review"]
  BY DEF Schema, Both, BlogSchema, EcommerceSchema
<1> QED
  BY <1>1 DEF EcommerceSchema, Leads, Misses
LEMMA BlogClean ==
    /\ Report(AuthorsIdCard) = {} /\ Report(AuthorsId) = {} /\ Report(AuthorsIdStats) = {}
    /\ Report(PostsSlugComments) = {} /\ Report(PostsSlugMeta) = {}
    /\ Report(PostsSlugRelated) = {} /\ Report(PostsSlug) = {} /\ Report(Posts) = {}
    /\ Report(PostsSearch) = {} /\ Report(Stats) = {} /\ Report(TagsSlug) = {}
    /\ Report(TagsCloud) = {} /\ Report(Tags) = {}
<1>1. /\ Report(AuthorsIdCard) = {} /\ Report(AuthorsId) = {} /\ Report(PostsSlugMeta) = {}
      /\ Report(PostsSlug) = {} /\ Report(TagsSlug) = {}
  BY ByKey, Reports DEF AuthorsIdCard, AuthorsId, PostsSlugMeta, PostsSlug, TagsSlug
<1>2. Report(TagsCloud) = {} /\ Report(Tags) = {}
  BY NoFilter, Reports DEF TagsCloud, Tags
<1>3. /\ Types(CountRows("Post", {"authorId", "status"})) = {}
      /\ Types(CountRows("Comment", {"post"})) = {} /\ Types(Page("Comment", {"post"})) = {}
      /\ Types(Page("Author", {"id"})) = {} /\ Types(Page("Post", {"id"})) = {}
      /\ Types(Page("Post", {"status", "id", "tags"})) = {}
  BY BlogColumns, IndexedFilter
<1>4. /\ \A l : /\ Types(OrNotFound(With(FindFirst("Post", {"slug", "status"}), l))) = {}
                /\ Types(With(Page("Post", {"status", "tags"}), l)) = {}
                /\ Types(With(Page("Post", {"status", "title"}), l)) = {}
  BY BlogColumns, IndexedFilter
<1>5. Report(AuthorsIdStats) = {} /\ Report(PostsSlugComments) = {}
  BY <1>3, ByKey, Reports DEF AuthorsIdStats, PostsSlugComments
<1>6. Report(PostsSlugRelated) = {} /\ Report(Posts) = {} /\ Report(PostsSearch) = {}
  BY <1>3, <1>4, Reports DEF PostsSlugRelated, FindPublishedPost, Posts, PostsSearch
<1>7. Report(Stats) = {}
  BY <1>3, ByKey, Reports DEF Stats
<1> QED
  BY <1>1, <1>2, <1>5, <1>6, <1>7

LEMMA BlogSeeded ==
    /\ Report(Feed) = {"n_plus_one"} /\ Report(Authors) = {"n_plus_one"}
    /\ Report(TagsSlugPosts) = {"n_plus_one"}
    /\ Report(Comments) = {"missing_index"} /\ Report(CommentsRecent) = {"missing_index"}
    /\ Report(PostsNew) = {"missing_index"}
    /\ Report(Sitemap) = {"unpaginated_find_many"}
    /\ Report(CommentsExport) = {"unpaginated_find_many"}
    /\ Report(SearchIndex) = {"unpaginated_find_many"}
<1>1. /\ \A l : Types(With(Page("Post", {"status"}), l)) = {}
      /\ Types(Page("PostTag", {"tag"})) = {}
      /\ Types(ForEachRow(CountRows("Comment", {"postId"}))) = {"n_plus_one"}
      /\ Types(ForEachRow(CountRows("Post", {"authorId", "status"}))) = {"n_plus_one"}
  BY BlogColumns, IndexedFilter
<1>2. Report(Feed) = {"n_plus_one"}
  BY <1>1, Reports DEF Feed
<1>3. Report(Authors) = {"n_plus_one"}
  BY <1>1, NoFilter, Reports DEF Authors
<1>4. Report(TagsSlugPosts) = {"n_plus_one"}
  BY <1>1, ByKey, Reports DEF TagsSlugPosts
<1>5. /\ Report(Comments) = {"missing_index"} /\ Report(CommentsRecent) = {"missing_index"}
      /\ Report(PostsNew) = {"missing_index"}
  BY BlogColumns, UnindexedFilter, Reports DEF Comments, CommentsRecent, PostsNew
<1>6. /\ Types(FindMany("Post", {"status"})) = {"unpaginated_find_many"}
      /\ \A l : Types(With(FindMany("Post", {"status"}), l)) = {"unpaginated_find_many"}
  BY BlogColumns, IndexedFilter
<1>7. /\ Report(Sitemap) = {"unpaginated_find_many"}
      /\ Report(SearchIndex) = {"unpaginated_find_many"}
  BY <1>6, Reports DEF Sitemap, SearchIndex
<1>8. Report(CommentsExport) = {"unpaginated_find_many"}
  BY NoFilter, Reports DEF CommentsExport
<1> QED
  BY <1>2, <1>3, <1>4, <1>5, <1>7, <1>8

LEMMA EcommerceClean ==
    /\ Report(CategoriesSlugRatings) = {} /\ Report(CategoriesSlug) = {}
    /\ Report(Categories) = {} /\ Report(CustomersIdOrders) = {} /\ Report(CustomersId) = {}
    /\ Report(CustomersIdSummary) = {} /\ Report(OrdersId) = {} /\ Report(Orders) = {}
    /\ Report(ProductsIdRelated) = {} /\ Report(ProductsId) = {} /\ Report(Products) = {}
    /\ Report(ProductsSearch) = {} /\ Report(StatsCategories) = {}
    /\ Report(StatsOverview) = {} /\ Report(StatsSales) = {}
<1>1. /\ Report(CategoriesSlugRatings) = {} /\ Report(CategoriesSlug) = {}
      /\ Report(CustomersId) = {} /\ Report(OrdersId) = {}
      /\ Report(CustomersIdSummary) = {} /\ Report(ProductsId) = {}
  BY ByKey, Reports DEF CategoriesSlugRatings, CategoriesSlug, CustomersId, OrdersId,
     CustomersIdSummary, ProductsId
<1>2. Report(Categories) = {} /\ Report(StatsOverview) = {}
  BY NoFilter, ByKey, Reports DEF Categories, StatsOverview
<1>3. Report(Orders) = {}
  BY Unreadable, Reports DEF Orders
<1>4. /\ Types(Page("Order", {"customerId"})) = {} /\ Types(Page("Category", {"id"})) = {}
      /\ Types(Page("Product", {"id"})) = {}
      /\ Types(Page("Product", {"categoryId", "id"})) = {}
      /\ \A l : /\ Types(With(Page("Product", {"categoryId"}), l)) = {}
                /\ Types(With(Page("Product", {"name"}), l)) = {}
  BY EcommerceColumns, IndexedFilter
<1>5. /\ Report(CustomersIdOrders) = {} /\ Report(Products) = {}
      /\ Report(ProductsSearch) = {}
  BY <1>4, Reports DEF CustomersIdOrders, Products, ProductsSearch
<1>6. /\ Report(ProductsIdRelated) = {} /\ Report(StatsCategories) = {}
      /\ Report(StatsSales) = {}
  BY <1>4, ByKey, Reports DEF ProductsIdRelated, LoadProduct, StatsCategories, StatsSales
<1> QED
  BY <1>1, <1>2, <1>3, <1>5, <1>6

LEMMA EcommerceSeeded ==
    /\ Report(OrdersRecent) = {"n_plus_one"} /\ Report(CategoriesOverview) = {"n_plus_one"}
    /\ Report(OrdersIdInvoice) = {"n_plus_one"}
    /\ Report(ProductsLowStock) = {"missing_index"} /\ Report(Reviews) = {"missing_index"}
    /\ Report(ProductsExport) = {"unpaginated_find_many"}
    /\ Report(StatsRevenue) = {"unpaginated_find_many"}
    /\ Report(ProductsSitemap) = {"unpaginated_find_many"}
<1>1. Types(ForEachRow(Page("Product", {"categoryId"}))) = {"n_plus_one"}
  BY EcommerceColumns, IndexedFilter
<1>2. Report(OrdersRecent) = {"n_plus_one"} /\ Report(CategoriesOverview) = {"n_plus_one"}
  BY <1>1, NoFilter, ByKey, Reports DEF OrdersRecent, CategoriesOverview
<1>3. Report(OrdersIdInvoice) = {"n_plus_one"}
  BY ByKey, Reports DEF OrdersIdInvoice
<1>4. Report(ProductsLowStock) = {"missing_index"} /\ Report(Reviews) = {"missing_index"}
  BY EcommerceColumns, UnindexedFilter, Reports DEF ProductsLowStock, Reviews
<1>5. /\ Report(ProductsExport) = {"unpaginated_find_many"}
      /\ Report(ProductsSitemap) = {"unpaginated_find_many"}
  BY NoFilter, Reports DEF ProductsExport, ProductsSitemap
<1>6. Types(FindMany("Order", {"createdAt", "status"})) = {"unpaginated_find_many"}
  BY EcommerceColumns, IndexedFilter
<1>7. Report(StatsRevenue) = {"unpaginated_find_many"}
  BY <1>6, Reports DEF StatsRevenue
<1> QED
  BY <1>2, <1>3, <1>4, <1>5, <1>7

LEMMA BlogReport ==
    ASSUME NEW r \in DOMAIN BlogHandlers
    PROVE  Report(BlogHandlers[r]) = IF r \in DOMAIN BlogLabels THEN {BlogLabels[r]} ELSE {}
<1>1. \/ Report(BlogHandlers[r]) = {} /\ r \notin DOMAIN BlogLabels
      \/ Report(BlogHandlers[r]) = {BlogLabels[r]} /\ r \in DOMAIN BlogLabels
  BY BlogClean, BlogSeeded DEF BlogHandlers, BlogLabels
<1> QED
  BY <1>1

LEMMA EcommerceReport ==
    ASSUME NEW r \in DOMAIN EcommerceHandlers
    PROVE  \/ Report(EcommerceHandlers[r]) =
                 IF r \in DOMAIN EcommerceLabels THEN {EcommerceLabels[r]} ELSE {}
           \/ Report(EcommerceHandlers[r]) = {} /\ EcommerceHandlers[r] = Orders
<1>1. \/ Report(EcommerceHandlers[r]) = {} /\ r \notin DOMAIN EcommerceLabels
      \/ Report(EcommerceHandlers[r]) = {} /\ EcommerceHandlers[r] = Orders
      \/ Report(EcommerceHandlers[r]) = {EcommerceLabels[r]} /\ r \in DOMAIN EcommerceLabels
  BY EcommerceClean, EcommerceSeeded DEF EcommerceHandlers, EcommerceLabels
<1> QED
  BY <1>1

LEMMA OrdersUnread == Len(Orders) = 2 /\ ~Orders[1].readable
BY DEF Orders, Shorthand, CountRows, Call

LEMMA StaticReports ==
    ASSUME NEW r \in DOMAIN Handlers
    PROVE  /\ StaticReport(r) \subseteq SeededTypes(r)
           /\ ~Unread(r) => SeededTypes(r) \subseteq StaticReport(r)
<1>1. StaticReport(r) = Report(Handlers[r])
  BY DEF StaticReport, Report, CallsOf, Types
<1>2. CASE r \in DOMAIN BlogHandlers
  <2>1. Handlers[r] = BlogHandlers[r]
    BY <1>2 DEF Handlers, Both
  <2>2. r \in DOMAIN BlogLabels => SeededTypes(r) = {BlogLabels[r]}
    BY DEF SeededTypes, Seeded, Both
  <2>3. r \notin DOMAIN BlogLabels => SeededTypes(r) = {}
    <3>1. r \notin DOMAIN EcommerceLabels
      BY <1>2 DEF BlogHandlers, EcommerceLabels
    <3> QED
      BY <3>1 DEF SeededTypes, Seeded, Both
  <2> QED
    BY <1>1, <1>2, <2>1, <2>2, <2>3, BlogReport
<1>3. CASE r \notin DOMAIN BlogHandlers
  <2>1. r \in DOMAIN EcommerceHandlers /\ Handlers[r] = EcommerceHandlers[r]
    BY <1>3 DEF Handlers, Both
  <2>2. r \notin DOMAIN BlogLabels
    BY <1>3 DEF BlogLabels, BlogHandlers
  <2>3. SeededTypes(r) = IF r \in DOMAIN EcommerceLabels THEN {EcommerceLabels[r]} ELSE {}
    BY <2>2 DEF SeededTypes, Seeded, Both
  <2>4. EcommerceHandlers[r] = Orders => Unread(r)
    BY <2>1, OrdersUnread DEF Unread, CallsOf
  <2> QED
    BY <1>1, <2>1, <2>3, <2>4, EcommerceReport
<1> QED
  BY <1>2, <1>3

-----------------------------------------------------------------------------

AppsTypeOK ==
    /\ route \in [Requests -> DOMAIN Handlers]
    /\ at \in [Requests -> Nat] /\ left \in [Requests -> Nat] /\ found \in [Requests -> Nat]
    /\ executed = [q \in Requests |-> executed[q]]
    /\ \A q \in Requests : executed[q] \in [Shapes(route[q]) -> Nat]

(* The calls before the nth that run the statement s.                      *)
RanBefore(steps, s, n) == {i \in 1..Len(steps) : i < n /\ s \in Statements(steps[i])}

(* Each of the first three times a statement was executed has a call of    *)
(* its own.                                                                *)
Attributed(steps, s, times, n) ==
    /\ times > 0 => RanBefore(steps, s, n) # {}
    /\ times > 1 => \E i, j \in RanBefore(steps, s, n) : i < j
    /\ times > 2 => \E i, j, k \in RanBefore(steps, s, n) : i < j /\ j < k

(* No loop runs the statement.                                             *)
Unlooped(steps, s) == \A i \in 1..Len(steps) : s \in Statements(steps[i]) => ~steps[i].eachRow

RowQuery(steps) == <<Shape(steps[2]), "rows">>

(* How often the query of a loop ran, by where its handler stands.         *)
LoopCounted(steps, n, times, rest, rows) ==
    /\ n = 1 => times = 0 /\ rows = 0
    /\ n = 2 => times + rest = rows
    /\ n > 2 => times = rows

(* What is counted of one request.                                         *)
CountsHold(steps, n, rest, rows, times) ==
    /\ n \in 1..(Len(steps) + 1)
    /\ n <= Len(steps) /\ ~steps[n].eachRow => rest = 1
    /\ \A s \in DOMAIN times : Unlooped(steps, s) => Attributed(steps, s, times[s], n)
    /\ Looped(steps) => LoopCounted(steps, n, times[RowQuery(steps)], rest, rows)

RequestCounts(q) == CountsHold(Handlers[route[q]], at[q], left[q], found[q], executed[q])

AppsInv == AppsTypeOK /\ \A q \in Requests : RequestCounts(q)

LEMMA LaterAttributed ==
    ASSUME NEW steps, NEW s, NEW times \in Nat, NEW n \in Int, NEW m \in Int, n <= m,
           Attributed(steps, s, times, n)
    PROVE  Attributed(steps, s, times, m)
<1>1. RanBefore(steps, s, n) \subseteq RanBefore(steps, s, m)
  BY DEF RanBefore
<1> QED
  BY <1>1 DEF Attributed

(* The call a handler leaves accounts for one more execution.              *)
LEMMA AttributedOnce ==
    ASSUME NEW steps, NEW s, NEW times \in Nat, NEW n \in 1..Len(steps), NEW m \in Int, n < m,
           Len(steps) \in Nat, s \in Statements(steps[n]), Attributed(steps, s, times, n)
    PROVE  Attributed(steps, s, times + 1, m)
<1>1. n \in RanBefore(steps, s, m)
  BY DEF RanBefore
<1>2. \A i \in RanBefore(steps, s, n) : i \in RanBefore(steps, s, m) /\ i < n /\ i \in Int
  BY DEF RanBefore
<1>3. CASE times = 0
  BY <1>1, <1>3 DEF Attributed
<1>4. CASE times = 1
  <2>1. PICK i \in RanBefore(steps, s, n) : TRUE
    BY <1>4 DEF Attributed
  <2> QED
    BY <1>1, <1>2, <1>4, <2>1 DEF Attributed
<1>5. CASE times > 1
  <2>1. PICK i, j \in RanBefore(steps, s, n) : i < j
    BY <1>5 DEF Attributed
  <2> QED
    BY <1>1, <1>2, <1>5, <2>1 DEF Attributed
<1> QED
  BY <1>3, <1>4, <1>5

Ran(times, statements) ==
    [s \in DOMAIN times |-> IF s \in statements THEN times[s] + 1 ELSE times[s]]

(* What RunCurrent runs of a call: all its statements or just the first.   *)
RunsOf(call) == {Statements(call), {<<Shape(call), "rows">>}}

LEMMA RunsAreStatements ==
    ASSUME NEW call, NEW statements \in RunsOf(call)
    PROVE  statements \subseteq Statements(call) /\ <<Shape(call), "rows">> \in statements
BY DEF RunsOf, Statements

LEMMA RanIsCounted ==
    ASSUME NEW S, NEW times \in [S -> Nat], NEW statements
    PROVE  Ran(times, statements) \in [S -> Nat]
BY DEF Ran

(* A handler that goes on from a call it ran once.                         *)
LEMMA LeaveCall ==
    ASSUME NEW steps, Len(steps) \in Nat, NEW S, NEW times \in [S -> Nat],
           NEW n \in 1..Len(steps), NEW m \in 1..(Len(steps) + 1), n < m,
           NEW statements \in RunsOf(steps[n]),
           NEW s \in S, Attributed(steps, s, times[s], n)
    PROVE  Attributed(steps, s, Ran(times, statements)[s], m)
<1>1. CASE s \in statements
  <2>1. s \in Statements(steps[n]) /\ Ran(times, statements)[s] = times[s] + 1
    BY <1>1, RunsAreStatements DEF Ran
  <2> QED
    BY <2>1, AttributedOnce
<1>2. CASE s \notin statements
  <2>1. Ran(times, statements)[s] = times[s]
    BY <1>2 DEF Ran
  <2> QED
    BY <2>1, LaterAttributed
<1> QED
  BY <1>1, <1>2

LEMMA LoopStatements ==
    ASSUME NEW steps, Looped(steps)
    PROVE  /\ Statements(steps[2]) = {RowQuery(steps)}
           /\ RowQuery(steps) \notin Statements(steps[1])
           /\ RunsOf(steps[2]) = {{RowQuery(steps)}}
<1>1. Statements(steps[2]) = {RowQuery(steps)}
  BY DEF Looped, Statements, RowQuery
<1>2. RowQuery(steps) \notin Statements(steps[1])
  <2>1. SUFFICES ASSUME RowQuery(steps) \in Statements(steps[1]) PROVE FALSE
    OBVIOUS
  <2>2. PICK x : RowQuery(steps) = <<Shape(steps[1]), x>>
    BY <2>1 DEF Statements
  <2>3. Shape(steps[2]) = Shape(steps[1])
    BY <2>2 DEF RowQuery
  <2> QED
    BY <2>3 DEF Looped
<1> QED
  BY <1>1, <1>2 DEF RunsOf, RowQuery

(* One request, one step: the four ways a handler goes on.                 *)
LEMMA IssueCounts ==
    ASSUME NEW steps, Len(steps) \in Nat, NEW S, NEW times \in [S -> Nat],
           NEW n \in 1..Len(steps), NEW rows \in Nat, CountsHold(steps, n, 1, rows, times),
           Looped(steps) => RowQuery(steps) \in S,
           NEW statements \in RunsOf(steps[n]), NEW rest \in Nat, NEW found2 \in Nat,
           IF n + 1 <= Len(steps) /\ steps[n + 1].eachRow
           THEN rest = found2 ELSE rest = 1 /\ found2 = rows
    PROVE  CountsHold(steps, n + 1, rest, found2, Ran(times, statements))
<1>1. ASSUME NEW s \in S, Unlooped(steps, s)
      PROVE  Attributed(steps, s, Ran(times, statements)[s], n + 1)
  BY <1>1, LeaveCall DEF CountsHold
<1>2. ASSUME Looped(steps)
      PROVE  LoopCounted(steps, n + 1, Ran(times, statements)[RowQuery(steps)], rest, found2)
  <2>1. CASE n = 1
    <3>1. RowQuery(steps) \notin statements
      BY <1>2, <2>1, LoopStatements, RunsAreStatements
    <3>2. times[RowQuery(steps)] = 0 /\ rest = found2
      BY <1>2, <2>1 DEF CountsHold, LoopCounted, Looped
    <3> QED
      BY <1>2, <2>1, <3>1, <3>2 DEF Ran, LoopCounted
  <2>2. CASE n = 2
    <3>1. RowQuery(steps) \in statements
      BY <1>2, <2>2, LoopStatements
    <3>2. times[RowQuery(steps)] + 1 = rows /\ found2 = rows
      BY <1>2, <2>2 DEF CountsHold, LoopCounted, Looped
    <3> QED
      BY <1>2, <2>2, <3>1, <3>2 DEF Ran, LoopCounted
  <2> QED
    BY <1>2, <2>1, <2>2 DEF Looped
<1>3. n + 1 <= Len(steps) /\ ~steps[n + 1].eachRow => rest = 1
  OBVIOUS
<1>4. DOMAIN Ran(times, statements) = S
  BY DEF Ran
<1> QED
  BY <1>1, <1>2, <1>3, <1>4 DEF CountsHold

LEMMA IterateCounts ==
    ASSUME NEW steps, Len(steps) \in Nat, NEW S, NEW times \in [S -> Nat],
           NEW n \in 1..Len(steps), NEW rows \in Nat, NEW rest \in Nat, rest > 1,
           CountsHold(steps, n, rest, rows, times),
           Looped(steps) => RowQuery(steps) \in S, NEW statements \in RunsOf(steps[n])
    PROVE  CountsHold(steps, n, rest - 1, rows, Ran(times, statements))
<1>1. steps[n].eachRow
  BY DEF CountsHold
<1>2. ASSUME NEW s \in S, Unlooped(steps, s)
      PROVE  Attributed(steps, s, Ran(times, statements)[s], n)
  <2>1. s \notin statements
    BY <1>1, <1>2, RunsAreStatements DEF Unlooped
  <2>2. Ran(times, statements)[s] = times[s]
    BY <2>1 DEF Ran
  <2> QED
    BY <1>2, <2>2 DEF CountsHold
<1>3. ASSUME Looped(steps)
      PROVE  LoopCounted(steps, n, Ran(times, statements)[RowQuery(steps)], rest - 1, rows)
  <2>1. n = 2
    BY <1>1, <1>3 DEF Looped
  <2>2. RowQuery(steps) \in statements
    BY <1>3, <2>1, LoopStatements
  <2>3. times[RowQuery(steps)] + rest = rows
    BY <1>3, <2>1 DEF CountsHold, LoopCounted
  <2> QED
    BY <1>3, <2>1, <2>2, <2>3 DEF Ran, LoopCounted
<1>4. DOMAIN Ran(times, statements) = S
  BY DEF Ran
<1> QED
  BY <1>1, <1>2, <1>3, <1>4 DEF CountsHold

LEMMA NoRowsCounts ==
    ASSUME NEW steps, Len(steps) \in Nat, NEW S, NEW times \in [S -> Nat],
           NEW n \in 1..Len(steps), NEW rows \in Nat, CountsHold(steps, n, 0, rows, times),
           Looped(steps) => RowQuery(steps) \in S,
           NEW rest \in Nat, NEW found2 \in Nat,
           IF n + 1 <= Len(steps) /\ steps[n + 1].eachRow
           THEN rest = found2 ELSE rest = 1 /\ found2 = rows
    PROVE  CountsHold(steps, n + 1, rest, found2, times)
<1>1. steps[n].eachRow
  BY DEF CountsHold
<1>2. ASSUME NEW s \in S, Unlooped(steps, s) PROVE Attributed(steps, s, times[s], n + 1)
  <2>1. Attributed(steps, s, times[s], n)
    BY <1>2 DEF CountsHold
  <2> QED
    BY <2>1, LaterAttributed
<1>3. ASSUME Looped(steps) PROVE LoopCounted(steps, n + 1, times[RowQuery(steps)], rest, found2)
  <2>1. n = 2
    BY <1>1, <1>3 DEF Looped
  <2> QED
    BY <1>3, <2>1 DEF CountsHold, LoopCounted, Looped
<1> QED
  BY <1>2, <1>3 DEF CountsHold

LEMMA NotFoundCounts ==
    ASSUME NEW steps, Len(steps) \in Nat, NEW S, NEW times \in [S -> Nat],
           NEW n \in 1..Len(steps), NEW rows \in Nat, NEW rest \in Nat,
           CountsHold(steps, n, rest, rows, times), steps[n].orNotFound,
           Looped(steps) => RowQuery(steps) \in S, NEW statements \in RunsOf(steps[n])
    PROVE  CountsHold(steps, Len(steps) + 1, rest, rows, Ran(times, statements))
<1>1. ASSUME NEW s \in S, Unlooped(steps, s)
      PROVE  Attributed(steps, s, Ran(times, statements)[s], Len(steps) + 1)
  BY <1>1, LeaveCall DEF CountsHold
<1>2. ASSUME Looped(steps)
      PROVE  LoopCounted(steps, Len(steps) + 1, Ran(times, statements)[RowQuery(steps)], rest, rows)
  <2>1. n = 1
    BY <1>2 DEF Looped
  <2>2. RowQuery(steps) \notin statements
    BY <1>2, <2>1, LoopStatements, RunsAreStatements
  <2>3. times[RowQuery(steps)] = 0 /\ rows = 0
    BY <1>2, <2>1 DEF CountsHold, LoopCounted
  <2> QED
    BY <1>2, <2>2, <2>3 DEF Ran, LoopCounted, Looped
<1>3. DOMAIN Ran(times, statements) = S
  BY DEF Ran
<1> QED
  BY <1>1, <1>2, <1>3 DEF CountsHold

LEMMA RowQueryIsShape ==
    ASSUME NEW r \in DOMAIN Handlers, Looped(Handlers[r]) PROVE RowQuery(Handlers[r]) \in Shapes(r)
<1>1. Handlers[r][2] \in CallsOf(r)
  BY DEF Looped, CallsOf
<1>2. RowQuery(Handlers[r]) \in Statements(Handlers[r][2])
  BY DEF Statements, RowQuery
<1> QED
  BY <1>1, <1>2 DEF Shapes

(* One request goes on, the others stay where they are.                    *)
GoesOn(q, n, rest, rows, times) ==
    /\ n \in Nat /\ rest \in Nat /\ rows \in Nat /\ times \in [Shapes(route[q]) -> Nat]
    /\ CountsHold(Handlers[route[q]], n, rest, rows, times)
    /\ UNCHANGED route
    /\ at' = [at EXCEPT ![q] = n] /\ left' = [left EXCEPT ![q] = rest]
    /\ found' = [found EXCEPT ![q] = rows] /\ executed' = [executed EXCEPT ![q] = times]

LEMMA GoesOnInv ==
    ASSUME AppsInv, NEW q \in Requests, NEW n, NEW rest, NEW rows, NEW times,
           GoesOn(q, n, rest, rows, times)
    PROVE  AppsInv'
<1>1. AppsTypeOK'
  BY DEF AppsInv, AppsTypeOK, Shapes, GoesOn
<1>2. ASSUME NEW p \in Requests PROVE RequestCounts(p)'
  <2>1. CASE p = q
    BY <2>1 DEF AppsInv, AppsTypeOK, RequestCounts, GoesOn
  <2>2. CASE p # q
    BY <2>2 DEF AppsInv, AppsTypeOK, RequestCounts, GoesOn
  <2> QED
    BY <2>1, <2>2
<1> QED
  BY <1>1, <1>2 DEF AppsInv

LEMMA RequestState ==
    ASSUME AppsInv, NEW q \in Requests
    PROVE  /\ route[q] \in DOMAIN Handlers /\ Len(Handlers[route[q]]) \in Nat
           /\ left[q] \in Nat /\ found[q] \in Nat /\ executed[q] \in [Shapes(route[q]) -> Nat]
           /\ at[q] \in 1..(Len(Handlers[route[q]]) + 1)
           /\ CountsHold(Handlers[route[q]], at[q], left[q], found[q], executed[q])
           /\ Looped(Handlers[route[q]]) => RowQuery(Handlers[route[q]]) \in Shapes(route[q])
<1>1. route[q] \in DOMAIN Handlers
  BY DEF AppsInv, AppsTypeOK
<1>2. RequestCounts(q)
  BY DEF AppsInv
<1> QED
  BY <1>1, <1>2, StepCount, RowQueryIsShape DEF AppsInv, AppsTypeOK, RequestCounts, CountsHold

LEMMA RunIsRan ==
    ASSUME AppsInv, NEW q \in Requests, RunCurrent(q)
    PROVE  \E statements \in RunsOf(Handlers[route[q]][at[q]]) :
              executed' = [executed EXCEPT ![q] = Ran(executed[q], statements)]
<1>1. ASSUME NEW statements, Run(q, statements)
      PROVE  executed' = [executed EXCEPT ![q] = Ran(executed[q], statements)]
  BY <1>1 DEF Run, Ran, AppsInv, AppsTypeOK
<1> QED
  BY <1>1 DEF RunCurrent, RunsOf, Current, Steps

(* Where a handler goes next, and how often it will run what stands there. *)
LEMMA GoToIsNext ==
    ASSUME AppsInv, NEW q \in Requests, GoTo(q, at[q] + 1)
    PROVE  \E rest, rows \in Nat :
              /\ at' = [at EXCEPT ![q] = at[q] + 1]
              /\ left' = [left EXCEPT ![q] = rest] /\ found' = [found EXCEPT ![q] = rows]
              /\ IF at[q] + 1 <= Len(Handlers[route[q]]) /\ Handlers[route[q]][at[q] + 1].eachRow
                 THEN rest = rows ELSE rest = 1 /\ rows = found[q]
<1>1. CASE at[q] + 1 <= Len(Handlers[route[q]]) /\ Handlers[route[q]][at[q] + 1].eachRow
  BY <1>1, AppsAssumption DEF GoTo, Steps
<1>2. CASE ~(at[q] + 1 <= Len(Handlers[route[q]]) /\ Handlers[route[q]][at[q] + 1].eachRow)
  <2>1. found[q] \in Nat /\ found = [found EXCEPT ![q] = found[q]]
    BY DEF AppsInv, AppsTypeOK
  <2> QED
    BY <1>2, <2>1 DEF GoTo, Steps
<1> QED
  BY <1>1, <1>2

LEMMA AppsStep == ASSUME AppsInv, [AppsNext]_appVars PROVE AppsInv'
<1>1. SUFFICES ASSUME NEW q \in Requests, Issue(q) \/ Iterate(q) \/ NoRows(q) \/ NotFound(q)
               PROVE  AppsInv'
  <2>1. CASE UNCHANGED appVars
    BY <2>1 DEF appVars, AppsInv, AppsTypeOK, RequestCounts, Shapes
  <2> QED
    BY <2>1 DEF AppsNext
<1>2. PICK steps : steps = Handlers[route[q]]
  OBVIOUS
<1>3. PICK n : n = at[q]
  OBVIOUS
<1>4. /\ Len(steps) \in Nat /\ n \in 1..(Len(steps) + 1)
      /\ left[q] \in Nat /\ found[q] \in Nat /\ executed[q] \in [Shapes(route[q]) -> Nat]
      /\ CountsHold(steps, n, left[q], found[q], executed[q])
      /\ Looped(steps) => RowQuery(steps) \in Shapes(route[q])
  BY <1>2, <1>3, RequestState
<1>5. n \in 1..Len(steps)
  BY <1>1, <1>2, <1>3, <1>4 DEF Issue, Iterate, NoRows, NotFound, Running, Steps
<1>6. at = [at EXCEPT ![q] = n] /\ left = [left EXCEPT ![q] = left[q]]
      /\ found = [found EXCEPT ![q] = found[q]] /\ executed = [executed EXCEPT ![q] = executed[q]]
  BY <1>3 DEF AppsInv, AppsTypeOK
<1>7. CASE Issue(q)
  <2>1. PICK statements \in RunsOf(steps[n]) :
           executed' = [executed EXCEPT ![q] = Ran(executed[q], statements)]
    BY <1>2, <1>3, <1>7, RunIsRan DEF Issue
  <2>2. PICK rest \in Nat, rows \in Nat :
           /\ at' = [at EXCEPT ![q] = n + 1]
           /\ left' = [left EXCEPT ![q] = rest] /\ found' = [found EXCEPT ![q] = rows]
           /\ IF n + 1 <= Len(steps) /\ steps[n + 1].eachRow
              THEN rest = rows ELSE rest = 1 /\ rows = found[q]
    BY <1>2, <1>3, <1>7, GoToIsNext DEF Issue
  <2>3. CountsHold(steps, n + 1, rest, rows, Ran(executed[q], statements))
    BY <1>4, <1>5, <1>7, <2>1, <2>2, IssueCounts DEF Issue
  <2>4. Ran(executed[q], statements) \in [Shapes(route[q]) -> Nat]
    BY <1>4, RanIsCounted
  <2>5. GoesOn(q, n + 1, rest, rows, Ran(executed[q], statements))
    BY <1>2, <1>5, <1>7, <2>1, <2>2, <2>3, <2>4 DEF GoesOn, Issue
  <2> QED
    BY <2>5, GoesOnInv
<1>8. CASE Iterate(q)
  <2>1. PICK statements \in RunsOf(steps[n]) :
           executed' = [executed EXCEPT ![q] = Ran(executed[q], statements)]
    BY <1>2, <1>3, <1>8, RunIsRan DEF Iterate
  <2>2. left[q] > 1 /\ left' = [left EXCEPT ![q] = left[q] - 1] /\ UNCHANGED <<route, at, found>>
    BY <1>8 DEF Iterate
  <2>3. CountsHold(steps, n, left[q] - 1, found[q], Ran(executed[q], statements))
    BY <1>4, <1>5, <2>1, <2>2, IterateCounts
  <2>4. Ran(executed[q], statements) \in [Shapes(route[q]) -> Nat] /\ left[q] - 1 \in Nat
    BY <1>4, <2>2, RanIsCounted
  <2>5. GoesOn(q, n, left[q] - 1, found[q], Ran(executed[q], statements))
    BY <1>2, <1>4, <1>5, <1>6, <2>1, <2>2, <2>3, <2>4 DEF GoesOn
  <2> QED
    BY <2>5, GoesOnInv
<1>9. CASE NoRows(q)
  <2>1. PICK rest \in Nat, rows \in Nat :
           /\ at' = [at EXCEPT ![q] = n + 1]
           /\ left' = [left EXCEPT ![q] = rest] /\ found' = [found EXCEPT ![q] = rows]
           /\ IF n + 1 <= Len(steps) /\ steps[n + 1].eachRow
              THEN rest = rows ELSE rest = 1 /\ rows = found[q]
    BY <1>2, <1>3, <1>9, GoToIsNext DEF NoRows
  <2>2. left[q] = 0 /\ UNCHANGED <<route, executed>>
    BY <1>9 DEF NoRows
  <2>3. CountsHold(steps, n + 1, rest, rows, executed[q])
    BY <1>4, <1>5, <2>1, <2>2, NoRowsCounts
  <2>5. GoesOn(q, n + 1, rest, rows, executed[q])
    BY <1>2, <1>4, <1>5, <1>6, <2>1, <2>2, <2>3 DEF GoesOn
  <2> QED
    BY <2>5, GoesOnInv
<1>10. CASE NotFound(q)
  <2>1. PICK statements \in RunsOf(steps[n]) :
           executed' = [executed EXCEPT ![q] = Ran(executed[q], statements)]
    BY <1>2, <1>3, <1>10, RunIsRan DEF NotFound, RunCurrent
  <2>2. steps[n].orNotFound /\ at' = [at EXCEPT ![q] = Len(steps) + 1]
        /\ UNCHANGED <<route, left, found>>
    BY <1>2, <1>3, <1>10 DEF NotFound, Current, Steps
  <2>3. CountsHold(steps, Len(steps) + 1, left[q], found[q], Ran(executed[q], statements))
    BY <1>4, <1>5, <2>1, <2>2, NotFoundCounts
  <2>4. Ran(executed[q], statements) \in [Shapes(route[q]) -> Nat] /\ Len(steps) + 1 \in Nat
    BY <1>4, RanIsCounted
  <2>5. GoesOn(q, Len(steps) + 1, left[q], found[q], Ran(executed[q], statements))
    BY <1>2, <1>4, <1>6, <2>1, <2>2, <2>3, <2>4 DEF GoesOn
  <2> QED
    BY <2>5, GoesOnInv
<1> QED
  BY <1>1, <1>7, <1>8, <1>9, <1>10

(* Whatever requests run side by side, each execution of a statement is    *)
(* accounted for by the calls its handler has left behind.                 *)
THEOREM AppsInvariance == AppsSpec => []AppsInv
<1>1. ASSUME AppsInit PROVE AppsInv
  <2>1. AppsTypeOK
    BY <1>1 DEF AppsInit, AppsTypeOK
  <2>2. ASSUME NEW q \in Requests PROVE RequestCounts(q)
    <3>1. route[q] \in DOMAIN Handlers /\ at[q] = 1 /\ left[q] = 1 /\ found[q] = 0
          /\ executed[q] = [s \in Shapes(route[q]) |-> 0]
      BY <1>1 DEF AppsInit
    <3>2. Len(Handlers[route[q]]) \in Nat
      BY <3>1, StepCount
    <3>3. Looped(Handlers[route[q]]) => executed[q][RowQuery(Handlers[route[q]])] = 0
      BY <3>1, RowQueryIsShape
    <3> QED
      BY <3>1, <3>2, <3>3 DEF RequestCounts, CountsHold, Attributed, LoopCounted
  <2> QED
    BY <2>1, <2>2 DEF AppsInv
<1> QED
  BY <1>1, AppsStep, PTL DEF AppsSpec

(* A statement that no loop runs is executed twice at most.                *)
LEMMA OnlyLoopsFanOut ==
    ASSUME AppsInv, NEW q \in Requests, NEW s \in FannedOut(PerRequest(q))
    PROVE  Looped(Handlers[route[q]]) /\ s = RowQuery(Handlers[route[q]])
<1>1. PICK steps : steps = Handlers[route[q]]
  OBVIOUS
<1>2. /\ Len(steps) \in Nat /\ executed[q] \in [Shapes(route[q]) -> Nat]
      /\ CountsHold(steps, at[q], left[q], found[q], executed[q])
      /\ Straight(steps) \/ Looped(steps)
  BY <1>1, RequestState, RouteKinds
<1>3. s \in DOMAIN executed[q] /\ executed[q][s] > 2
  BY DEF FannedOut, PerRequest, DEFAULT_THRESHOLD
<1>4. ASSUME Unlooped(steps, s)
      PROVE  \E i, j, k \in 1..Len(steps) :
                /\ i < j /\ j < k /\ s \in Statements(steps[i])
                /\ s \in Statements(steps[j]) /\ s \in Statements(steps[k])
  <2>1. Attributed(steps, s, executed[q][s], at[q])
    BY <1>2, <1>3, <1>4 DEF CountsHold
  <2> QED
    BY <1>3, <2>1 DEF Attributed, RanBefore
<1>5. \A c, d : s \in Statements(c) /\ s \in Statements(d) => Shape(c) = Shape(d)
  BY DEF Statements
<1>6. ~Straight(steps)
  <2>1. SUFFICES ASSUME Straight(steps) PROVE FALSE
    OBVIOUS
  <2>2. Unlooped(steps, s)
    BY <2>1 DEF Straight, Unlooped
  <2> QED
    BY <1>4, <1>5, <2>1, <2>2 DEF Straight
<1>7. ~Unlooped(steps, s)
  BY <1>2, <1>4, <1>6 DEF Looped
<1>8. s \in Statements(steps[2])
  BY <1>2, <1>6, <1>7 DEF Unlooped, Looped
<1> QED
  BY <1>1, <1>2, <1>6, <1>8, LoopStatements

(* Whatever requests run side by side and whatever they find: only a route *)
(* with a seeded N+1 looks like one at run time.                           *)
THEOREM FanOutIsSeededHolds == AppsSpec => []FanOutIsSeeded
<1>1. ASSUME AppsInv, NEW q \in Requests, NEW s \in FannedOut(PerRequest(q))
      PROVE  SeededTypes(route[q]) = {"n_plus_one"}
  <2>1. Looped(Handlers[route[q]]) /\ route[q] \in DOMAIN Handlers
    BY <1>1, OnlyLoopsFanOut, RequestState
  <2>2. ~Straight(Handlers[route[q]])
    BY <2>1 DEF Straight, Looped
  <2> QED
    BY <2>1, <2>2, RouteKinds
<1>2. AppsInv => FanOutIsSeeded
  BY <1>1 DEF FanOutIsSeeded, RuntimeFindings
<1> QED
  BY <1>2, AppsInvariance, PTL

LEMMA ReportedCalls ==
    ASSUME NEW r \in DOMAIN Handlers
    PROVE  /\ Straight(Handlers[r]) => {d \in CallsOf(r) : InLoop(d)} = {}
           /\ Looped(Handlers[r]) => {d \in CallsOf(r) : InLoop(d)} = {Handlers[r][2]}
BY DEF Straight, Looped, CallsOf, InLoop

(* The two layers agree about every request, for any number of rows.       *)
THEOREM LayersAgreeHolds == AppsSpec => []LayersAgree
<1>1. ASSUME AppsInv, NEW q \in Requests,
             NEW reported,
             reported = {<<Shape(c), "rows">> : c \in {d \in CallsOf(route[q]) : InLoop(d)}}
      PROVE  /\ FannedOut(PerRequest(q)) \subseteq reported
             /\ ~Running(q) /\ found[q] > DEFAULT_THRESHOLD =>
                   reported \subseteq FannedOut(PerRequest(q))
  <2>1. PICK steps : steps = Handlers[route[q]]
    OBVIOUS
  <2>2. /\ route[q] \in DOMAIN Handlers /\ Len(steps) \in Nat
        /\ executed[q] \in [Shapes(route[q]) -> Nat] /\ at[q] \in 1..(Len(steps) + 1)
        /\ CountsHold(steps, at[q], left[q], found[q], executed[q])
        /\ Looped(steps) => RowQuery(steps) \in Shapes(route[q])
    BY <1>1, <2>1, RequestState
  <2>3. CASE Straight(steps)
    <3>1. reported = {}
      BY <1>1, <2>1, <2>2, <2>3, ReportedCalls
    <3>2. ~Looped(steps)
      BY <2>3 DEF Straight, Looped
    <3> QED
      BY <1>1, <2>1, <3>1, <3>2, OnlyLoopsFanOut
  <2>4. CASE Looped(steps)
    <3>1. {d \in CallsOf(route[q]) : InLoop(d)} = {steps[2]}
      BY <2>1, <2>2, <2>4, ReportedCalls
    <3>2. reported = {RowQuery(steps)}
      BY <1>1, <3>1 DEF RowQuery
    <3>3. FannedOut(PerRequest(q)) \subseteq reported
      BY <1>1, <2>1, <3>2, OnlyLoopsFanOut
    <3>4. ASSUME ~Running(q), found[q] > DEFAULT_THRESHOLD
          PROVE  RowQuery(steps) \in FannedOut(PerRequest(q))
      <4>1. at[q] > 2
        BY <2>1, <2>2, <2>4, <3>4 DEF Running, Steps, Looped
      <4>2. executed[q][RowQuery(steps)] = found[q]
        BY <2>2, <2>4, <4>1 DEF CountsHold, LoopCounted
      <4> QED
        BY <2>2, <2>4, <3>4, <4>2 DEF FannedOut, PerRequest
    <3> QED
      BY <3>2, <3>3, <3>4
  <2> QED
    BY <2>1, <2>2, <2>3, <2>4, RouteKinds
<1>2. AppsInv => LayersAgree
  BY <1>1 DEF LayersAgree
<1> QED
  BY <1>2, AppsInvariance, PTL

(* Of every route the static rules report just what was seeded there,      *)
(* unless it has a filter they cannot read.                                *)
THEOREM StaticFindsTheSeededHolds == AppsSpec => []StaticFindsTheSeeded
<1>1. AppsInv => StaticFindsTheSeeded
  BY StaticReports DEF AppsInv, AppsTypeOK, StaticFindsTheSeeded
<1> QED
  BY <1>1, AppsInvariance, PTL
=============================================================================
