------------------------------ MODULE ApiProofs ------------------------------
(***************************************************************************)
(* The parts of the API beside the scans: Explainer for any requests,      *)
(* findings, models and number of retries, and ProjectFiles for any        *)
(* requests, URLs and names, however many are sent.                        *)
(***************************************************************************)
EXTENDS Explainer, ProjectFiles, TLAPS

ExplainSteps == {"idle", "get", "call", "put", "done"}

ExplainTypeOK ==
    /\ cache \in [Evidence -> Models \union {NoRow}]
    /\ asker \in [Askers -> [step : ExplainSteps, of : Evidence \union {"nothing"}, calls : Int,
                             text : Models \union {NotExplained}, again : BOOLEAN]]
    /\ \A a \in Askers : asker[a].step \in {"get", "call", "put"} => asker[a].of \in Evidence

(* What this model has explained is in the cache, under its version.       *)
AnsweredIsCached == \A e \in answered : e \in Evidence /\ cache[e] = running

(* A request that follows an answer looks for what was answered.           *)
AgainWasAnswered ==
    \A a \in Askers : asker[a].again /\ asker[a].step = "get" => asker[a].of \in answered

ExplainInv ==
    running \in Models /\ ExplainTypeOK /\ AnsweredIsCached /\ AgainWasAnswered /\ ExplanationsAreKept

(* A request ends, and the cache holds what was answered.                  *)
LEMMA EndInv ==
    ASSUME ExplainInv, NEW a \in Askers, NEW text \in {running, NotExplained}, End(a, text),
           asker[a].step \in {"get", "call", "put"},
           UNCHANGED running,
           cache' = cache \/ cache' = Stored(asker[a].of),
           text = running => cache'[asker[a].of] = running
    PROVE  ExplainInv'
<1>1. asker[a].of \in Evidence
  BY DEF ExplainInv, ExplainTypeOK
<1>2. ExplainTypeOK' /\ running' \in Models
  <2>1. cache' \in [Evidence -> Models \union {NoRow}] /\ running' \in Models
    BY <1>1 DEF ExplainInv, ExplainTypeOK, Stored
  <2>2. text \in Models \union {NotExplained}
    BY DEF ExplainInv
  <2>3. asker' \in [Askers -> [step : ExplainSteps, of : Evidence \union {"nothing"}, calls : Int,
                               text : Models \union {NotExplained}, again : BOOLEAN]]
    <3> DEFINE ended == [asker[a] EXCEPT !.step = "done", !.text = text]
    <3>1. asker[a] \in [step : ExplainSteps, of : Evidence \union {"nothing"}, calls : Int,
                        text : Models \union {NotExplained}, again : BOOLEAN]
      BY DEF ExplainInv, ExplainTypeOK
    <3>2. ended \in [step : ExplainSteps, of : Evidence \union {"nothing"}, calls : Int,
                     text : Models \union {NotExplained}, again : BOOLEAN]
      BY <2>2, <3>1 DEF ExplainSteps
    <3>3. asker' = [asker EXCEPT ![a] = ended]
      BY DEF End, ExplainInv, ExplainTypeOK
    <3> HIDE DEF ended
    <3> QED
      BY <3>2, <3>3 DEF ExplainInv, ExplainTypeOK
  <2>4. \A b \in Askers : asker'[b].step \in {"get", "call", "put"} => asker'[b].of \in Evidence
    BY DEF ExplainInv, ExplainTypeOK, End
  <2> QED
    BY <2>1, <2>3, <2>4 DEF ExplainTypeOK
<1>3. AnsweredIsCached'
  BY <1>1 DEF ExplainInv, ExplainTypeOK, AnsweredIsCached, End, Stored
<1>4. AgainWasAnswered'
  BY DEF ExplainInv, ExplainTypeOK, AgainWasAnswered, End
<1>5. ExplanationsAreKept'
  BY DEF ExplainInv, ExplainTypeOK, ExplanationsAreKept, End, At
<1> QED
  BY <1>2, <1>3, <1>4, <1>5 DEF ExplainInv

(* A request goes on and nobody is answered.                               *)
LEMMA GoOnInv ==
    ASSUME ExplainInv, NEW a \in Askers, NEW next \in [step : {"get", "call", "put"},
               of : Evidence, calls : Int, text : Models \union {NotExplained}, again : BOOLEAN],
           asker' = [asker EXCEPT ![a] = next],
           UNCHANGED <<running, cache, answered>>,
           next.again /\ next.step \in {"get", "call"} => next.of \in answered /\ next.step = "get"
    PROVE  ExplainInv'
<1>1. ExplainTypeOK' /\ running' \in Models /\ AnsweredIsCached'
  BY DEF ExplainInv, ExplainTypeOK, AnsweredIsCached, ExplainSteps
<1>2. AgainWasAnswered' /\ ExplanationsAreKept'
  BY DEF ExplainInv, ExplainTypeOK, AgainWasAnswered, ExplanationsAreKept, At
<1> QED
  BY <1>1, <1>2 DEF ExplainInv

LEMMA ExplainStep == ASSUME ExplainInv, [ExplainNext]_explainVars PROVE ExplainInv'
<1>1. ASSUME NEW a \in Askers, NEW e \in Evidence, Ask(a, e) PROVE ExplainInv'
  <2> DEFINE next == [NotAsking EXCEPT !.step = "get", !.of = e, !.calls = 1 + retries,
                                       !.again = e \in answered]
  <2>1. next \in [step : {"get", "call", "put"}, of : Evidence, calls : Int,
                  text : Models \union {NotExplained}, again : BOOLEAN]
    <3>1. (e \in answered) \in BOOLEAN /\ 1 + retries \in Int
      BY ExplainAssumption
    <3> QED
      BY <3>1 DEF NotAsking
  <2>2. next.step = "get" /\ next.of = e /\ next.again = (e \in answered)
    BY DEF NotAsking
  <2> QED
    BY <1>1, <2>1, <2>2, GoOnInv DEF Ask
<1>2. ASSUME NEW a \in Askers, LookUp(a) PROVE ExplainInv'
  <2>1. asker[a].of \in Evidence /\ asker[a].step = "get"
    BY <1>2 DEF ExplainInv, ExplainTypeOK, LookUp, At
  <2>2. CASE Hit(asker[a].of) /\ End(a, cache[asker[a].of])
    BY <1>2, <2>1, <2>2, EndInv DEF LookUp, Hit
  <2>3. CASE Fail(a)
    BY <1>2, <2>1, <2>3, EndInv, ExplainAssumption DEF LookUp, Fail, ExplainInv
  <2>4. CASE /\ ~Hit(asker[a].of)
             /\ asker' = [asker EXCEPT ![a].step = "call"] /\ UNCHANGED answered
    <3> DEFINE next == [asker[a] EXCEPT !.step = "call"]
    <3>1. next \in [step : {"get", "call", "put"}, of : Evidence, calls : Int,
                    text : Models \union {NotExplained}, again : BOOLEAN]
      BY <2>1 DEF ExplainInv, ExplainTypeOK
    <3>2. ~asker[a].again
      BY <2>1, <2>4 DEF ExplainInv, AnsweredIsCached, AgainWasAnswered, Hit
    <3>3. next.again = asker[a].again
      BY DEF ExplainInv, ExplainTypeOK
    <3> QED
      BY <1>2, <2>4, <3>1, <3>2, <3>3, GoOnInv DEF LookUp
  <2> QED
    BY <1>2, <2>2, <2>3, <2>4 DEF LookUp
<1>3. ASSUME NEW a \in Askers, CallModel(a) PROVE ExplainInv'
  <2>1. asker[a].of \in Evidence /\ asker[a].step = "call" /\ ~asker[a].again
    BY <1>3 DEF ExplainInv, ExplainTypeOK, ExplanationsAreKept, CallModel, At
  <2>2. CASE Fail(a)
    BY <1>3, <2>1, <2>2, EndInv, ExplainAssumption DEF CallModel, Fail, ExplainInv
  <2>3. ASSUME NEW step \in {"call", "put"},
               asker' = [asker EXCEPT ![a].step = step, ![a].calls = @ - 1],
               UNCHANGED answered
        PROVE  ExplainInv'
    <3> DEFINE next == [asker[a] EXCEPT !.step = step, !.calls = @ - 1]
    <3>1. next \in [step : {"get", "call", "put"}, of : Evidence, calls : Int,
                    text : Models \union {NotExplained}, again : BOOLEAN]
      <4>1. asker[a].calls - 1 \in Int /\ step \in {"get", "call", "put"}
        BY DEF ExplainInv, ExplainTypeOK
      <4> QED
        BY <2>1, <4>1 DEF ExplainInv, ExplainTypeOK
    <3>2. next.again = asker[a].again
      BY DEF ExplainInv, ExplainTypeOK
    <3>3. asker' = [asker EXCEPT ![a] = next]
      BY <2>3 DEF ExplainInv, ExplainTypeOK
    <3> QED
      BY <1>3, <2>1, <2>3, <3>1, <3>2, <3>3, GoOnInv DEF CallModel
  <2>4. CASE asker' = [asker EXCEPT ![a].calls = @ - 1] /\ UNCHANGED answered
    <3>1. asker' = [asker EXCEPT ![a].step = "call", ![a].calls = @ - 1]
      BY <2>1, <2>4 DEF ExplainInv, ExplainTypeOK
    <3> QED
      BY <2>3, <2>4, <3>1
  <2> QED
    BY <1>3, <2>2, <2>3, <2>4 DEF CallModel
<1>4. ASSUME NEW a \in Askers, Put(a) PROVE ExplainInv'
  <2>1. asker[a].of \in Evidence /\ asker[a].step = "put"
    BY <1>4 DEF ExplainInv, ExplainTypeOK, Put, At
  <2>2. CASE cache' = Stored(asker[a].of) /\ End(a, running)
    BY <1>4, <2>1, <2>2, EndInv DEF Put, Stored, ExplainInv, ExplainTypeOK
  <2>3. CASE cache' \in {cache, Stored(asker[a].of)} /\ Fail(a)
    BY <1>4, <2>1, <2>3, EndInv, ExplainAssumption DEF Put, Fail, ExplainInv
  <2> QED
    BY <1>4, <2>2, <2>3 DEF Put
<1>5. ASSUME NEW m \in Models, RestartApi(m) PROVE ExplainInv'
  BY <1>5 DEF RestartApi, NotAsking, ExplainInv, ExplainTypeOK, AnsweredIsCached,
         AgainWasAnswered, ExplanationsAreKept, At, ExplainSteps
<1>6. CASE UNCHANGED explainVars
  BY <1>6 DEF explainVars, ExplainInv, ExplainTypeOK, AnsweredIsCached, AgainWasAnswered,
         ExplanationsAreKept, At
<1> QED
  BY <1>1, <1>2, <1>3, <1>4, <1>5, <1>6 DEF ExplainNext

(* For any requests, models and retries: what was explained to somebody is *)
(* not asked of the model again, and no text of another version is shown.  *)
THEOREM ExplanationsAreKeptHolds == ExplainSpec => []ExplanationsAreKept
<1>1. ExplainInit => ExplainInv
  BY DEF ExplainInit, NotAsking, ExplainInv, ExplainTypeOK, AnsweredIsCached, AgainWasAnswered,
         ExplanationsAreKept, At, ExplainSteps
<1>2. ExplainInv => ExplanationsAreKept
  BY DEF ExplainInv
<1> QED
  BY <1>1, <1>2, ExplainStep, PTL DEF ExplainSpec
-----------------------------------------------------------------------------
(* The working copies of the projects.                                     *)

FileSteps == {"exists", "clone", "cloning", "pull", "choose", "lock", "layers", "rmtree"}
         \union Ended

Copies == [url : Urls \union {NoUrl}, whole : BOOLEAN, cloner : Scanners \union {Nobody}]

RequestRecords ==
    [step : FileSteps, name : Names \union {"none"}, url : Urls \union {NoUrl},
     refresh : BOOLEAN, seen : Copies, spoilt : BOOLEAN, cloned : BOOLEAN,
     unfinished : BOOLEAN, beside : BOOLEAN]

FileTypeOK ==
    /\ copy \in [Names -> Copies]
    /\ source \in [Names -> Urls \union {NoUrl}]
    /\ scanner \in [Scanners -> RequestRecords]
    /\ \A r \in Scanners : UnderWay(r) => NameOf(r) \in Names

(* A copy that is not whole is being cloned, or was cut short.             *)
Accounted(n) == copy[n] = NoCopy \/ copy[n].whole \/ n \in cut \/ Cloning(n)

(* Requests of one name that are under way together are beside a removal   *)
(* together, and a removal is beside one.                                  *)
BesideTogether ==
    /\ \A q, r \in Scanners :
          UnderWay(q) /\ UnderWay(r) /\ NameOf(q) = NameOf(r) =>
             (scanner[q].beside <=> scanner[r].beside)
    /\ \A r \in Scanners : On(r, "rmtree") => scanner[r].beside

(* Beside no removal, a clone has the folder it writes for itself.         *)
OwnClone(r) ==
    On(r, "cloning") /\ ~scanner[r].beside =>
       CopyOf(r).cloner = r /\ CopyOf(r).url = scanner[r].url /\ ~CopyOf(r).whole

(* What a request goes on with after root.exists() or its clone.           *)
Ready(r) ==
    scanner[r].step \in {"pull", "choose", "lock", "layers"} /\ ~scanner[r].beside =>
       CopyOf(r).whole \/ NameOf(r) \in cut \/ scanner[r].unfinished

(* Beside no removal, what a request has cloned stays there.               *)
Kept(r) ==
    UnderWay(r) /\ scanner[r].cloned /\ ~scanner[r].beside =>
       CopyOf(r).cloner = r /\ CopyOf(r).url = scanner[r].url

ReadWhole(r) ==
    On(r, "scanned") /\ ~scanner[r].beside =>
       /\ scanner[r].seen.whole \/ scanner[r].spoilt \/ scanner[r].unfinished
       /\ scanner[r].cloned => scanner[r].seen.url = scanner[r].url

FileInv ==
    /\ FileTypeOK /\ BesideTogether
    /\ \A n \in Names : Accounted(n)
    /\ \A r \in Scanners : OwnClone(r) /\ Ready(r) /\ Kept(r) /\ ReadWhole(r)

(* Request r goes on to a step; the other requests do not move.            *)
Goes(r, step) ==
    /\ scanner' \in [Scanners -> RequestRecords]
    /\ \A q \in Scanners : q # r => scanner'[q] = scanner[q]
    /\ scanner'[r].step = step
    /\ scanner'[r].name = scanner[r].name /\ scanner'[r].url = scanner[r].url
    /\ scanner'[r].beside = scanner[r].beside

(* What a step of r may do to the copy of its name without taking from     *)
(* another request what that cloned or found there.                        *)
Spares(r) ==
    /\ NameOf(r) \in cut => NameOf(r) \in cut'
    /\ CopyOf(r).whole => copy'[NameOf(r)].whole \/ NameOf(r) \in cut'
    /\ CopyOf(r).cloner \in Scanners \ {r} =>
          /\ copy'[NameOf(r)].cloner = CopyOf(r).cloner
          /\ copy'[NameOf(r)].url = CopyOf(r).url
          /\ copy'[NameOf(r)].whole => CopyOf(r).whole

OtherNamesKept(r) ==
    \A m \in Names : m # NameOf(r) => copy'[m] = copy[m] /\ (m \in cut' <=> m \in cut)

LEMMA MoveInv ==
    ASSUME FileInv, NEW r \in Scanners, UnderWay(r), NEW step \in FileSteps \ {"rmtree"},
           Goes(r, step), copy' \in [Names -> Copies], source' \in [Names -> Urls \union {NoUrl}],
           OtherNamesKept(r), scanner[r].beside \/ Spares(r),
           Accounted(NameOf(r))', OwnClone(r)', Ready(r)', Kept(r)', ReadWhole(r)'
    PROVE  FileInv'
<1>1. FileTypeOK'
  BY DEF FileInv, FileTypeOK, Goes, UnderWay, NameOf
<1>2. BesideTogether'
  BY DEF FileInv, BesideTogether, Goes, UnderWay, NameOf, On
<1>3. ASSUME NEW n \in Names PROVE Accounted(n)'
  <2>1. CASE n = NameOf(r)
    BY <2>1 DEF Accounted, NameOf, Cloning, Goes
  <2>2. CASE n # NameOf(r)
    <3>1. Accounted(n) /\ copy'[n] = copy[n] /\ (n \in cut' <=> n \in cut)
      BY <2>2 DEF FileInv, OtherNamesKept
    <3>2. Cloning(n) => Cloning(n)'
      BY <2>2 DEF Cloning, On, NameOf, Goes
    <3> QED
      BY <3>1, <3>2 DEF Accounted
  <2> QED
    BY <2>1, <2>2
<1>4. ASSUME NEW q \in Scanners, q # r PROVE OwnClone(q)' /\ Ready(q)' /\ Kept(q)'
  <2>1. scanner'[q] = scanner[q] /\ OwnClone(q) /\ Ready(q) /\ Kept(q)
    BY <1>4 DEF Goes, FileInv
  <2>2. CASE ~UnderWay(q)
    BY <2>1, <2>2 DEF OwnClone, Ready, Kept, UnderWay, On, Ended
  <2>3. CASE UnderWay(q) /\ NameOf(q) # NameOf(r)
    <3>1. copy'[NameOf(q)] = CopyOf(q) /\ (NameOf(q) \in cut' <=> NameOf(q) \in cut)
      BY <2>3 DEF FileInv, FileTypeOK, OtherNamesKept, CopyOf
    <3> QED
      BY <2>1, <3>1 DEF OwnClone, Ready, Kept, UnderWay, On, CopyOf, NameOf
  <2>4. CASE UnderWay(q) /\ NameOf(q) = NameOf(r)
    <3>1. scanner[q].beside <=> scanner[r].beside
      BY <2>4 DEF FileInv, BesideTogether
    <3>2. CASE scanner[r].beside
      BY <2>1, <3>1, <3>2 DEF OwnClone, Ready, Kept
    <3>3. CASE ~scanner[r].beside
      <4>1. Spares(r) /\ CopyOf(q) = CopyOf(r)
        BY <2>4, <3>3 DEF CopyOf
      <4>2. /\ NameOf(q) \in cut => NameOf(q) \in cut'
            /\ CopyOf(q).whole => copy'[NameOf(q)].whole \/ NameOf(q) \in cut'
            /\ CopyOf(q).cloner = q =>
                  /\ copy'[NameOf(q)].cloner = q /\ copy'[NameOf(q)].url = CopyOf(q).url
                  /\ copy'[NameOf(q)].whole => CopyOf(q).whole
        BY <1>4, <2>4, <4>1 DEF Spares
      <4> QED
        BY <2>1, <4>2 DEF OwnClone, Ready, Kept, UnderWay, On, CopyOf, NameOf
    <3> QED
      BY <3>2, <3>3
  <2> QED
    BY <2>2, <2>3, <2>4
<1>5. ASSUME NEW q \in Scanners, q # r PROVE ReadWhole(q)'
  <2>1. ReadWhole(q) /\ scanner'[q] = scanner[q]
    BY <1>5 DEF FileInv, Goes
  <2> QED
    BY <2>1 DEF ReadWhole, On
<1> QED
  BY <1>1, <1>2, <1>3, <1>4, <1>5 DEF FileInv

LEMMA ProceedGoes ==
    ASSUME FileInv, NEW r \in Scanners, NEW step \in FileSteps, Proceed(r, step)
    PROVE  /\ Goes(r, step)
           /\ scanner'[r].cloned = scanner[r].cloned
           /\ scanner'[r].unfinished = scanner[r].unfinished
BY DEF FileInv, FileTypeOK, Proceed, Goes, RequestRecords

(* A request that takes a step and leaves the copies alone.                *)
LEMMA GoInv ==
    ASSUME FileInv, NEW r \in Scanners, UnderWay(r), ~On(r, "cloning"),
           NEW step \in FileSteps \ {"rmtree", "scanned", "cloning"},
           Goes(r, step), scanner'[r].cloned = scanner[r].cloned,
           UNCHANGED <<copy, cut>>, source' \in [Names -> Urls \union {NoUrl}],
           step \in {"pull", "choose", "lock", "layers"} /\ ~scanner[r].beside =>
              CopyOf(r).whole \/ NameOf(r) \in cut \/ scanner'[r].unfinished
    PROVE  FileInv'
<1>1. NameOf(r) \in Names /\ copy' \in [Names -> Copies]
  BY DEF FileInv, FileTypeOK
<1>2. Spares(r) /\ OtherNamesKept(r)
  BY DEF Spares, OtherNamesKept, CopyOf
<1>3. Accounted(NameOf(r))'
  <2>1. Accounted(NameOf(r))
    BY <1>1 DEF FileInv
  <2>2. NameOf(r)' = NameOf(r) /\ (Cloning(NameOf(r)) => Cloning(NameOf(r)'))
    BY DEF Goes, NameOf, Cloning, On
  <2>3. Cloning(NameOf(r)) => Cloning(NameOf(r))'
    BY DEF Goes, NameOf, Cloning, On
  <2> QED
    BY <2>1, <2>2, <2>3 DEF Accounted
<1>4. Ready(r)' /\ OwnClone(r)' /\ ReadWhole(r)'
  BY DEF Goes, Ready, OwnClone, ReadWhole, On, CopyOf, NameOf
<1>5. Kept(r)'
  <2>1. Kept(r)
    BY DEF FileInv
  <2> QED
    BY <2>1 DEF Kept, Goes, CopyOf, NameOf, UnderWay
<1> QED
  BY <1>1, <1>2, <1>3, <1>4, <1>5, MoveInv

LEMMA ProceedInv ==
    ASSUME FileInv, NEW r \in Scanners, UnderWay(r), ~On(r, "cloning"),
           NEW step \in FileSteps \ {"rmtree", "scanned", "cloning"}, Proceed(r, step),
           UNCHANGED <<copy, cut>>, source' \in [Names -> Urls \union {NoUrl}],
           step \in {"pull", "choose", "lock", "layers"} =>
              scanner[r].step \in {"pull", "choose", "lock", "layers"}
    PROVE  FileInv'
<1>1. Goes(r, step) /\ scanner'[r].cloned = scanner[r].cloned
      /\ scanner'[r].unfinished = scanner[r].unfinished
  BY ProceedGoes
<1>2. Ready(r)
  BY DEF FileInv
<1> QED
  BY <1>1, <1>2, GoInv DEF Ready

(* A request ends: it has left no copy, or its name is in `cut`.           *)
LEMMA EndsInv ==
    ASSUME FileInv, NEW r \in Scanners, UnderWay(r),
           NEW step \in Ended \ {"scanned"}, Proceed(r, step),
           copy' \in [Names -> Copies], UNCHANGED source,
           OtherNamesKept(r), scanner[r].beside \/ Spares(r),
           \/ copy'[NameOf(r)] = NoCopy \/ copy'[NameOf(r)].whole
           \/ NameOf(r) \in cut'
    PROVE  FileInv'
<1>1. Goes(r, step) /\ step \in FileSteps \ {"rmtree"}
  BY ProceedGoes DEF FileSteps, Ended
<1>2. source' \in [Names -> Urls \union {NoUrl}]
  BY DEF FileInv, FileTypeOK
<1>3. Accounted(NameOf(r))'
  BY <1>1 DEF Accounted, Goes, NameOf
<1>4. OwnClone(r)' /\ Ready(r)' /\ Kept(r)' /\ ReadWhole(r)'
  BY <1>1 DEF Goes, OwnClone, Ready, Kept, ReadWhole, On, UnderWay, Ended
<1> QED
  BY <1>1, <1>2, <1>3, <1>4, MoveInv

LEMMA SendInv ==
    ASSUME FileInv, NEW r \in Scanners, NEW request \in RequestRecords, Send(r, request),
           request.step \in {"exists", "rmtree"}, request.name \in Names, ~request.cloned,
           UNCHANGED <<copy, cut>>, source' \in [Names -> Urls \union {NoUrl}]
    PROVE  FileInv'
<1> DEFINE same == {q \in Scanners : UnderWay(q) /\ NameOf(q) = request.name}
<1>1. PICK beside \in BOOLEAN :
         beside = (request.step = "rmtree" \/ \E q \in same : scanner[q].beside)
  OBVIOUS
<1>2. /\ scanner' = [q \in Scanners |->
             IF q = r THEN [request EXCEPT !.beside = beside]
             ELSE IF q \in same THEN [scanner[q] EXCEPT !.beside = beside]
             ELSE scanner[q]]
      /\ ~UnderWay(r)
  BY <1>1 DEF Send
<1>3. \A q \in Scanners : q \in same <=> UnderWay(q) /\ NameOf(q) = request.name
  OBVIOUS
<1>4. /\ request.step = "rmtree" => beside
      /\ \A q \in same : scanner[q].beside => beside
  BY <1>1
<1> HIDE DEF same
<1>5. /\ scanner'[r] \in RequestRecords
      /\ scanner'[r].step = request.step /\ scanner'[r].name = request.name
      /\ ~scanner'[r].cloned
      /\ scanner'[r].beside = beside
  <2>1. scanner'[r] = [request EXCEPT !.beside = beside]
    BY <1>2
  <2> QED
    BY <1>1, <2>1 DEF RequestRecords
<1>6. ASSUME NEW q \in Scanners, q # r
      PROVE  /\ scanner'[q] \in RequestRecords
             /\ scanner'[q].step = scanner[q].step /\ scanner'[q].name = scanner[q].name
             /\ scanner'[q].url = scanner[q].url
             /\ scanner'[q].seen = scanner[q].seen /\ scanner'[q].spoilt = scanner[q].spoilt
             /\ scanner'[q].cloned = scanner[q].cloned
             /\ scanner'[q].unfinished = scanner[q].unfinished
             /\ q \in same => scanner'[q].beside = beside
             /\ q \notin same => scanner'[q].beside = scanner[q].beside
             /\ scanner[q].beside => scanner'[q].beside
  <2>1. scanner[q] \in RequestRecords
    BY DEF FileInv, FileTypeOK
  <2>2. CASE q \in same
    <3>1. scanner'[q] = [scanner[q] EXCEPT !.beside = beside]
      BY <1>2, <1>6, <2>2
    <3>2. scanner[q].beside => beside
      BY <1>4, <2>2
    <3> QED
      BY <2>1, <2>2, <3>1, <3>2 DEF RequestRecords
  <2>3. CASE q \notin same
    <3>1. scanner'[q] = scanner[q]
      BY <1>2, <1>6, <2>3
    <3> QED
      BY <2>1, <2>3, <3>1
  <2> QED
    BY <2>2, <2>3
<1>7. FileTypeOK'
  <2>1. scanner' \in [Scanners -> RequestRecords]
    <3>1. \A q \in Scanners : scanner'[q] \in RequestRecords
      BY <1>5, <1>6
    <3>2. scanner' = [q \in Scanners |-> scanner'[q]]
      BY <1>2
    <3> QED
      BY <3>1, <3>2
  <2>2. \A q \in Scanners : UnderWay(q)' => NameOf(q)' \in Names
    BY <1>5, <1>6 DEF FileInv, FileTypeOK, UnderWay, NameOf
  <2> QED
    BY <2>1, <2>2 DEF FileInv, FileTypeOK
<1>8. ASSUME NEW n \in Names PROVE Accounted(n)'
  <2>1. Accounted(n)
    BY DEF FileInv
  <2>2. ASSUME NEW q \in Scanners, On(q, "cloning"), NameOf(q) = n
        PROVE  On(q, "cloning")' /\ NameOf(q)' = n
    <3>1. q # r
      BY <1>2, <2>2 DEF UnderWay, On, Ended
    <3> QED
      BY <1>6, <2>2, <3>1 DEF On, NameOf
  <2>3. Cloning(n) => Cloning(n)'
    BY <2>2 DEF Cloning
  <2> QED
    BY <2>1, <2>3 DEF Accounted
<1>9. BesideTogether'
  <2>1. \A q \in Scanners : UnderWay(q)' /\ NameOf(q)' = request.name => scanner'[q].beside = beside
    BY <1>3, <1>5, <1>6 DEF UnderWay, NameOf
  <2>2. \A q \in Scanners : UnderWay(q)' /\ NameOf(q)' # request.name =>
           UnderWay(q) /\ NameOf(q)' = NameOf(q) /\ scanner'[q].beside = scanner[q].beside
    BY <1>3, <1>5, <1>6 DEF UnderWay, NameOf
  <2>3. \A q \in Scanners : On(q, "rmtree")' => scanner'[q].beside
    BY <1>4, <1>5, <1>6 DEF FileInv, BesideTogether, On
  <2> QED
    BY <2>1, <2>2, <2>3 DEF FileInv, BesideTogether
<1>10. ASSUME NEW q \in Scanners PROVE OwnClone(q)' /\ Ready(q)' /\ Kept(q)' /\ ReadWhole(q)'
  <2>1. OwnClone(q) /\ Ready(q) /\ Kept(q) /\ ReadWhole(q)
    BY DEF FileInv
  <2>2. CASE q = r
    BY <1>5, <2>2 DEF OwnClone, Ready, Kept, ReadWhole, On
  <2>3. CASE q # r
    BY <1>6, <2>1, <2>3 DEF OwnClone, Ready, Kept, ReadWhole, On, UnderWay, CopyOf, NameOf
  <2> QED
    BY <2>2, <2>3
<1> QED
  BY <1>7, <1>8, <1>9, <1>10 DEF FileInv

(* What is left when git or a removal is cut short: copies as they were or *)
(* parts of them, and those of the names that are parts are in `cut`.      *)
LEMMA CutShortCopies ==
    ASSUME FileInv, NEW names, CutShort(names)
    PROVE  /\ copy' \in [Names -> Copies]
           /\ \A n \in Names :
                 /\ n \notin names => copy'[n] = copy[n] /\ (n \in cut' <=> n \in cut)
                 /\ n \in cut => n \in cut'
                 /\ n \in names => copy'[n] = NoCopy \/ copy'[n].whole \/ n \in cut'
                 /\ copy'[n].cloner = copy[n].cloner /\ copy'[n].url = copy[n].url
                 /\ copy'[n].whole => copy[n].whole
                 /\ copy[n].whole => copy'[n].whole \/ n \in cut'
<1>1. PICK parts \in SUBSET names :
         copy' = [n \in Names |-> IF n \in parts /\ Exists(n)
                                  THEN [copy[n] EXCEPT !.whole = FALSE] ELSE copy[n]]
  BY DEF CutShort
<1>2. cut' = cut \union {n \in names : Exists(n) /\ ~copy'[n].whole}
  BY DEF CutShort
<1>3. ASSUME NEW n \in Names
      PROVE  /\ copy'[n] \in Copies /\ copy'[n].cloner = copy[n].cloner
             /\ copy'[n].url = copy[n].url
             /\ copy'[n].whole => copy[n].whole
             /\ ~Exists(n) \/ n \notin names => copy'[n] = copy[n]
  <2>1. copy[n] \in Copies
    BY DEF FileInv, FileTypeOK
  <2>2. CASE n \in parts /\ Exists(n)
    <3>1. copy'[n] = [copy[n] EXCEPT !.whole = FALSE]
      BY <1>1, <2>2
    <3> QED
      BY <1>1, <2>1, <2>2, <3>1 DEF Copies
  <2>3. CASE ~(n \in parts /\ Exists(n))
    <3>1. copy'[n] = copy[n]
      BY <1>1, <2>3
    <3> QED
      BY <2>1, <3>1
  <2> QED
    BY <2>2, <2>3
<1>4. copy' \in [Names -> Copies]
  <2>1. copy' = [n \in Names |-> copy'[n]]
    BY <1>1
  <2> QED
    BY <1>3, <2>1
<1>5. ASSUME NEW n \in Names
      PROVE  /\ n \notin names => (n \in cut' <=> n \in cut)
             /\ n \in cut => n \in cut'
             /\ n \in names => copy'[n] = NoCopy \/ copy'[n].whole \/ n \in cut'
             /\ copy[n].whole => copy'[n].whole \/ n \in cut'
  <2>1. copy[n].whole => Exists(n)
    BY DEF Exists, NoCopy
  <2>2. n \in cut' <=> n \in cut \/ (n \in names /\ Exists(n) /\ ~copy'[n].whole)
    BY <1>2
  <2>3. ~Exists(n) => copy'[n] = NoCopy
    BY <1>3 DEF Exists
  <2> QED
    BY <1>3, <2>1, <2>2, <2>3
<1> QED
  BY <1>3, <1>4, <1>5

LEMMA CutOneSpares ==
    ASSUME FileInv, NEW r \in Scanners, NameOf(r) \in Names, CutShort({NameOf(r)})
    PROVE  /\ Spares(r) /\ OtherNamesKept(r) /\ copy' \in [Names -> Copies]
           /\ copy'[NameOf(r)] = NoCopy \/ copy'[NameOf(r)].whole \/ NameOf(r) \in cut'
BY CutShortCopies DEF Spares, OtherNamesKept, CopyOf

LEMMA FileStep == ASSUME FileInv, [FilesNext]_fileVars PROVE FileInv'
<1>1. ASSUME NEW r \in Scanners, ScanProject(r) PROVE FileInv'
  <2>1. PICK n \in Names, u \in Urls :
           Send(r, [NoRequest EXCEPT !.step = "exists", !.name = n, !.url = u])
    BY <1>1 DEF ScanProject
  <2> DEFINE request == [NoRequest EXCEPT !.step = "exists", !.name = n, !.url = u]
  <2>2. request \in RequestRecords /\ request.step = "exists" /\ request.name = n
      /\ ~request.cloned
    BY DEF NoRequest, NoCopy, RequestRecords, Copies, FileSteps
  <2> HIDE DEF request
  <2> QED
    BY <1>1, <2>1, <2>2, SendInv DEF ScanProject, FileInv, FileTypeOK, request
<1>2. ASSUME NEW r \in Scanners, RescanStored(r) PROVE FileInv'
  <2>1. PICK n \in Names : Send(r, [NoRequest EXCEPT !.step = "exists", !.name = n,
                                                     !.url = source[n], !.refresh = TRUE])
    BY <1>2 DEF RescanStored
  <2> DEFINE request == [NoRequest EXCEPT !.step = "exists", !.name = n, !.url = source[n],
                                          !.refresh = TRUE]
  <2>2. request \in RequestRecords /\ request.step = "exists" /\ request.name = n
      /\ ~request.cloned
    BY DEF NoRequest, NoCopy, RequestRecords, Copies, FileSteps, FileInv, FileTypeOK
  <2> HIDE DEF request
  <2> QED
    BY <1>2, <2>1, <2>2, SendInv DEF RescanStored, FileInv, FileTypeOK, request
<1>3. ASSUME NEW r \in Scanners, LookForCopy(r) PROVE FileInv'
  <2>1. NameOf(r) \in Names /\ UnderWay(r) /\ ~On(r, "cloning")
    BY <1>3 DEF LookForCopy, On, FileInv, FileTypeOK, UnderWay, Ended
  <2>2. UNCHANGED <<copy, cut>> /\ source' \in [Names -> Urls \union {NoUrl}]
    BY <1>3 DEF LookForCopy, FileInv, FileTypeOK
  <2>3. CASE ~Exists(NameOf(r))
    BY <1>3, <2>1, <2>2, <2>3, ProceedInv DEF LookForCopy, FileSteps
  <2>4. CASE Exists(NameOf(r))
    <3>1. PICK step \in {"pull", "choose"}, found \in BOOLEAN :
             /\ found <=> Cloning(NameOf(r))
             /\ scanner' = [scanner EXCEPT ![r].step = step, ![r].unfinished = found]
      <4>1. Cloning(NameOf(r)) \in BOOLEAN
        BY DEF Cloning
      <4> QED
        BY <1>3, <2>4, <4>1 DEF LookForCopy
    <3>2. step \in FileSteps \ {"rmtree", "scanned", "cloning"}
      BY DEF FileSteps
    <3>3. Goes(r, step) /\ scanner'[r].cloned = scanner[r].cloned /\ scanner'[r].unfinished = found
      BY <3>1, <3>2 DEF FileInv, FileTypeOK, Goes, RequestRecords
    <3>4. CopyOf(r).whole \/ NameOf(r) \in cut \/ scanner'[r].unfinished
      BY <2>1, <2>4, <3>1, <3>3 DEF FileInv, Accounted, Exists, CopyOf
    <3> QED
      BY <2>1, <2>2, <3>2, <3>3, <3>4, GoInv
  <2> QED
    BY <2>3, <2>4
<1>4. ASSUME NEW r \in Scanners, BeginClone(r) PROVE FileInv'
  <2>1. NameOf(r) \in Names /\ UnderWay(r) /\ ~On(r, "cloning")
    BY <1>4 DEF BeginClone, On, FileInv, FileTypeOK, UnderWay, Ended
  <2>2. source' \in [Names -> Urls \union {NoUrl}] /\ UNCHANGED cut
    BY <1>4 DEF BeginClone, FileInv, FileTypeOK
  <2>3. CASE Exists(NameOf(r))
    BY <1>4, <2>1, <2>2, <2>3, ProceedInv DEF BeginClone, Reject, FileSteps, Ended
  <2>4. CASE ~Exists(NameOf(r))
    <3> DEFINE begun == [url |-> scanner[r].url, whole |-> FALSE, cloner |-> r]
    <3>1. copy' = [copy EXCEPT ![NameOf(r)] = begun] /\ Proceed(r, "cloning")
      BY <1>4, <2>4 DEF BeginClone
    <3>2. begun \in Copies
      BY DEF FileInv, FileTypeOK, RequestRecords, Copies
    <3>3. begun.url = scanner[r].url /\ ~begun.whole /\ begun.cloner = r
      OBVIOUS
    <3> HIDE DEF begun
    <3>4. copy' \in [Names -> Copies] /\ copy'[NameOf(r)] = begun
          /\ \A m \in Names : m # NameOf(r) => copy'[m] = copy[m]
      BY <2>1, <3>1, <3>2 DEF FileInv, FileTypeOK
    <3>5. "cloning" \in FileSteps \ {"rmtree"} /\ Goes(r, "cloning")
      BY <3>1, ProceedGoes DEF FileSteps
    <3>6. CopyOf(r) = NoCopy
      BY <2>4 DEF Exists, CopyOf
    <3>7. ~CopyOf(r).whole /\ CopyOf(r).cloner \notin Scanners
      BY <3>6, FilesAssumption DEF NoCopy
    <3>8. Spares(r) /\ OtherNamesKept(r)
      BY <2>2, <3>4, <3>7 DEF Spares, OtherNamesKept
    <3>9. Accounted(NameOf(r))'
      BY <3>5 DEF Accounted, Cloning, On, NameOf, Goes
    <3>10. OwnClone(r)' /\ Kept(r)' /\ Ready(r)' /\ ReadWhole(r)'
      BY <3>3, <3>4, <3>5 DEF OwnClone, Kept, Ready, ReadWhole, On, CopyOf, NameOf, Goes
    <3> QED
      BY <2>1, <2>2, <3>4, <3>5, <3>8, <3>9, <3>10, MoveInv
  <2> QED
    BY <2>3, <2>4
<1>5. ASSUME NEW r \in Scanners, CloneDone(r) PROVE FileInv'
  <2>1. NameOf(r) \in Names /\ UnderWay(r) /\ CopyOf(r).cloner = r /\ ~CopyOf(r).whole
        /\ UNCHANGED cut /\ source' \in [Names -> Urls \union {NoUrl}]
    BY <1>5 DEF CloneDone, OwnCopy, On, FileInv, FileTypeOK, UnderWay, Ended
  <2>2. PICK whole \in BOOLEAN : /\ whole \/ NameOf(r) \in cut
                                 /\ copy' = [copy EXCEPT ![NameOf(r)].whole = whole]
    BY <1>5 DEF CloneDone
  <2>3. /\ copy' \in [Names -> Copies] /\ copy'[NameOf(r)].whole = whole
        /\ copy'[NameOf(r)].url = CopyOf(r).url /\ copy'[NameOf(r)].cloner = CopyOf(r).cloner
        /\ \A m \in Names : m # NameOf(r) => copy'[m] = copy[m]
    BY <2>1, <2>2 DEF FileInv, FileTypeOK, Copies, CopyOf
  <2>4. "choose" \in FileSteps \ {"rmtree"} /\ Goes(r, "choose")
    <3>1. "choose" \in FileSteps \ {"rmtree"}
      BY DEF FileSteps
    <3>2. scanner' = [scanner EXCEPT ![r].step = "choose", ![r].cloned = TRUE]
      BY <1>5 DEF CloneDone
    <3>3. scanner[r] \in RequestRecords /\ scanner \in [Scanners -> RequestRecords]
      BY DEF FileInv, FileTypeOK
    <3>4. scanner'[r] = [scanner[r] EXCEPT !.step = "choose", !.cloned = TRUE]
      BY <3>2, <3>3
    <3>5. scanner'[r] \in RequestRecords
      BY <3>1, <3>3, <3>4 DEF RequestRecords
    <3> QED
      BY <3>1, <3>2, <3>3, <3>4, <3>5 DEF Goes, RequestRecords
  <2>5. Spares(r) /\ OtherNamesKept(r)
    BY <2>1, <2>3 DEF Spares, OtherNamesKept
  <2>6. Accounted(NameOf(r))' /\ Ready(r)'
    BY <2>1, <2>2, <2>3, <2>4 DEF Accounted, Ready, CopyOf, NameOf, Goes
  <2>7. OwnClone(r)' /\ ReadWhole(r)'
    BY <2>4 DEF OwnClone, ReadWhole, On, Goes
  <2>8. Kept(r)'
    <3>1. OwnClone(r) /\ On(r, "cloning")
      BY <1>5 DEF FileInv, CloneDone
    <3> QED
      BY <2>1, <2>3, <2>4, <3>1 DEF OwnClone, Kept, CopyOf, NameOf, Goes
  <2> QED
    BY <2>1, <2>3, <2>4, <2>5, <2>6, <2>7, <2>8, MoveInv
<1>6. ASSUME NEW r \in Scanners, CloneFailed(r) PROVE FileInv'
  <2>1. NameOf(r) \in Names /\ UnderWay(r) /\ On(r, "cloning") /\ UNCHANGED <<cut, source>>
        /\ Proceed(r, "refused") /\ "refused" \in Ended \ {"scanned"}
    BY <1>6 DEF CloneFailed, Reject, On, FileInv, FileTypeOK, UnderWay, Ended
  <2>2. copy' \in [Names -> Copies] /\ copy'[NameOf(r)] = NoCopy /\ OtherNamesKept(r)
    BY <1>6, <2>1 DEF CloneFailed, FileInv, FileTypeOK, Copies, NoCopy, OtherNamesKept
  <2>3. scanner[r].beside \/ Spares(r)
    <3>1. scanner[r].beside \/ (CopyOf(r).cloner = r /\ ~CopyOf(r).whole)
      BY <2>1 DEF FileInv, OwnClone
    <3> QED
      BY <2>1, <3>1 DEF Spares
  <2> QED
    BY <2>1, <2>2, <2>3, EndsInv
<1>7. ASSUME NEW r \in Scanners, GitTimedOut(r) PROVE FileInv'
  <2>1. UnderWay(r) /\ NameOf(r) \in Names
    BY <1>7 DEF GitTimedOut, On, UnderWay, Ended, FileInv, FileTypeOK
  <2>2. Proceed(r, "refused") /\ "refused" \in Ended \ {"scanned"} /\ UNCHANGED source
        /\ CutShort({NameOf(r)})
    BY <1>7 DEF GitTimedOut, Reject, Ended
  <2> QED
    BY <2>1, <2>2, CutOneSpares, EndsInv
<1>8. ASSUME NEW r \in Scanners, Pull(r) \/ ChooseSchema(r) PROVE FileInv'
  <2>1. UnderWay(r) /\ ~On(r, "cloning") /\ scanner[r].step \in {"pull", "choose"}
        /\ UNCHANGED <<copy, cut>> /\ source' \in [Names -> Urls \union {NoUrl}]
    BY <1>8 DEF Pull, ChooseSchema, On, UnderWay, Ended, FileInv, FileTypeOK
  <2>2. PICK step \in {"choose", "lock", "refused"} : Proceed(r, step)
    BY <1>8 DEF Pull, ChooseSchema, Reject
  <2>3. step \in FileSteps \ {"rmtree", "scanned", "cloning"}
    BY DEF FileSteps, Ended
  <2> QED
    BY <2>1, <2>2, <2>3, ProceedInv
<1>10. ASSUME NEW r \in Scanners, TakeLock(r) PROVE FileInv'
  <2>1. UnderWay(r) /\ ~On(r, "cloning") /\ scanner[r].step = "lock" /\ UNCHANGED <<copy, cut>>
    BY <1>10 DEF TakeLock, On, UnderWay, Ended
  <2>2. source' \in [Names -> Urls \union {NoUrl}]
    BY <1>10 DEF TakeLock, FileInv, FileTypeOK, RequestRecords
  <2>3. PICK step \in {"layers", "refused"} : Proceed(r, step)
    BY <1>10 DEF TakeLock, Reject
  <2>4. step \in FileSteps \ {"rmtree", "scanned", "cloning"}
    BY DEF FileSteps, Ended
  <2> QED
    BY <2>1, <2>2, <2>3, <2>4, ProceedInv
<1>11. ASSUME NEW r \in Scanners, RunLayersOn(r) PROVE FileInv'
  <2>1. NameOf(r) \in Names /\ UnderWay(r) /\ ~On(r, "cloning") /\ scanner[r].step = "layers"
        /\ UNCHANGED <<copy, cut>> /\ source' \in [Names -> Urls \union {NoUrl}]
    BY <1>11 DEF RunLayersOn, On, UnderWay, Ended, FileInv, FileTypeOK
  <2>2. CASE Reject(r)
    BY <2>1, <2>2, ProceedInv DEF Reject, FileSteps, Ended
  <2>3. CASE scanner' = [scanner EXCEPT ![r].step = "scanned", ![r].seen = CopyOf(r),
                                        ![r].spoilt = NameOf(r) \in cut]
    <3>1. CopyOf(r) \in Copies /\ scanner[r] \in RequestRecords /\ copy' \in [Names -> Copies]
      BY <2>1 DEF FileInv, FileTypeOK, CopyOf
    <3>2. (NameOf(r) \in cut) \in BOOLEAN
      OBVIOUS
    <3>3. /\ "scanned" \in FileSteps \ {"rmtree"} /\ Goes(r, "scanned")
          /\ scanner'[r].seen = CopyOf(r) /\ scanner'[r].spoilt = (NameOf(r) \in cut)
          /\ scanner'[r].cloned = scanner[r].cloned
          /\ scanner'[r].unfinished = scanner[r].unfinished
      BY <2>3, <3>1, <3>2 DEF FileInv, FileTypeOK, RequestRecords, Goes, FileSteps, Ended
    <3>4. Spares(r) /\ OtherNamesKept(r)
      BY <2>1 DEF Spares, OtherNamesKept, CopyOf
    <3>5. Accounted(NameOf(r))'
      <4>1. Accounted(NameOf(r)) /\ NameOf(r)' = NameOf(r)
        BY <2>1, <3>3 DEF FileInv, Goes, NameOf
      <4>2. Cloning(NameOf(r)) => Cloning(NameOf(r))'
        BY <2>1, <3>3 DEF Goes, NameOf, Cloning, On
      <4> QED
        BY <2>1, <4>1, <4>2 DEF Accounted
    <3>6. OwnClone(r)' /\ Ready(r)' /\ Kept(r)'
      BY <3>3 DEF OwnClone, Ready, Kept, On, UnderWay, Ended, Goes
    <3>7. ReadWhole(r)'
      <4>1. Ready(r) /\ Kept(r)
        BY DEF FileInv
      <4> QED
        BY <2>1, <3>3, <4>1 DEF Ready, Kept, ReadWhole, On, Goes
    <3> QED
      BY <2>1, <3>1, <3>3, <3>4, <3>5, <3>6, <3>7, MoveInv
  <2> QED
    BY <1>11, <2>2, <2>3 DEF RunLayersOn
<1>12. ASSUME NEW r \in Scanners, DeleteRows(r) PROVE FileInv'
  <2>1. PICK n \in Names : /\ Send(r, [NoRequest EXCEPT !.step = "rmtree", !.name = n])
                           /\ source' = [source EXCEPT ![n] = NoUrl]
    BY <1>12 DEF DeleteRows
  <2> DEFINE request == [NoRequest EXCEPT !.step = "rmtree", !.name = n]
  <2>2. request \in RequestRecords /\ request.step = "rmtree" /\ request.name = n
      /\ ~request.cloned
    BY DEF NoRequest, NoCopy, RequestRecords, Copies, FileSteps
  <2>3. source' \in [Names -> Urls \union {NoUrl}]
    BY <2>1 DEF FileInv, FileTypeOK
  <2> HIDE DEF request
  <2> QED
    BY <1>12, <2>1, <2>2, <2>3, SendInv DEF DeleteRows, request
<1>13. ASSUME NEW r \in Scanners, RemoveTree(r) PROVE FileInv'
  <2>1. NameOf(r) \in Names /\ UnderWay(r) /\ scanner[r].beside /\ UNCHANGED source
        /\ Proceed(r, "removed") /\ "removed" \in Ended \ {"scanned"}
    BY <1>13 DEF RemoveTree, On, UnderWay, Ended, FileInv, FileTypeOK, BesideTogether
  <2>2. CASE copy' = [copy EXCEPT ![NameOf(r)] = NoCopy] /\ cut' = cut \ {NameOf(r)}
    <3>1. copy' \in [Names -> Copies] /\ copy'[NameOf(r)] = NoCopy /\ OtherNamesKept(r)
      BY <2>1, <2>2 DEF FileInv, FileTypeOK, Copies, NoCopy, OtherNamesKept
    <3> QED
      BY <2>1, <3>1, EndsInv
  <2>3. CASE CutShort({NameOf(r)})
    BY <2>1, <2>3, CutOneSpares, EndsInv
  <2> QED
    BY <1>13, <2>2, <2>3 DEF RemoveTree
<1>14. CASE ApiDies
  <2> DEFINE names == {NameOf(q) : q \in {p \in Scanners :
                          On(p, "cloning") \/ On(p, "pull") \/ On(p, "rmtree")}}
  <2>1. /\ CutShort(names) /\ UNCHANGED source
        /\ \A r \in Scanners : scanner'[r] = NoRequest
    BY <1>14 DEF ApiDies
  <2>2. \A n \in Names : Cloning(n) => n \in names
    BY DEF Cloning
  <2> HIDE DEF names
  <2>3. NoRequest \in RequestRecords /\ NoRequest.step = "none"
    BY DEF NoRequest, NoCopy, RequestRecords, Copies, FileSteps, Ended
  <2>4. FileTypeOK'
    <3>1. copy' \in [Names -> Copies]
      BY <2>1, CutShortCopies
    <3>2. scanner' \in [Scanners -> RequestRecords]
      <4>1. scanner' = [r \in Scanners |-> NoRequest]
        BY <1>14 DEF ApiDies
      <4>2. NoRequest \in RequestRecords
        BY <2>3
      <4> QED
        BY <4>1, <4>2
    <3>3. \A r \in Scanners : ~UnderWay(r)'
      BY <2>1, <2>3 DEF UnderWay, Ended
    <3> QED
      BY <2>1, <3>1, <3>2, <3>3 DEF FileInv, FileTypeOK
  <2>5. ASSUME NEW n \in Names PROVE Accounted(n)'
    <3>1. CASE n \in names
      BY <2>1, <3>1, CutShortCopies DEF Accounted
    <3>2. CASE n \notin names
      <4>1. copy'[n] = copy[n] /\ (n \in cut' <=> n \in cut)
        BY <2>1, <3>2, CutShortCopies
      <4> QED
        BY <2>2, <3>2, <4>1 DEF Accounted, FileInv
    <3> QED
      BY <3>1, <3>2
  <2>6. BesideTogether'
    BY <2>1, <2>3 DEF BesideTogether, UnderWay, On, Ended
  <2>7. ASSUME NEW r \in Scanners PROVE OwnClone(r)' /\ Ready(r)' /\ Kept(r)' /\ ReadWhole(r)'
    BY <2>1, <2>3 DEF OwnClone, Ready, Kept, ReadWhole, UnderWay, On, Ended
  <2> QED
    BY <2>4, <2>5, <2>6, <2>7 DEF FileInv
<1>15. CASE UNCHANGED fileVars
  BY <1>15 DEF fileVars, FileInv, FileTypeOK, Accounted, Cloning, BesideTogether, OwnClone, Ready,
         Kept, ReadWhole, On, UnderWay, NameOf, CopyOf
<1> QED
  BY <1>1, <1>2, <1>3, <1>4, <1>5, <1>6, <1>7, <1>8, <1>10, <1>11, <1>12, <1>13, <1>14, <1>15
     DEF FilesNext

(* For any requests, URLs and names, and however many scans and rescans of *)
(* a name run beside each other: what a scan has cloned itself it reads    *)
(* from its own URL; and it reads a whole copy unless it took one another  *)
(* was still cloning, or one that a clone, pull or removal cut short had   *)
(* left in part.  Nothing is said of scans beside a removal of the name.   *)
THEOREM CopiesAreWholeHolds == FilesSpec => []CopiesAreWhole
<1>1. FilesInit => FileInv
  <2> SUFFICES ASSUME FilesInit PROVE FileInv
    OBVIOUS
  <2>1. NoRequest \in RequestRecords /\ NoRequest.step = "none"
    BY DEF NoRequest, NoCopy, RequestRecords, Copies, FileSteps, Ended
  <2>2. NoCopy \in Copies
    BY DEF NoCopy, Copies
  <2> QED
    BY <2>1, <2>2 DEF FilesInit, FileInv, FileTypeOK, Accounted, BesideTogether, OwnClone,
           Ready, Kept, ReadWhole, On, UnderWay, Ended
<1>2. FileInv => CopiesAreWhole
  BY DEF FileInv, ReadWhole, CopiesAreWhole
<1> QED
  BY <1>1, <1>2, FileStep, PTL DEF FilesSpec
==============================================================================
