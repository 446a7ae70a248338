---------------------------- MODULE FindingsView ----------------------------
(***************************************************************************)
(* The findings of a scan in apps/dashboard/src: lib/scans.ts and the page *)
(* app/(app)/[app]/findings read the API several times while scans start,  *)
(* conclude and are removed; components/Explanation.tsx lives in the       *)
(* browser and stays mounted while another finding is selected.            *)
(*                                                                         *)
(* Scans are numbered by the time they started.  What a finding says is    *)
(* left out; every concluded scan has the same findings.                   *)
(***************************************************************************)
EXTENDS Integers, FiniteSets

CONSTANTS
    Findings,
    MaxScans,       \* bound: scans ever started
    ListLimit       \* scans a listing returns, 50 in the code

ASSUME ViewAssumption == MaxScans \in Nat /\ ListLimit \in Nat \ {0}

VARIABLES
    status,         \* of every stored scan
    started,        \* scans ever started
    underWay,       \* the scan that holds the scan lock, or None
    render,         \* the render on the server
    screen,         \* the page in the browser
    explanation     \* the state of the Explanation component

viewVars == <<status, started, underWay, render, screen, explanation>>

None == 0
NoPage == [scan |-> None, previous |-> None, selected |-> "none"]
NoRender == [step |-> "none", scan |-> None, listed |-> {}, reads |-> {}, selected |-> "none"]
NotAsked == [state |-> "idle", of |-> "none"]

ViewInit ==
    /\ status = [s \in {} |-> "ok"]
    /\ started = 0 /\ underWay = None
    /\ render = NoRender /\ screen = NoPage /\ explanation = NotAsked

-----------------------------------------------------------------------------
(* The API (see ScanService): one scan at a time.                          *)

StartScanning ==
    /\ underWay = None /\ started < MaxScans
    /\ started' = started + 1
    /\ underWay' = started'
    /\ status' = [s \in DOMAIN status \union {started'} |->
                     IF s = started' THEN "running" ELSE status[s]]
    /\ UNCHANGED <<render, screen, explanation>>

(* It concludes, or the API dies and leaves the row as it is.              *)
EndScanning ==
    /\ underWay # None
    /\ underWay' = None
    /\ \/ \E result \in {"ok", "failed"} :
             status' = [s \in DOMAIN status |-> IF s = underWay THEN result ELSE status[s]]
       \/ UNCHANGED status
    /\ UNCHANGED <<started, render, screen, explanation>>

RemoveProject ==
    /\ DOMAIN status # {}
    /\ status' = [s \in {} |-> "ok"]
    /\ UNCHANGED <<started, underWay, render, screen, explanation>>

(* The newest scans, of which the page keeps those that succeeded.         *)
Newest == {s \in DOMAIN status : Cardinality({t \in DOMAIN status : t > s}) < ListLimit}
Listed_Unfiltered == Newest
Listed == {s \in Newest : status[s] = "ok"}

Latest(scans) == IF scans = {} THEN None ELSE CHOOSE s \in scans : \A t \in scans : t <= s

-----------------------------------------------------------------------------
(* The page.  resolveScan: the scan in the URL, else the latest.           *)

Render(finding, scan) ==
    /\ render.step = "none"
    /\ render' = [NoRender EXCEPT !.step = "resolve", !.scan = scan, !.selected = finding]
    /\ UNCHANGED <<status, started, underWay>>

(* Coming from another page; the links of the page keep the page.          *)
OpenPage == Render("first", None) /\ screen' = NoPage /\ explanation' = NotAsked

SelectFinding ==
    /\ screen.scan # None
    /\ \E f \in Findings \ {screen.selected} : Render(f, screen.scan)
    /\ UNCHANGED <<screen, explanation>>

(* React keeps the component where it stands in both pages.                *)
Show(page) ==
    /\ screen' = page
    /\ render' = NoRender
    /\ explanation' = IF page.scan = None THEN NotAsked ELSE explanation

ResolveScan ==
    /\ render.step = "resolve"
    /\ LET scan == IF render.scan = None THEN Latest(Listed)
                   ELSE IF render.scan \in Listed THEN render.scan ELSE None
       IN IF scan = None
          THEN Show(NoPage)
          ELSE /\ render' = [render EXCEPT !.step = "load", !.scan = scan]
               /\ UNCHANGED <<screen, explanation>>
    /\ UNCHANGED <<status, started, underWay>>

ReadOne(what) ==
    /\ what \notin render.reads
    /\ render' = [render EXCEPT !.reads = @ \union {what},
                                !.listed = IF what = "list" THEN Listed ELSE @]
    /\ UNCHANGED <<screen, explanation>>

(* The second listing decides what was the scan before.                    *)
PreviousIn(listed, scan) ==
    IF scan \in listed THEN Latest({s \in listed : s < scan}) ELSE None

Previous == PreviousIn(render.listed, render.scan)

(* Each read of a scan that is gone ends on the error page.                *)
LoadScan ==
    /\ render.step = "load"
    /\ \/ ReadOne("list")
       \/ render.scan \in DOMAIN status /\ ReadOne("summary")
       \/ render.scan \notin DOMAIN status /\ Show(NoPage)
    /\ UNCHANGED <<status, started, underWay>>

LoadFindings ==
    /\ render.step = "load" /\ render.reads = {"list", "summary"}
    /\ IF {render.scan, Previous} \ {None} \subseteq DOMAIN status
       THEN Show([scan |-> render.scan, previous |-> Previous,
                  selected |-> IF render.selected = "first"
                               THEN CHOOSE f \in Findings : TRUE ELSE render.selected])
       ELSE Show(NoPage)
    /\ UNCHANGED <<status, started, underWay>>

-----------------------------------------------------------------------------
(* Explanation.tsx                                                         *)

Explain ==
    /\ screen.scan # None /\ explanation.state = "idle"
    /\ explanation' = [state |-> "loading", of |-> screen.selected]
    /\ UNCHANGED <<status, started, underWay, render, screen>>

Explained ==
    /\ explanation.state = "loading"
    /\ \E outcome \in {"done", "error"} : explanation' = [explanation EXCEPT !.state = outcome]
    /\ UNCHANGED <<status, started, underWay, render, screen>>

ViewNext ==
    \/ StartScanning \/ EndScanning \/ RemoveProject
    \/ OpenPage \/ SelectFinding \/ ResolveScan \/ LoadScan \/ LoadFindings
    \/ Explain \/ Explained

ViewSpec == ViewInit /\ [][ViewNext]_viewVars

-----------------------------------------------------------------------------

(* "Since the previous scan" compares with the last scan that succeeded    *)
(* before the one shown: a scan that ended or began while the page was     *)
(* read, failed or was never finished is not taken for it, then or later.  *)
ComparedIsPrevious ==
    LET p == screen.previous
        s == screen.scan
    IN p \in DOMAIN status /\ s \in DOMAIN status =>
          /\ p < s /\ status[p] = "ok"
          /\ \A t \in DOMAIN status : p < t /\ t < s => status[t] # "ok"

(* Explanation.tsx:32 says of the text next to the finding on screen that  *)
(* it is "Written from the evidence only."                                 *)
ExplanationIsOfTheShown ==
    explanation.state = "done" => explanation.of = screen.selected
=============================================================================
