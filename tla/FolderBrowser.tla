--------------------------- MODULE FolderBrowser ---------------------------
(***************************************************************************)
(* apps/dashboard/src/components/FolderBrowser.tsx: walking the folders of *)
(* the API's machine.  A click changes path or hidden; the effect aborts   *)
(* the request before and sends a new one, whose answer (fsbrowse.py) is   *)
(* shown.  Folders stay clickable while their successor is loading.        *)
(***************************************************************************)
EXTENDS Integers

CONSTANT MaxClicks      \* bound: clicks of the visitor

ASSUME ClicksAssumption == MaxClicks \in Nat

VARIABLES
    open,       \* the dialog shows the browser
    path,       \* the path asked for
    hidden,     \* hidden folders are asked for
    listing,    \* the last listing received, or NoListing
    failed,     \* an error message is shown
    loading,
    requests,   \* requests not yet answered or aborted
    clicks

browserVars == <<open, path, hidden, listing, failed, loading, requests, clicks>>

(* setPath(undefined): the API lists the home folder.                      *)
Home == "home"
Unset == "unset"

(* A small tree; the link leads to the project, which cannot be listed     *)
(* always: any request may fail.                                           *)
Folders == {"root", Home, "project", "dotted"}
ParentOf == [home |-> "root", project |-> Home, dotted |-> Home]
Entries(folder, all) ==
    {f \in DOMAIN ParentOf : ParentOf[f] = folder /\ (f = "dotted" => all)}
        \union (IF folder = Home THEN {"link"} ELSE {})
Ancestors(folder) == {"root"} \union (IF folder = "root" THEN {} ELSE {ParentOf[folder], folder})

(* folder.resolve() of the API.                                            *)
Resolved(p) == CASE p = Unset -> Home [] p = "link" -> "project" [] OTHER -> p

NoListing == [folder |-> "none", all |-> FALSE]
Listing(r) == [folder |-> Resolved(r.path), all |-> r.hidden]

BrowserInit ==
    /\ open = FALSE
    /\ path = Unset /\ hidden = FALSE
    /\ listing = NoListing /\ failed = FALSE /\ loading = TRUE
    /\ requests = {} /\ clicks = 0

(* controller.abort() of the effect before.                                *)
AfterAbort_Missing == requests
AfterAbort == {}

(* The effect of [path, hidden].                                           *)
Load(p, h) ==
    /\ path' = p /\ hidden' = h
    /\ loading' = TRUE /\ failed' = FALSE
    /\ requests' = AfterAbort \union {[path |-> p, hidden |-> h]}

Click == open /\ clicks < MaxClicks /\ clicks' = clicks + 1

OpenBrowser(start) ==
    /\ ~open /\ clicks < MaxClicks /\ clicks' = clicks + 1
    /\ open' = TRUE
    /\ listing' = NoListing
    /\ Load(start, FALSE)

SetPath(p) ==
    /\ Click
    /\ p # path
    /\ Load(p, hidden)
    /\ UNCHANGED <<open, listing>>

OpenEntry == ~failed /\ \E f \in Entries(listing.folder, listing.all) : SetPath(f)
OpenCrumb == listing # NoListing /\ \E f \in Ancestors(listing.folder) : SetPath(f)
Up == ~loading /\ listing.folder \in DOMAIN ParentOf /\ SetPath(ParentOf[listing.folder])
GoHome == ~loading /\ listing # NoListing /\ SetPath(Home)
GoHomeAfterError == failed /\ SetPath(Unset)

ShowHidden ==
    /\ Click
    /\ Load(path, ~hidden)
    /\ UNCHANGED <<open, listing>>

(* The error path skips the end of the loading state.                      *)
Answer_NotFinally(r) ==
    /\ requests' = requests \ {r}
    /\ \/ listing' = Listing(r) /\ loading' = FALSE /\ UNCHANGED failed
       \/ failed' = TRUE /\ UNCHANGED <<listing, loading>>
    /\ UNCHANGED <<open, path, hidden, clicks>>

Answer(r) ==
    /\ requests' = requests \ {r}
    /\ loading' = FALSE
    /\ \/ listing' = Listing(r) /\ UNCHANGED failed
       \/ failed' = TRUE /\ UNCHANGED listing
    /\ UNCHANGED <<open, path, hidden, clicks>>

AnyAnswer == \E r \in requests : Answer(r)

CanChoose == open /\ listing # NoListing /\ ~loading /\ ~failed

Leave ==
    /\ open' = FALSE
    /\ requests' = AfterAbort
    /\ UNCHANGED <<path, hidden, listing, failed, loading, clicks>>

Cancel == open /\ Leave
Choose == CanChoose /\ Leave

BrowserNext ==
    \/ \E start \in {Unset, "project"} : OpenBrowser(start)
    \/ OpenEntry \/ OpenCrumb \/ Up \/ GoHome \/ GoHomeAfterError
    \/ ShowHidden \/ AnyAnswer \/ Cancel \/ Choose

(* fetch answers or fails.                                                 *)
BrowserFairness == WF_browserVars(AnyAnswer)

BrowserSpec == BrowserInit /\ [][BrowserNext]_browserVars /\ BrowserFairness

-----------------------------------------------------------------------------

(* The folder the Choose button names is the one last asked for, whatever  *)
(* was clicked while an earlier answer was under way.                      *)
ChooseIsCurrent ==
    CanChoose => listing.folder = Resolved(path) /\ listing.all = hidden

(* Every walk ends in a listing or an error message: the browser never     *)
(* stays in its loading state.                                             *)
LoadingEnds == open /\ loading ~> ~(open /\ loading)
=============================================================================
