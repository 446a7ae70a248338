---------------------------- MODULE ProjectFiles ----------------------------
(***************************************************************************)
(* The working copies of one user's Git projects, one folder for each      *)
(* name: services/api/dashboard/project.py fetches them before the scan    *)
(* lock is asked for, the layers read them, and app.py removes them.       *)
(*                                                                         *)
(* The rows of a project are reduced to the source of its latest scan;     *)
(* ScanService has them in full.  git refuses to clone into a folder that  *)
(* exists, fails when its folder is removed under it, and removes what it  *)
(* cloned after a failure, but not when it is killed.  A pull that ends    *)
(* leaves a whole copy whole.                                              *)
(***************************************************************************)
EXTENDS Integers

CONSTANTS
    Scanners,       \* requests
    Urls,
    Names,          \* given, or derived from the last two parts of the URL
    MaxRequests     \* bound: requests ever sent

Nobody == "nobody"

ASSUME FilesAssumption == MaxRequests \in Nat /\ Nobody \notin Scanners

VARIABLES
    copy,           \* the working copies
    source,         \* the URL of a project's latest scan, or NoUrl
    scanLock,       \* _scan_lock
    scanner,        \* the requests
    asked,          \* requests ever sent
    cut             \* history: names under which a clone, pull or removal that was cut
                    \* short has left a part of a copy

fileVars == <<copy, source, scanLock, scanner, asked, cut>>

NoUrl == "no url"
NoCopy == [url |-> NoUrl, whole |-> FALSE, cloner |-> Nobody]

(* Of a request, as history: seen is the copy its layers read, and spoilt  *)
(* that its name was in `cut` then; cloned that its own git clone made the *)
(* copy; unfinished that it took a copy another was still cloning; beside  *)
(* that a removal of the project was under way meanwhile, or a request     *)
(* that was beside one.                                                    *)
NoRequest ==
    [step |-> "none", name |-> "none", url |-> NoUrl, refresh |-> FALSE,
     seen |-> NoCopy, spoilt |-> FALSE, cloned |-> FALSE, unfinished |-> FALSE,
     beside |-> FALSE]

FilesInit ==
    /\ copy = [n \in Names |-> NoCopy]
    /\ source = [n \in Names |-> NoUrl]
    /\ scanLock = Nobody
    /\ scanner = [r \in Scanners |-> NoRequest]
    /\ asked = 0
    /\ cut = {}

Ended == {"none", "scanned", "removed", "refused"}
UnderWay(r) == scanner[r].step \notin Ended

On(r, step) == scanner[r].step = step
NameOf(r) == scanner[r].name
CopyOf(r) == copy[NameOf(r)]
Exists(n) == copy[n] # NoCopy

Proceed(r, step) == scanner' = [scanner EXCEPT ![r].step = step]
Reject(r) == Proceed(r, "refused")

(* A new request takes the place of one that has ended.                    *)
Send(r, request) ==
    LET same == {q \in Scanners : UnderWay(q) /\ NameOf(q) = request.name}
        beside == request.step = "rmtree" \/ \E q \in same : scanner[q].beside
    IN /\ ~UnderWay(r) /\ asked < MaxRequests
       /\ asked' = asked + 1
       /\ scanner' = [q \in Scanners |->
             IF q = r THEN [request EXCEPT !.beside = beside]
             ELSE IF q \in same THEN [scanner[q] EXCEPT !.beside = beside]
             ELSE scanner[q]]

(* POST /v1/projects/scans, and a rescan, which takes the stored source.   *)
ScanProject(r) ==
    /\ \E n \in Names, u \in Urls :
          Send(r, [NoRequest EXCEPT !.step = "exists", !.name = n, !.url = u])
    /\ UNCHANGED <<copy, source, scanLock, cut>>

RescanStored(r) ==
    /\ \E n \in Names :
          /\ source[n] # NoUrl
          /\ Send(r, [NoRequest EXCEPT !.step = "exists", !.name = n, !.url = source[n],
                                       !.refresh = TRUE])
    /\ UNCHANGED <<copy, source, scanLock, cut>>

Cloning(n) == \E q \in Scanners : On(q, "cloning") /\ NameOf(q) = n

(* root.exists(): what is there is taken, whatever it was cloned from, and *)
(* whether or not it has been to the end.                                  *)
LookForCopy(r) ==
    /\ On(r, "exists")
    /\ IF Exists(NameOf(r))
       THEN scanner' = [scanner EXCEPT ![r].step = IF scanner[r].refresh THEN "pull" ELSE "choose",
                                       ![r].unfinished = Cloning(NameOf(r))]
       ELSE Proceed(r, "clone")
    /\ UNCHANGED <<copy, source, scanLock, asked, cut>>

BeginClone(r) ==
    /\ On(r, "clone")
    /\ IF Exists(NameOf(r))
       THEN Reject(r) /\ UNCHANGED copy
       ELSE /\ Proceed(r, "cloning")
            /\ copy' = [copy EXCEPT ![NameOf(r)] =
                             [url |-> scanner[r].url, whole |-> FALSE, cloner |-> r]]
    /\ UNCHANGED <<source, scanLock, asked, cut>>

OwnCopy(r) == CopyOf(r).cloner = r /\ ~CopyOf(r).whole

(* git may not notice that a removal took a part of what it has written.   *)
CloneDone(r) ==
    /\ On(r, "cloning") /\ OwnCopy(r)
    /\ \E whole \in {TRUE, NameOf(r) \notin cut} :
          copy' = [copy EXCEPT ![NameOf(r)].whole = whole]
    /\ scanner' = [scanner EXCEPT ![r].step = "choose", ![r].cloned = TRUE]
    /\ UNCHANGED <<source, scanLock, asked, cut>>

(* The return code of git is not looked at.                                *)
CloneFailed_Unnoticed(r) ==
    /\ On(r, "cloning")
    /\ copy' = [copy EXCEPT ![NameOf(r)] = NoCopy]
    /\ Proceed(r, "choose")
    /\ UNCHANGED <<source, scanLock, asked, cut>>

CloneFailed(r) ==
    /\ On(r, "cloning")
    /\ copy' = [copy EXCEPT ![NameOf(r)] = NoCopy]
    /\ Reject(r)
    /\ UNCHANGED <<source, scanLock, asked, cut>>

(* What is left under these names when git or a removal does not finish:   *)
(* each copy as it was, or a part of it.                                   *)
CutShort(names) ==
    /\ \E parts \in SUBSET names :
          copy' = [n \in Names |-> IF n \in parts /\ Exists(n)
                                    THEN [copy[n] EXCEPT !.whole = FALSE] ELSE copy[n]]
    /\ cut' = cut \union {n \in names : Exists(n) /\ ~copy'[n].whole}

(* subprocess.run kills git after CLONE_TIMEOUT_S.                         *)
GitTimedOut(r) ==
    /\ On(r, "cloning") \/ On(r, "pull")
    /\ CutShort({NameOf(r)})
    /\ Reject(r)
    /\ UNCHANGED <<source, scanLock, asked>>

(* `git pull` follows the remote of the copy; when it fails the copy is    *)
(* scanned as it is.                                                       *)
Pull(r) ==
    /\ On(r, "pull")
    /\ Proceed(r, "choose")
    /\ UNCHANGED <<copy, source, scanLock, asked, cut>>

(* find_schemas, the schema asked for, and the scan lock.                  *)
ChooseSchema(r) ==
    /\ On(r, "choose")
    /\ Proceed(r, "lock") \/ Reject(r)
    /\ UNCHANGED <<copy, source, scanLock, asked, cut>>

TakeLock(r) ==
    /\ On(r, "lock")
    /\ IF scanLock = Nobody
       THEN /\ scanLock' = r
            /\ Proceed(r, "layers")
            /\ source' = [source EXCEPT ![NameOf(r)] = scanner[r].url]
       ELSE Reject(r) /\ UNCHANGED <<scanLock, source>>
    /\ UNCHANGED <<copy, asked, cut>>

(* The layers read the copy; the scan succeeds or fails.                   *)
RunLayersOn(r) ==
    /\ On(r, "layers")
    /\ scanLock' = Nobody
    /\ \/ scanner' = [scanner EXCEPT ![r].step = "scanned", ![r].seen = CopyOf(r),
                                    ![r].spoilt = NameOf(r) \in cut]
       \/ Reject(r)
    /\ UNCHANGED <<copy, source, asked, cut>>

(* DELETE /v1/projects/{name}: the rows, then the folder.                  *)
DeleteRows(r) ==
    /\ \E n \in Names :
          /\ source[n] # NoUrl
          /\ Send(r, [NoRequest EXCEPT !.step = "rmtree", !.name = n])
          /\ source' = [source EXCEPT ![n] = NoUrl]
    /\ UNCHANGED <<copy, scanLock, cut>>

(* rmtree ignores errors: any of them may leave a part of the folder.      *)
RemoveTree(r) ==
    /\ On(r, "rmtree")
    /\ \/ /\ copy' = [copy EXCEPT ![NameOf(r)] = NoCopy]
          /\ cut' = cut \ {NameOf(r)}
       \/ CutShort({NameOf(r)})
    /\ Proceed(r, "removed")
    /\ UNCHANGED <<source, scanLock, asked>>

(* The API dies, and with it or after it the git processes it started; a   *)
(* removal ends where it is, its rows are gone already.                    *)
ApiDies ==
    /\ CutShort({NameOf(q) : q \in {p \in Scanners :
                                      On(p, "cloning") \/ On(p, "pull") \/ On(p, "rmtree")}})
    /\ scanner' = [r \in Scanners |-> NoRequest]
    /\ scanLock' = Nobody
    /\ UNCHANGED <<source, asked>>

FilesNext ==
    \/ \E r \in Scanners :
          \/ ScanProject(r) \/ RescanStored(r) \/ LookForCopy(r)
          \/ BeginClone(r) \/ CloneDone(r) \/ CloneFailed(r) \/ GitTimedOut(r)
          \/ Pull(r) \/ ChooseSchema(r) \/ TakeLock(r) \/ RunLayersOn(r)
          \/ DeleteRows(r) \/ RemoveTree(r)
    \/ ApiDies

FilesSpec == FilesInit /\ [][FilesNext]_fileVars

-----------------------------------------------------------------------------

(* However scans, rescans and their clones and pulls of one name run       *)
(* beside each other: a scan that cloned the copy itself has read a copy   *)
(* from its own URL, and a scan has read a whole copy, but for two causes: *)
(* it took one that another request was still cloning (root.exists() does  *)
(* not tell), or a clone, pull or removal cut short had left a part under  *)
(* the name.  Scans beside a removal of the project are left out.          *)
CopiesAreWhole ==
    \A r \in Scanners :
       On(r, "scanned") /\ ~scanner[r].beside =>
          /\ scanner[r].seen.whole \/ scanner[r].spoilt \/ scanner[r].unfinished
          /\ scanner[r].cloned => scanner[r].seen.url = scanner[r].url

(* "Scan a project given as a local path (administrators) or an https Git  *)
(* URL" (app.py:180): what a scan has read was cloned from the URL it was  *)
(* given, if the copy is whole.                                            *)
ScanReadsItsSource ==
    \A r \in Scanners :
       On(r, "scanned") /\ scanner[r].seen.whole => scanner[r].seen.url = scanner[r].url
=============================================================================
