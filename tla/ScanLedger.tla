----------------------------- MODULE ScanLedger -----------------------------
(***************************************************************************)
(* What the dashboard API promises about its scans, as a reader of its     *)
(* tables sees them: scans are carried out one at a time, only the one     *)
(* under way makes progress, results are there from the moment a scan is   *)
(* ok, and a scan that is removed never returns.  Threads, statements,     *)
(* transactions and connections are left to module ScanService, which      *)
(* implements this one.                                                    *)
(***************************************************************************)
CONSTANTS
    Scans,
    Nobody

VARIABLES
    life,       \* how far each scan is
    results,    \* the scans whose findings are there
    active      \* the scan that is carried out

scanLedgerVars == <<life, results, active>>

ScanLedgerInit ==
    /\ life = [s \in Scans |-> "new"]
    /\ results = {}
    /\ active = Nobody

(* A scan that is ok may still fail: its handler never heard of the commit. *)
Progress == {<<"new", "running">>, <<"running", "ok">>, <<"running", "failed">>, <<"ok", "failed">>}

Without(removed, lives) == [s \in Scans |-> IF s \in removed THEN "gone" ELSE lives[s]]

Begin(s) ==
    /\ active = Nobody
    /\ life[s] = "new"
    /\ active' = s
    /\ UNCHANGED <<life, results>>

(* Scans are removed, refused or given up: at any time, any of them.       *)
Remove(removed) ==
    /\ life' = Without(removed, life)
    /\ results' = results \ removed

(* The scan under way goes on; it is ok with all its findings, or without  *)
(* any if there are none.                                                  *)
GoOn(removed) ==
    /\ active # Nobody /\ active \notin removed
    /\ \E next \in {"running", "ok", "failed"} :
          /\ <<life[active], next>> \in Progress
          /\ life' = Without(removed, [life EXCEPT ![active] = next])
          /\ \/ results' = results \ removed
             \/ next = "ok" /\ results' = (results \ removed) \union {active}

(* Whoever ends a scan that never started has given it up.                 *)
End == active' = Nobody /\ (active # Nobody => life'[active] # "new")

ScanLedgerNext ==
    \/ \E s \in Scans : Begin(s)
    \/ \E removed \in SUBSET Scans :
          /\ Remove(removed) \/ GoOn(removed)
          /\ UNCHANGED active \/ End

ScanLedgerSpec == ScanLedgerInit /\ [][ScanLedgerNext]_scanLedgerVars
=============================================================================
