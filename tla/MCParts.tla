------------------------------ MODULE MCParts ------------------------------
(***************************************************************************)
(* The parts that share no state with one another, for one run of TLC: a   *)
(* behaviour is one of one part, while the others stay in an initial       *)
(* state.  The states of the parts add up, they do not multiply, and every *)
(* part is explored as it would be alone.                                  *)
(***************************************************************************)
EXTENDS AwaitGroups, ArgReader, TestApps, Seeding, FolderBrowser, FindingsView, SignIn,
        ProjectFiles, Explainer

VARIABLE part

AtRest(p, restricted) == part = p \/ restricted

FirstModel == CHOOSE m \in Models : TRUE

Init ==
    /\ part \in {"awaits", "arguments", "requests", "seeding", "browser", "findings",
                "tabs", "copies", "explanations"}
    /\ AwaitInit /\ AtRest("awaits", ~looped)
    /\ ArgInit
    /\ AppsInit /\ AtRest("requests", \A q \in Requests : route[q] = "posts")
    /\ SeedInit /\ AtRest("seeding", app = "blog")
    /\ BrowserInit
    /\ ViewInit
    /\ SignInit
    /\ FilesInit
    /\ ExplainInit /\ AtRest("explanations", running = FirstModel)

apis == <<fileVars, explainVars>>
analysis == <<awaitVars, argVars>>
apps == <<appVars, seedVars>>
web == <<browserVars, viewVars, signVars>>

Next ==
    /\ UNCHANGED part
    /\ \/ /\ part = "awaits" /\ AwaitNext
          /\ UNCHANGED <<argVars, apps, web, apis>>
       \/ /\ part = "arguments" /\ ArgNext
          /\ UNCHANGED <<awaitVars, apps, web, apis>>
       \/ /\ part = "requests" /\ AppsNext
          /\ UNCHANGED <<analysis, seedVars, web, apis>>
       \/ /\ part = "seeding" /\ SeedNext
          /\ UNCHANGED <<analysis, appVars, web, apis>>
       \/ /\ part = "browser" /\ BrowserNext
          /\ UNCHANGED <<analysis, apps, apis, viewVars, signVars>>
       \/ /\ part = "findings" /\ ViewNext
          /\ UNCHANGED <<analysis, apps, apis, browserVars, signVars>>
       \/ /\ part = "tabs" /\ SignNext
          /\ UNCHANGED <<analysis, apps, apis, browserVars, viewVars>>
       \/ /\ part = "copies" /\ FilesNext
          /\ UNCHANGED <<analysis, apps, web, explainVars>>
       \/ /\ part = "explanations" /\ ExplainNext
          /\ UNCHANGED <<analysis, apps, web, fileVars>>

Spec == Init /\ [][Next]_<<part, analysis, apps, web, apis>> /\ BrowserFairness /\ SignFairness
=============================================================================
