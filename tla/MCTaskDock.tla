----------------------------- MODULE MCTaskDock -----------------------------
(***************************************************************************)
(* The dock with few tasks at a time: a refresh in a tab that is reloaded, *)
(* a refresh beside one of somebody else in a tab that is not, and where   *)
(* nobody has looked for the cached answer before it came, a collection,   *)
(* an export beside an import.                                             *)
(***************************************************************************)
EXTENDS TaskDock
CONSTANTS r, r2, c, e, i
VARIABLE scope

MCTasks == {r, r2, c, e, i}
MCKind == [t \in MCTasks |-> CASE t = r -> "refresh" [] t = r2 -> "elsewhere" [] t = c -> "collect"
                               [] t = e -> "export" [] OTHER -> "import"]
MCScopes == {{r}, {r, r2}, {c}, {e, i}}

Init == DockInit /\ scope \in MCScopes
Next ==
  /\ DockNext
  /\ \A t \in MCTasks \ scope : tasks'[t] = NoTask /\ job'[t] = "none" /\ reading'[t] = Nothing
  /\ scope = {r, r2} => /\ reloads' = 0 /\ request'[r] # "cancel-page" /\ job'[r2] # "queued"
                        /\ fresh' \subseteq fresh \/ cached = Nothing
  /\ UNCHANGED scope
Spec == Init /\ [][Next]_<<scope, dockVars>> /\ DockFairness
=============================================================================
