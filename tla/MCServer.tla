------------------------------ MODULE MCServer ------------------------------
(***************************************************************************)
(* The refresh of a dataset and three smaller parts of the server in which *)
(* calls overlap: sessions, the requests of the service centre and the     *)
(* collection of a workspace.  They share no state: one of them runs at a  *)
(* time, and their runs are added up.                                      *)
(***************************************************************************)
EXTENDS TLC, DatasetRefresh, UserSessions, ServerParts

CONSTANTS d, r1, r2, c1, w1, w2, i1, i2, i3, l1, l2, u1, u2, o1, o2, k1, k2, f1, t1, t2, a1, x1
VARIABLE part

serverVars == <<part, vars, sessionVars, requestVars, collectVars>>

\* Requests, workers and run ids are interchangeable.
ServerSymmetry == Permutations(Requests) \cup Permutations(Workers) \cup Permutations(Runs)

\* A part that does not run has one state.
ServerInit ==
  /\ part \in {"refresh", "sessions", "requests", "collector"}
  /\ Init /\ SessionInit /\ RequestInit /\ CollectInit
  /\ part # "sessions" => row.active
  /\ part # "collector" => catalog = {}

ServerNext ==
  /\ UNCHANGED part
  /\ \/ part = "refresh" /\ Next /\ UNCHANGED <<sessionVars, requestVars, collectVars>>
     \/ part = "sessions" /\ SessionNext /\ UNCHANGED <<vars, requestVars, collectVars>>
     \/ part = "requests" /\ RequestNext /\ UNCHANGED <<vars, sessionVars, collectVars>>
     \/ part = "collector" /\ CollectNext /\ UNCHANGED <<vars, sessionVars, requestVars>>

ServerSpec == ServerInit /\ [][ServerNext]_serverVars
=============================================================================
