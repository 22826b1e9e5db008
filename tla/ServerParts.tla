----------------------------- MODULE ServerParts -----------------------------
(***************************************************************************)
(* Two parts of the server in which calls overlap: a request of the        *)
(* service centre and the collection of a workspace.  They share no state. *)
(***************************************************************************)
EXTENDS RequestCenter, RefreshCollector

PartsSpec == RequestSpec /\ CollectSpec

\* What calls write at the same time at the server fits together: the history of
\* a request with its status, its attachments with their files, the runs with what
\* Power BI has said of them, and the catalogue with what operators registered.
WritersAgree == RequestsAreWhole /\ CollectionsHold
=============================================================================
