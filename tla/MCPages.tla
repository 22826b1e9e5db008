------------------------------- MODULE MCPages -------------------------------
(***************************************************************************)
(* Instances of PortalPages for TLC.                                       *)
(***************************************************************************)
EXTENDS TLC, PortalPages

CONSTANTS p, h, v, m, n, r, a, b, c, d, r1, r2, r3

MCPagesOf == [x \in {r1, r2} |-> IF x = r1 THEN {p, h} ELSE {v}]

\* Folders: b lies in a.  A report in b, one in d, one in no folder.
MCParentOf == [f \in {a, b} |-> IF f = b THEN a ELSE None]
MCBranchOf == [f \in {a, b, d} |-> IF f = b THEN a ELSE None]
MCShelved  == [x \in {r1, r2, r3} |-> IF x = r2 THEN d ELSE b]
MCFiled    == [x \in {r1, r2, r3} |-> IF x = r1 THEN b ELSE IF x = r2 THEN d ELSE None]
MCReleased == [x \in {r1, r2, r3} |-> IF x = r1 THEN 2 ELSE IF x = r2 THEN 1 ELSE 3]
MCNumbers  == [x \in {r1, r2, r3} |-> IF x = r1 THEN 1 ELSE IF x = r2 THEN 2 ELSE 3]

\* Teams share the first of their names; the last is their own.
MCCandidates == [t \in {1, 2} |-> <<1, 1 + t, 3 + t>>]
MCIn         == [x \in {p, h} |-> IF x = p THEN {r1} ELSE {r1, r2}]

MCCompanyOf == [x \in {r1, r2} |-> IF x = r1 THEN c ELSE d]
MCRecorded  == [x \in {All, v} |-> IF x = v THEN 2 ELSE 3]

MCFirstStatus ==
  [x \in {r1, r2, r3} |-> IF x = r1 THEN "in_progress" ELSE IF x = r2 THEN "failed" ELSE None]
MCDayOf    == [x \in {r1, r2, r3} |-> IF x = r3 THEN 2 ELSE 1]
MCSlotOf   == [x \in {r1, r2, r3} |-> IF x = r2 THEN b ELSE a]
MCReportOf == [x \in {r1, r2, r3} |-> IF x = r2 THEN h ELSE p]
MCNameOf   == [x \in {p, h} |-> IF x = p THEN 2 ELSE 1]

MCSymmetry == Permutations({m, n})
=============================================================================
