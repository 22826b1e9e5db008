--------------------------- MODULE MCMailPipeline ---------------------------
(* Instances of MailPipeline for TLC. *)
EXTENDS MailPipeline, TLC

CONSTANTS w1, w2, s1, f1, f2, r1, p1, p2

Schedule(e, ps, r) == [enabled |-> e, pages |-> ps, reachable |-> r]

\* Complete, without pages, without anybody to send to, and switched off.
AllKinds == {Schedule(TRUE, Pages, TRUE), Schedule(TRUE, {}, TRUE),
             Schedule(TRUE, Pages, FALSE), Schedule(FALSE, Pages, TRUE)}

OnAndOff == {Schedule(TRUE, Pages, TRUE), Schedule(FALSE, Pages, TRUE)}

\* The second fire falls on a business day of the schedule, or on a holiday.
NoHoliday == {}
Holiday == Schedules \X {f2}

\* Workers, and pages, are interchangeable.
Symmetry == Permutations(Workers) \cup Permutations(Pages)

=============================================================================
