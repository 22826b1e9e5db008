--------------------------- MODULE MCDisplayPlayer ---------------------------
EXTENDS DisplayPlayer
CONSTANTS s1, s2, s3, a, b
MCReportOf == [s \in Slides |-> IF s = s3 THEN b ELSE a]
MCBoards == {<<s1, s3>>, <<s1>>}
=============================================================================
