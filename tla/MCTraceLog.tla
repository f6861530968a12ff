----------------------------- MODULE MCTraceLog -----------------------------
(* Records with no and with two arguments: arguments that are the marker, two  *)
(* records with one CRC, a CRC that is the first byte of the marker, one that  *)
(* looks like the unit after it, and the head of a record that passes the     *)
(* check with the first bytes of a report behind it.                         *)
EXTENDS TraceLog

MCReport == <<<<1, 2, 5, 2, 0, 1, 10>>, <<1, 2, 6, 0, 1>>, <<1, 2, 7, 0, 5>>>>
MCEvents == {<<1, 2, 3, 0, 9>>, <<1, 2, 4, 2, 1, 2, 9>>}
MCReports == {MCReport}
MCFlukes == {<<1, 2, 4, 2, 1, 2, 5>>}

ASSUME MCLongReports == LongReports

=============================================================================
