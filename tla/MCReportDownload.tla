-------------------------- MODULE MCReportDownload --------------------------
(* Small instances of ReportDownload for TLC.                               *)
EXTENDS ReportDownload, TLC

CONSTANTS a, b, c  \* paths

Page(p, k) == [path |-> p, kind |-> k]

\* A file listed twice, an invalid entry and another file; a directory and a file.
ListingTwice == <<Page(a, "file"), Page(c, "invalid"), Page(b, "file"), Page(a, "file")>>
ListingBoth  == <<Page(a, "file"), Page(b, "file")>>
ListingSolo  == <<Page(b, "skip"), Page(a, "file")>>
=============================================================================
