---------------------------- MODULE MCReportRun ----------------------------
EXTENDS ReportRun

CONSTANTS e1, e2
=============================================================================
