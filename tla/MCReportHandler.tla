-------------------------- MODULE MCReportHandler --------------------------
(* Small instances of ReportHandler for TLC.                               *)
EXTENDS ReportHandler, TLC

Symmetry == Permutations(Handlers)
=============================================================================
