---------------------------- MODULE ReportingMC ----------------------------
(***************************************************************************)
(* Instances of Reporting for TLC.                                         *)
(***************************************************************************)
EXTENDS Reporting
=============================================================================
