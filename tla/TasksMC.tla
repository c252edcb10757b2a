------------------------------ MODULE TasksMC ------------------------------
(* Tasks for TLC: process identifiers from 1, a segment for each job.      *)
EXTENDS Tasks

TwoPids == {1, 2}
OneSegment == {1}
TwoSegments == {1, 2}
=============================================================================
