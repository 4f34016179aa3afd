---------------------------- MODULE MCRunStream ----------------------------
(* Instances of RunStream for TLC. *)
EXTENDS RunStream

\* Requests from the start, and from a cursor that may be the last row.
MCAfters  == {0, 2}
MCFilters == {Any, "queued"}
MCLimits  == {1, 9}
MCOutcomes == {"completed"}
=============================================================================
