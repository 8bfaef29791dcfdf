---------------------------- MODULE MCBuildJobs ----------------------------
(* Small instances of BuildJobs for TLC. *)
EXTENDS BuildJobs

CONSTANTS r1, r2

\* The jobs a client polls: those of one request, or none.
JobsOfOne == {r1} \X (1..MaxJobs)
NoJobs == {}
=============================================================================
