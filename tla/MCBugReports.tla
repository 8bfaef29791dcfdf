---------------------------- MODULE MCBugReports ----------------------------
(* Small instances of BugReports for TLC. *)
EXTENDS BugReports, TLC

CONSTANTS a, b, fixed, wontfix, c1, c2

\* Clients are interchangeable, and so are resolutions.
ClientSymmetry == Permutations(Clients) \cup Permutations(Notes)
=============================================================================
